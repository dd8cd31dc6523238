--------------------------- MODULE MCGridStaging ---------------------------
(* Instance of GridStaging for TLC: a grid of three chunks, the last of     *)
(* them smaller.  Of the two fields one is measured at both edges of the    *)
(* middle chunk but not in it, and the other only in the first chunk.       *)
EXTENDS GridStaging

MCFields == {{<<1, 0>>, <<4, 1>>}, {<<0, 0>>}}
=============================================================================
