------------------------- MODULE MCTransferProtocol -------------------------
(* Instance of TransferProtocol for TLC.  A request's payload is released    *)
(* under an id of its own, so the two sets are the same.                     *)
EXTENDS TransferProtocol
=============================================================================
