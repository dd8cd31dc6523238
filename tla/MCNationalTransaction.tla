----------------------- MODULE MCNationalTransaction -----------------------
(* Instance of NationalTransaction for TLC.                                 *)
EXTENDS NationalAnswers
=============================================================================
