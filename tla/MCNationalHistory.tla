------------------------- MODULE MCNationalHistory -------------------------
(* Instance of NationalHistory for TLC.  Commands are only names of tasks.   *)
EXTENDS NationalHistory

Symmetry == Permutations(Command)
=============================================================================
