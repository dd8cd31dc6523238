-------------------------- MODULE MCTransferBroker --------------------------
(* Instance of TransferBroker for TLC.  Requests and release ids are only    *)
(* compared for equality, so both sets are symmetric.                        *)
EXTENDS TransferBroker, TLC

Symmetry == Permutations(Request) \cup Permutations(ReleaseId)
=============================================================================
