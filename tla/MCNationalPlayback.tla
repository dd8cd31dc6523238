------------------------- MODULE MCNationalPlayback -------------------------
(* A National loop of two of three observations.                            *)
EXTENDS NationalPlayback

MCObservation == 1..3
MCTask == {Commit, Advance, Scrub, Reveal}
=============================================================================
