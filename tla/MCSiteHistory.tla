--------------------------- MODULE MCSiteHistory ---------------------------
(* A Site's history of two or three scans, two polling sessions.            *)
EXTENDS SiteHistory, TLC

MCTask == Session \cup Advance \cup {Scrub, Carry}
MCScan == 0..3
MCSymmetry == Permutations(Session)
=============================================================================
