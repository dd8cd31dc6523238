-------------------------- MODULE ReversibleHistory --------------------------
(***************************************************************************)
(* What the National history store promises to its one caller: an ordered, *)
(* bounded sequence of observations that changes one observation at a      *)
(* time, where a change stays provisional, and can be taken back whole,    *)
(* until it is settled.  Nothing is said of downloads, staging, identities *)
(* or memory.                                                              *)
(***************************************************************************)
EXTENDS Integers, Sequences

CONSTANTS
  Time,  (* observation times, a set of integers  *)
  Limit  (* observations kept                     *)

VARIABLES
  settled,  (* the history every party has agreed to                  *)
  proposed  (* <<>> or <<h>>: the history a provisional change leads to *)

history == <<settled, proposed>>

Chronological(h) == \A i, j \in 1 .. Len(h) : i < j => h[i] < h[j]

(* The oldest observation makes room when there is one too many.            *)
Trim(h) == IF Len(h) > Limit THEN Tail(h) ELSE h

Init == settled = <<>> /\ proposed = <<>>

Propose(t) ==
  /\ proposed = <<>>
  /\ \E h \in {<<t>> \o settled, Append(settled, t)} :
        /\ Chronological(h)
        /\ proposed' = <<Trim(h)>>
  /\ UNCHANGED settled

Settle ==
  /\ proposed # <<>>
  /\ settled' = proposed[1]
  /\ proposed' = <<>>

TakeBack ==
  /\ proposed # <<>>
  /\ proposed' = <<>>
  /\ UNCHANGED settled

(* A new radar generation starts over.                                      *)
Restart ==
  /\ settled' = <<>>
  /\ proposed' = <<>>

Next == (\E t \in Time : Propose(t)) \/ Settle \/ TakeBack \/ Restart

Spec == Init /\ [][Next]_history
=============================================================================
