---------------------------- MODULE ReversibleLoop ----------------------------
(***************************************************************************)
(* What a resident loop promises its update: a bounded set of observations *)
(* that changes by adding one, where what is kept was there before, and    *)
(* the change can be taken back whole until it is settled, but for one     *)
(* that slips: it is made at once.  Nothing is said of paints, textures,   *)
(* contexts, tasks or the store.                                           *)
(***************************************************************************)
CONSTANTS
  Observation,  (* what a loop is made of                        *)
  Loops         (* the sets of observations that fit in one loop *)

VARIABLES
  settled,     (* the loop without the change that is under way           *)
  provisional  (* {} or {loop}: the loop that a change under way leads to *)

loop == <<settled, provisional>>

Init ==
  /\ \E o \in Observation : settled \in SUBSET {o}
  /\ provisional = {}

Propose(o) ==
  /\ provisional = {}
  /\ \E kept \in SUBSET settled :
        /\ kept \cup {o} \in Loops
        /\ provisional' = {kept \cup {o}}
  /\ UNCHANGED settled

(* The commit has failed too late: the loop is what it was to be, and there  *)
(* is nothing that could be taken back.                                     *)
Slip(o) ==
  /\ provisional = {}
  /\ \E kept \in SUBSET settled :
        /\ kept \cup {o} \in Loops
        /\ settled' = kept \cup {o}
  /\ UNCHANGED provisional

Settle ==
  /\ provisional # {}
  /\ settled' \in provisional
  /\ provisional' = {}

TakeBack ==
  /\ provisional # {}
  /\ provisional' = {}
  /\ UNCHANGED settled

(* The loop is given up with whatever was under way.                        *)
Remove ==
  /\ settled' = {}
  /\ provisional' = {}

Next == (\E o \in Observation : Propose(o) \/ Slip(o)) \/ Settle \/ TakeBack \/ Remove

Spec == Init /\ [][Next]_loop
=============================================================================
