---------------------------- MODULE CreditLedger ----------------------------
(***************************************************************************)
(* What the transfer credits promise, with no counters, sessions or        *)
(* acknowledgements: each payload is charged to its lane from the moment   *)
(* its native work starts until its buffer is given back, a lane never     *)
(* carries more than Limit payloads, and a payload is given back once.     *)
(***************************************************************************)
EXTENDS Integers, FiniteSets

CONSTANTS
  Payload,  (* transfer requests      *)
  Lane,     (* radar sources          *)
  Limit     (* payloads of one lane   *)

VARIABLES
  preparing,  (* <<payload, lane>> under native work             *)
  delivered   (* <<payload, lane>> in the document's possession  *)

ledger == <<preparing, delivered>>

Load(l) == {b \in preparing \cup delivered : b[2] = l}

Charge(p, l) ==
  /\ Cardinality(Load(l)) < Limit
  /\ \A b \in preparing \cup delivered : b[1] # p
  /\ preparing' = preparing \cup {<<p, l>>}
  /\ UNCHANGED delivered

Abandon(b) ==
  /\ b \in preparing
  /\ preparing' = preparing \ {b}
  /\ UNCHANGED delivered

Deliver(b) ==
  /\ b \in preparing
  /\ preparing' = preparing \ {b}
  /\ delivered' = delivered \cup {b}

GiveBack(b) ==
  /\ b \in delivered
  /\ delivered' = delivered \ {b}
  /\ UNCHANGED preparing

(* The document is gone, and with it every buffer it had.                   *)
Reclaim ==
  /\ delivered' = {}
  /\ UNCHANGED preparing

Init == preparing = {} /\ delivered = {}

Next ==
  \/ \E p \in Payload, l \in Lane : Charge(p, l)
  \/ \E b \in preparing : Abandon(b) \/ Deliver(b)
  \/ \E b \in delivered : GiveBack(b)
  \/ Reclaim

Spec == Init /\ [][Next]_ledger
=============================================================================
