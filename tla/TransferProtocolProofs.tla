----------------------- MODULE TransferProtocolProofs -----------------------
(***************************************************************************)
(* Proofs about the credit broker, and about client and broker together,   *)
(* for any requests, credits, sessions, generations, page loads and any    *)
(* order of the calls between the two. Of the broker with any callers:     *)
(*   - what a delivered credit can be named by (HeldCreditsAreReachable,   *)
(*     ReleaseFindsItsLane, EvidenceIsCurrent), from LaneInv, which says   *)
(*     what an active lane and a generation number stand for;              *)
(*   - the credit limit of a lane, from the finiteness of the tickets;     *)
(*   - the in-flight counters against the running tasks.                   *)
(* Of the two together:                                                    *)
(*   - the client calls the broker as the broker's own model allows, so    *)
(*     that what is proved of the broker holds here (ClientUsesBroker);    *)
(*   - a lane the client takes for active is active (LanesAgree);          *)
(*   - the two keep the ledger of credits (KeepsTheLedger).                *)
(***************************************************************************)
EXTENDS TransferProtocol, FiniteSetTheorems, FunctionTheorems, TLAPS

-----------------------------------------------------------------------------
(* Every critical section of the broker keeps the types.                    *)
LEMMA TypeStep ==
  ASSUME TypeOK, [Next]_vars
  PROVE  TypeOK'
<1> USE BoundAssumption DEF TypeOK, Session, Generation, Epoch
<1>1. CASE open_session
  BY <1>1 DEF open_session, EpochAtOpen
<1>2. CASE document_started
  <2>1. ASSUME NEW l \in TransferLane
        PROVE  [lanes[l] EXCEPT !.active = FALSE]
                 \in [generation: Generation, active: BOOLEAN]
    OBVIOUS
  <2>2. lanes' \in [TransferLane -> [generation: Generation, active: BOOLEAN]]
    BY <1>2, <2>1, Zenon DEF document_started
  <2>3. QED
    BY <1>2, <2>2 DEF document_started
<1>3. ASSUME NEW s \in Session, NEW l \in TransferLane, NEW g \in Generation,
             begin(s, l, g)
      PROVE  TypeOK'
  BY <1>3 DEF begin
<1>4. ASSUME NEW s \in Session, NEW l \in TransferLane, NEW g \in Generation,
             cancel(s, l, g)
      PROVE  TypeOK'
  BY <1>4 DEF cancel
<1>5. ASSUME NEW r \in Request, NEW s \in Session, NEW l \in TransferLane,
             NEW g \in Generation, acquire(r, s, l, g)
      PROVE  TypeOK'
  BY <1>5 DEF acquire, InFlightTicket, HeldTicket, Task
<1>6. ASSUME NEW s \in Session, NEW g \in Generation, NEW id \in ReleaseId,
             release(s, g, id)
      PROVE  TypeOK'
  BY <1>6 DEF release
<1>7. ASSUME NEW t \in Task, TaskEnds(t)
      PROVE  TypeOK'
  BY <1>7 DEF TaskEnds, finish_without_publish, complete_for_publish,
              complete_phase5_for_publish, InFlightOfOwner, InFlightOfLane,
              Task, HeldTicket, InFlightTicket
<1>8. CASE UNCHANGED vars
  BY <1>8 DEF vars
<1>9. QED
  BY <1>1, <1>2, <1>3, <1>4, <1>5, <1>6, <1>7, <1>8 DEF Next, Control, Transfer

(* Type correctness: the broker's fields, the tickets of its counters and   *)
(* the tasks keep their types through every critical section.               *)
THEOREM TypeCorrect == Spec => []TypeOK
<1>1. Init => TypeOK
  BY BoundAssumption DEF Init, TypeOK, Session, Generation, Epoch
<1>2. TypeOK /\ [Next]_vars => TypeOK'
  BY TypeStep
<1>3. QED
  BY <1>1, <1>2, PTL DEF Spec

-----------------------------------------------------------------------------
(* What the broker's fields say about one another, and the two properties   *)
(* they protect.  An active lane was begun by the current document with a   *)
(* generation of its own, so a payload that may publish belongs to the      *)
(* session and to the only lane that ever used its generation.              *)
SessionHasDocument ==
  /\ session # 0 => document_epoch # 0
  /\ held_credits_by_owner # {} => session # 0

ActiveLaneIsBegun ==
  \A l \in TransferLane :
     lanes[l].active => /\ session # 0
                        /\ session_document_epoch = document_epoch
                        /\ lanes[l].generation # 0

GenerationHasOneLane ==
  /\ \A l \in TransferLane : lanes[l].generation <= max_generation
  /\ lanes["site"].generation = lanes["national"].generation
       => lanes["site"].generation = 0
  /\ \A c \in held_credits_by_owner, l \in TransferLane :
        c.generation = lanes[l].generation => c.lane = l

LaneInv ==
  /\ TypeOK
  /\ SessionHasDocument
  /\ ActiveLaneIsBegun
  /\ GenerationHasOneLane
  /\ HeldCreditsAreReachable
  /\ ReleaseFindsItsLane

(* The strengthened invariant holds before any document has started.        *)
LEMMA LaneInvInit == Init => LaneInv
  BY BoundAssumption
  DEF Init, LaneInv, TypeOK, Session, Generation, Epoch, TransferLane,
      SessionHasDocument, ActiveLaneIsBegun, GenerationHasOneLane,
      HeldCreditsAreReachable, ReleaseFindsItsLane

(* A payload joins the held credits only under the session, lane and        *)
(* generation that may publish, and nothing else enters them.               *)
LEMMA HeldOnlyPublishes ==
  ASSUME TypeOK, NEW t \in Task, TaskEnds(t),
         NEW h \in held_credits_by_owner', h \notin held_credits_by_owner
  PROVE  /\ Publishable(t.session, t.lane, t.generation)
         /\ h.session = t.session
         /\ h.lane = t.lane
         /\ h.generation = t.generation
  BY DEF TaskEnds, finish_without_publish, complete_for_publish,
         complete_phase5_for_publish

(* The end of a task changes no session, lane or acknowledgement.           *)
LEMMA TaskEndsFrame ==
  ASSUME NEW t \in Task, TaskEnds(t)
  PROVE  UNCHANGED <<document_epoch, session, session_document_epoch,
                     max_generation, lanes, acknowledged_release_ids>>
  BY DEF TaskEnds, finish_without_publish, complete_for_publish,
         complete_phase5_for_publish

(* Every critical section of the broker keeps the strengthened invariant.   *)
LEMMA LaneInvStep ==
  ASSUME LaneInv, [Next]_vars, TypeOK'
  PROVE  LaneInv'
<1> USE BoundAssumption
    DEF LaneInv, TypeOK, Session, Generation, Epoch, TransferLane,
        SessionHasDocument, ActiveLaneIsBegun, GenerationHasOneLane,
        HeldCreditsAreReachable, ReleaseFindsItsLane, HeldTicket
<1>1. CASE open_session
  <2>1. held_credits_by_owner = {}
    BY <1>1 DEF open_session, StillOwned, EpochAtOpen
  <2>2. QED
    BY <1>1, <2>1 DEF open_session, EpochAtOpen
<1>2. CASE document_started
  BY <1>2 DEF document_started
<1>3. ASSUME NEW s \in Session, NEW l \in TransferLane, NEW g \in Generation,
             begin(s, l, g)
      PROVE  LaneInv'
  BY <1>3 DEF begin, BeginAccepted, ensure_session
<1>4. ASSUME NEW s \in Session, NEW l \in TransferLane, NEW g \in Generation,
             cancel(s, l, g)
      PROVE  LaneInv'
  BY <1>4 DEF cancel
<1>5. ASSUME NEW r \in Request, NEW s \in Session, NEW l \in TransferLane,
             NEW g \in Generation, acquire(r, s, l, g)
      PROVE  LaneInv'
  BY <1>5 DEF acquire
<1>6. ASSUME NEW s \in Session, NEW g \in Generation, NEW id \in ReleaseId,
             release(s, g, id)
      PROVE  LaneInv'
  BY <1>6 DEF release
<1>7. ASSUME NEW t \in Task, TaskEnds(t)
      PROVE  LaneInv'
  <2>1. \A h \in held_credits_by_owner' :
           h \in held_credits_by_owner
           \/ /\ Publishable(t.session, t.lane, t.generation)
              /\ h.session = t.session
              /\ h.lane = t.lane
              /\ h.generation = t.generation
    BY <1>7, HeldOnlyPublishes
  <2>2. UNCHANGED <<document_epoch, session, session_document_epoch,
                    max_generation, lanes>>
    BY <1>7, TaskEndsFrame
  <2>3. t.lane \in TransferLane /\ t.generation \in Generation
    BY DEF Task
  <2>4. HeldCreditsAreReachable'
    BY <2>1, <2>2, <2>3 DEF Publishable
  <2>5. GenerationHasOneLane'
    BY <2>1, <2>2, <2>3 DEF Publishable
  <2>6. ReleaseFindsItsLane'
    BY <2>1, <2>2, <2>3 DEF Publishable
  <2>7. SessionHasDocument'
    BY <2>1, <2>2, <2>3 DEF Publishable
  <2>8. QED
    BY <2>2, <2>4, <2>5, <2>6, <2>7
<1>8. CASE UNCHANGED vars
  BY <1>8 DEF vars
<1>9. QED
  BY <1>1, <1>2, <1>3, <1>4, <1>5, <1>6, <1>7, <1>8 DEF Next, Control, Transfer

(* What the broker's lanes, delivered credits and evidence always satisfy   *)
(* together: the inductive invariant behind the three theorems below.       *)
THEOREM LaneInvariant == Spec => []LaneInv
<1>1. LaneInv /\ TypeOK' /\ [Next]_vars => LaneInv'
  BY LaneInvStep
<1>2. QED
  BY LaneInvInit, TypeCorrect, <1>1, PTL DEF Spec

(* Every delivered credit can be named by the document that is loaded: it   *)
(* belongs to its session and to a generation the session began.            *)
THEOREM CreditsAreReachable == Spec => []HeldCreditsAreReachable
  BY LaneInvariant, PTL DEF LaneInv

(* A release call names no lane; the generation it names has delivered on   *)
(* one lane only, so the broker's search finds that lane.                   *)
THEOREM ReleaseIsUnambiguous == Spec => []ReleaseFindsItsLane
  BY LaneInvariant, PTL DEF LaneInv

-----------------------------------------------------------------------------
(* Live-sweep evidence is dropped with the generation it describes, so a    *)
(* lookup, which the broker answers for the current Site generation only,   *)
(* never returns evidence of an earlier one.                                *)
THEOREM EvidenceFollowsGeneration == Spec => []EvidenceIsCurrent
<1>1. Init => EvidenceIsCurrent
  BY DEF Init, EvidenceIsCurrent
<1>2. TypeOK /\ EvidenceIsCurrent /\ [Next]_vars => EvidenceIsCurrent'
  <2> SUFFICES ASSUME TypeOK, EvidenceIsCurrent, [Next]_vars
               PROVE  EvidenceIsCurrent'
    OBVIOUS
  <2> USE DEF TypeOK, EvidenceIsCurrent
  <2>1. CASE open_session
    BY <2>1 DEF open_session
  <2>2. CASE document_started
    BY <2>2 DEF document_started
  <2>3. ASSUME NEW s \in Session, NEW l \in TransferLane, NEW g \in Generation,
               begin(s, l, g)
        PROVE  EvidenceIsCurrent'
    BY <2>3 DEF begin, TransferLane
  <2>4. ASSUME NEW s \in Session, NEW l \in TransferLane, NEW g \in Generation,
               cancel(s, l, g)
        PROVE  EvidenceIsCurrent'
    BY <2>4 DEF cancel, TransferLane
  <2>5. ASSUME NEW r \in Request, NEW s \in Session, NEW l \in TransferLane,
               NEW g \in Generation, acquire(r, s, l, g)
        PROVE  EvidenceIsCurrent'
    BY <2>5 DEF acquire
  <2>6. ASSUME NEW s \in Session, NEW g \in Generation, NEW id \in ReleaseId,
               release(s, g, id)
        PROVE  EvidenceIsCurrent'
    BY <2>6 DEF release
  <2>7. ASSUME NEW t \in Task, TaskEnds(t)
        PROVE  EvidenceIsCurrent'
    BY <2>7 DEF TaskEnds, finish_without_publish, complete_for_publish,
                complete_phase5_for_publish, Publishable
  <2>8. CASE UNCHANGED vars
    BY <2>8 DEF vars
  <2>9. QED
    BY <2>1, <2>2, <2>3, <2>4, <2>5, <2>6, <2>7, <2>8 DEF Next, Control, Transfer
<1>3. QED
  BY <1>1, <1>2, TypeCorrect, PTL DEF Spec

-----------------------------------------------------------------------------
(* One element more, one element less.                                      *)
LEMMA CardAdd ==
  ASSUME NEW S, NEW x, IsFiniteSet(S)
  PROVE  /\ IsFiniteSet(S \cup {x})
         /\ Cardinality(S) \in Nat
         /\ Cardinality(S \cup {x}) \in Nat
         /\ Cardinality(S \cup {x}) <= Cardinality(S) + 1
         /\ x \notin S => Cardinality(S \cup {x}) = Cardinality(S) + 1
<1>1. IsFiniteSet(S \cup {x})
  BY FS_AddElement
<1>2. Cardinality(S \cup {x}) =
        IF x \in S THEN Cardinality(S) ELSE Cardinality(S) + 1
  BY FS_AddElement
<1>3. Cardinality(S) \in Nat /\ Cardinality(S \cup {x}) \in Nat
  BY <1>1, FS_CardinalityType
<1>4. QED
  BY <1>1, <1>2, <1>3

(* A finite set without one of its elements has one element fewer.           *)
LEMMA CardRemove ==
  ASSUME NEW S, NEW x \in S, IsFiniteSet(S)
  PROVE  /\ IsFiniteSet(S \ {x})
         /\ Cardinality(S) \in Nat
         /\ Cardinality(S \ {x}) \in Nat
         /\ Cardinality(S \ {x}) = Cardinality(S) - 1
<1>1. IsFiniteSet(S \ {x})
  BY FS_RemoveElement
<1>2. Cardinality(S \ {x}) =
        IF x \in S THEN Cardinality(S) - 1 ELSE Cardinality(S)
  BY FS_RemoveElement
<1>3. Cardinality(S) \in Nat /\ Cardinality(S \ {x}) \in Nat
  BY <1>1, FS_CardinalityType
<1>4. QED
  BY <1>1, <1>2, <1>3

-----------------------------------------------------------------------------
(* The credit limit.  The counters are finite sets of tickets; a lane's     *)
(* load grows only in acquire, which checks the limit first: a task that    *)
(* ends turns at most one in-flight ticket into at most one held one.       *)
CreditInv ==
  /\ IsFiniteSet(in_flight_credits_by_owner)
  /\ IsFiniteSet(held_credits_by_owner)
  /\ LaneCreditBound

(* The in-flight and the held tickets of a lane are finite sets.            *)
LEMMA LaneCounts ==
  ASSUME IsFiniteSet(in_flight_credits_by_owner),
         IsFiniteSet(held_credits_by_owner),
         NEW l \in TransferLane
  PROVE  /\ IsFiniteSet(InFlightOfLane(l))
         /\ IsFiniteSet(HeldOfLane(l))
         /\ Cardinality(InFlightOfLane(l)) \in Nat
         /\ Cardinality(HeldOfLane(l)) \in Nat
<1>1. InFlightOfLane(l) \subseteq in_flight_credits_by_owner
  BY DEF InFlightOfLane
<1>2. HeldOfLane(l) \subseteq held_credits_by_owner
  BY DEF HeldOfLane
<1>3. QED
  BY <1>1, <1>2, FS_Subset, FS_CardinalityType

(* A lane's load does not grow when its tickets are among the ones it had.  *)
LEMMA LoadShrinks ==
  ASSUME CreditInv,
         in_flight_credits_by_owner' \subseteq in_flight_credits_by_owner,
         held_credits_by_owner' \subseteq held_credits_by_owner
  PROVE  CreditInv'
<1>1. /\ IsFiniteSet(in_flight_credits_by_owner')
      /\ IsFiniteSet(held_credits_by_owner')
  BY FS_Subset DEF CreditInv
<1>2. ASSUME NEW l \in TransferLane
      PROVE  credits_in_use(l)' <= TRANSFER_CREDIT_LIMIT
  <2>1. InFlightOfLane(l)' \subseteq InFlightOfLane(l)
    BY DEF InFlightOfLane
  <2>2. HeldOfLane(l)' \subseteq HeldOfLane(l)
    BY DEF HeldOfLane
  <2>3. /\ IsFiniteSet(InFlightOfLane(l))
        /\ IsFiniteSet(HeldOfLane(l))
        /\ Cardinality(InFlightOfLane(l)) \in Nat
        /\ Cardinality(HeldOfLane(l)) \in Nat
    BY LaneCounts DEF CreditInv
  <2>4. /\ IsFiniteSet(InFlightOfLane(l)')
        /\ Cardinality(InFlightOfLane(l)') <= Cardinality(InFlightOfLane(l))
        /\ Cardinality(InFlightOfLane(l)') \in Nat
    BY <2>1, <2>3, FS_Subset, FS_CardinalityType
  <2>5. /\ IsFiniteSet(HeldOfLane(l)')
        /\ Cardinality(HeldOfLane(l)') <= Cardinality(HeldOfLane(l))
        /\ Cardinality(HeldOfLane(l)') \in Nat
    BY <2>2, <2>3, FS_Subset, FS_CardinalityType
  <2>6. credits_in_use(l) <= TRANSFER_CREDIT_LIMIT
    BY DEF CreditInv, LaneCreditBound
  <2>7. QED
    BY <2>3, <2>4, <2>5, <2>6, LimitAssumption DEF credits_in_use
<1>3. QED
  BY <1>1, <1>2 DEF CreditInv, LaneCreditBound

(* An accepted request leaves every lane within its limit (acquire).        *)
LEMMA AcquireKeepsLimit ==
  ASSUME CreditInv, NEW r \in Request, NEW s \in Session, NEW l \in TransferLane,
         NEW g \in Generation, acquire(r, s, l, g)
  PROVE  CreditInv'
<1> DEFINE new == [request |-> r, session |-> s, lane |-> l]
<1>1. /\ in_flight_credits_by_owner' = in_flight_credits_by_owner \cup {new}
      /\ held_credits_by_owner' = held_credits_by_owner
  BY DEF acquire
<1>2. /\ IsFiniteSet(in_flight_credits_by_owner')
      /\ IsFiniteSet(held_credits_by_owner')
  BY <1>1, FS_AddElement DEF CreditInv
<1>3. ASSUME NEW k \in TransferLane
      PROVE  credits_in_use(k)' <= TRANSFER_CREDIT_LIMIT
  <2>1. /\ IsFiniteSet(InFlightOfLane(k))
        /\ Cardinality(InFlightOfLane(k)) \in Nat
        /\ Cardinality(HeldOfLane(k)) \in Nat
    BY LaneCounts DEF CreditInv
  <2>2. HeldOfLane(k)' = HeldOfLane(k)
    BY <1>1 DEF HeldOfLane
  <2>3. CASE k = l
    <3>1. InFlightOfLane(k)' = InFlightOfLane(k) \cup {new}
      BY <1>1, <2>3 DEF InFlightOfLane
    <3> HIDE DEF new
    <3>2. /\ Cardinality(InFlightOfLane(k)') <= Cardinality(InFlightOfLane(k)) + 1
          /\ Cardinality(InFlightOfLane(k)') \in Nat
      BY <2>1, <3>1, CardAdd
    <3>3. credits_in_use(k) < TRANSFER_CREDIT_LIMIT
      BY <2>3 DEF acquire, AcquireAccepted
    <3>4. QED
      BY <2>1, <2>2, <3>2, <3>3, LimitAssumption DEF credits_in_use
  <2>4. CASE k # l
    <3>1. InFlightOfLane(k)' = InFlightOfLane(k)
      BY <1>1, <2>4 DEF InFlightOfLane
    <3>2. credits_in_use(k)' = credits_in_use(k)
      BY <2>2, <3>1 DEF credits_in_use
    <3>3. QED
      BY <3>2 DEF CreditInv, LaneCreditBound
  <2>5. QED
    BY <2>3, <2>4
<1>4. QED
  BY <1>2, <1>3 DEF CreditInv, LaneCreditBound

(* A task that publishes moves one ticket of its lane; the lane keeps at    *)
(* most the load it had.                                                    *)
LEMMA PublishKeepsLimit ==
  ASSUME CreditInv, NEW t \in Task, complete_for_publish(t)
  PROVE  CreditInv'
<1>1. CASE ~Publishable(t.session, t.lane, t.generation)
  <2>1. /\ in_flight_credits_by_owner' \subseteq in_flight_credits_by_owner
        /\ held_credits_by_owner' \subseteq held_credits_by_owner
    BY <1>1 DEF complete_for_publish
  <2>2. QED
    BY <2>1, LoadShrinks
<1>2. CASE Publishable(t.session, t.lane, t.generation)
  <2>1. PICK c \in InFlightOfOwner(t.session, t.lane) :
           /\ in_flight_credits_by_owner' = in_flight_credits_by_owner \ {c}
           /\ held_credits_by_owner' =
                held_credits_by_owner
                  \cup {[request |-> c.request, session |-> t.session,
                         lane |-> t.lane, generation |-> t.generation]}
    BY <1>2 DEF complete_for_publish
  <2> DEFINE h == [request |-> c.request, session |-> t.session,
                   lane |-> t.lane, generation |-> t.generation]
  <2>2. c \in InFlightOfLane(t.lane) /\ c \in in_flight_credits_by_owner
    BY DEF InFlightOfOwner, InFlightOfLane
  <2>3. h.lane = t.lane
    BY DEF h
  <2>4. held_credits_by_owner' = held_credits_by_owner \cup {h}
    BY <2>1
  <2> HIDE DEF h
  <2>5. /\ IsFiniteSet(in_flight_credits_by_owner')
        /\ IsFiniteSet(held_credits_by_owner')
    BY <2>1, <2>2, <2>4, FS_AddElement, FS_RemoveElement DEF CreditInv
  <2>6. ASSUME NEW k \in TransferLane
        PROVE  credits_in_use(k)' <= TRANSFER_CREDIT_LIMIT
    <3>1. /\ IsFiniteSet(InFlightOfLane(k))
          /\ IsFiniteSet(HeldOfLane(k))
          /\ Cardinality(InFlightOfLane(k)) \in Nat
          /\ Cardinality(HeldOfLane(k)) \in Nat
      BY LaneCounts DEF CreditInv
    <3>2. CASE k = t.lane
      <4>1. InFlightOfLane(k)' = InFlightOfLane(k) \ {c}
        BY <2>1 DEF InFlightOfLane
      <4>2. HeldOfLane(k)' = HeldOfLane(k) \cup {h}
        BY <2>3, <2>4, <3>2 DEF HeldOfLane
      <4>3. /\ Cardinality(InFlightOfLane(k)') = Cardinality(InFlightOfLane(k)) - 1
            /\ Cardinality(InFlightOfLane(k)') \in Nat
        BY <2>2, <3>1, <3>2, <4>1, CardRemove
      <4>4. /\ Cardinality(HeldOfLane(k)') <= Cardinality(HeldOfLane(k)) + 1
            /\ Cardinality(HeldOfLane(k)') \in Nat
        BY <3>1, <4>2, CardAdd
      <4>5. credits_in_use(k)' <= credits_in_use(k)
        BY <3>1, <4>3, <4>4 DEF credits_in_use
      <4>6. credits_in_use(k) <= TRANSFER_CREDIT_LIMIT
        BY DEF CreditInv, LaneCreditBound
      <4>7. QED
        BY <3>1, <4>3, <4>4, <4>6, LimitAssumption DEF credits_in_use
    <3>3. CASE k # t.lane
      <4>1. InFlightOfLane(k)' = InFlightOfLane(k)
        BY <2>1, <2>2, <3>3 DEF InFlightOfLane
      <4>2. HeldOfLane(k)' = HeldOfLane(k)
        BY <2>3, <2>4, <3>3 DEF HeldOfLane
      <4>3. credits_in_use(k)' = credits_in_use(k)
        BY <4>1, <4>2 DEF credits_in_use
      <4>4. QED
        BY <4>3 DEF CreditInv, LaneCreditBound
    <3>4. QED
      BY <3>2, <3>3
  <2>7. QED
    BY <2>5, <2>6 DEF CreditInv, LaneCreditBound
<1>3. QED
  BY <1>1, <1>2

(* The tickets stay finitely many and within the limit.                     *)
LEMMA CreditInvariant == Spec => []CreditInv
<1>1. Init => CreditInv
  <2> SUFFICES ASSUME Init PROVE CreditInv
    OBVIOUS
  <2>1. ASSUME NEW l \in TransferLane
        PROVE  InFlightOfLane(l) = {} /\ HeldOfLane(l) = {}
    BY DEF Init, InFlightOfLane, HeldOfLane
  <2>2. QED
    BY <2>1, FS_EmptySet, LimitAssumption
    DEF Init, CreditInv, LaneCreditBound, credits_in_use
<1>2. CreditInv /\ [Next]_vars => CreditInv'
  <2> SUFFICES ASSUME CreditInv, [Next]_vars PROVE CreditInv'
    OBVIOUS
  <2>1. CASE open_session
    BY <2>1, LoadShrinks DEF open_session
  <2>2. CASE document_started
    BY <2>2, LoadShrinks DEF document_started
  <2>3. ASSUME NEW s \in Session, NEW l \in TransferLane, NEW g \in Generation,
               begin(s, l, g)
        PROVE  CreditInv'
    BY <2>3, LoadShrinks DEF begin
  <2>4. ASSUME NEW s \in Session, NEW l \in TransferLane, NEW g \in Generation,
               cancel(s, l, g)
        PROVE  CreditInv'
    BY <2>4, LoadShrinks DEF cancel
  <2>5. ASSUME NEW r \in Request, NEW s \in Session, NEW l \in TransferLane,
               NEW g \in Generation, acquire(r, s, l, g)
        PROVE  CreditInv'
    BY <2>5, AcquireKeepsLimit
  <2>6. ASSUME NEW s \in Session, NEW g \in Generation, NEW id \in ReleaseId,
               release(s, g, id)
        PROVE  CreditInv'
    BY <2>6, LoadShrinks DEF release
  <2>7. ASSUME NEW t \in Task, TaskEnds(t)
        PROVE  CreditInv'
    <3>1. CASE finish_without_publish(t)
      BY <3>1, LoadShrinks DEF finish_without_publish
    <3>2. CASE complete_for_publish(t)
      BY <3>2, PublishKeepsLimit
    <3>3. QED
      BY <2>7, <3>1, <3>2 DEF TaskEnds, complete_phase5_for_publish
  <2>8. CASE UNCHANGED vars
    BY <2>8, LoadShrinks DEF vars
  <2>9. QED
    BY <2>1, <2>2, <2>3, <2>4, <2>5, <2>6, <2>7, <2>8 DEF Next, Control, Transfer
<1>3. QED
  BY <1>1, <1>2, PTL DEF Spec

(* No lane ever has more than its credits in use, whatever running tasks    *)
(* and delivered payloads of whichever generations and sessions they are.   *)
THEOREM CreditLimitHolds == Spec => []LaneCreditBound
  BY CreditInvariant, PTL DEF CreditInv

-----------------------------------------------------------------------------
(* The in-flight counters.  A task and its ticket start together under the  *)
(* same owner and end together; whose ticket a task takes when it ends does *)
(* not matter, for the tickets of one owner are only counted.               *)
TasksOf(s, l) == {t \in work : t.session = s /\ t.lane = l}

WorkInv ==
  /\ IsFiniteSet(in_flight_credits_by_owner)
  /\ IsFiniteSet(work)
  /\ InFlightMatchesWork

(* The tickets and the tasks of one session and lane are finite sets.       *)
LEMMA OwnerCounts ==
  ASSUME WorkInv, NEW s \in Session, NEW l \in TransferLane
  PROVE  /\ IsFiniteSet(InFlightOfOwner(s, l))
         /\ IsFiniteSet(TasksOf(s, l))
         /\ Cardinality(InFlightOfOwner(s, l)) = Cardinality(TasksOf(s, l))
<1>1. InFlightOfOwner(s, l) \subseteq in_flight_credits_by_owner
  BY DEF InFlightOfOwner, InFlightOfLane
<1>2. TasksOf(s, l) \subseteq work
  BY DEF TasksOf
<1>3. QED
  BY <1>1, <1>2, FS_Subset DEF WorkInv, InFlightMatchesWork, TasksOf

(* A step that moves neither tickets nor tasks keeps the two counts equal.  *)
LEMMA WorkUntouched ==
  ASSUME WorkInv, UNCHANGED <<in_flight_credits_by_owner, work>>
  PROVE  WorkInv'
  BY DEF WorkInv, InFlightMatchesWork, InFlightOfOwner, InFlightOfLane

(* A request adds one ticket and one task to its own session and lane.      *)
LEMMA AcquireCounts ==
  ASSUME WorkInv, NEW r \in Request, NEW s \in Session, NEW l \in TransferLane,
         NEW g \in Generation, acquire(r, s, l, g)
  PROVE  WorkInv'
<1> DEFINE c == [request |-> r, session |-> s, lane |-> l]
           t == [request |-> r, session |-> s, lane |-> l, generation |-> g]
<1>1. /\ in_flight_credits_by_owner' = in_flight_credits_by_owner \cup {c}
      /\ work' = work \cup {t}
  BY DEF acquire
<1>2. c \notin in_flight_credits_by_owner /\ t \notin work
  BY DEF acquire
<1>3. c.session = s /\ c.lane = l /\ t.session = s /\ t.lane = l
  OBVIOUS
<1> HIDE DEF c, t
<1>4. IsFiniteSet(in_flight_credits_by_owner') /\ IsFiniteSet(work')
  BY <1>1, FS_AddElement DEF WorkInv
<1>5. ASSUME NEW q \in Session, NEW k \in TransferLane
      PROVE  Cardinality(InFlightOfOwner(q, k)') = Cardinality(TasksOf(q, k)')
  <2>1. /\ IsFiniteSet(InFlightOfOwner(q, k))
        /\ IsFiniteSet(TasksOf(q, k))
        /\ Cardinality(InFlightOfOwner(q, k)) = Cardinality(TasksOf(q, k))
    BY OwnerCounts
  <2>2. CASE q = s /\ k = l
    <3>1. /\ InFlightOfOwner(q, k)' = InFlightOfOwner(q, k) \cup {c}
          /\ c \notin InFlightOfOwner(q, k)
      BY <1>1, <1>2, <1>3, <2>2 DEF InFlightOfOwner, InFlightOfLane
    <3>2. /\ TasksOf(q, k)' = TasksOf(q, k) \cup {t}
          /\ t \notin TasksOf(q, k)
      BY <1>1, <1>2, <1>3, <2>2 DEF TasksOf
    <3>3. Cardinality(InFlightOfOwner(q, k)') = Cardinality(InFlightOfOwner(q, k)) + 1
      BY <2>1, <3>1, CardAdd
    <3>4. Cardinality(TasksOf(q, k)') = Cardinality(TasksOf(q, k)) + 1
      BY <2>1, <3>2, CardAdd
    <3>5. QED
      BY <2>1, <3>3, <3>4
  <2>3. CASE ~(q = s /\ k = l)
    <3>1. InFlightOfOwner(q, k)' = InFlightOfOwner(q, k)
      BY <1>1, <1>3, <2>3 DEF InFlightOfOwner, InFlightOfLane
    <3>2. TasksOf(q, k)' = TasksOf(q, k)
      BY <1>1, <1>3, <2>3 DEF TasksOf
    <3>3. QED
      BY <2>1, <3>1, <3>2
  <2>4. QED
    BY <2>2, <2>3
<1>6. QED
  BY <1>4, <1>5 DEF WorkInv, InFlightMatchesWork, TasksOf

(* The end of a task removes one ticket and one task of the same owner.     *)
LEMMA TaskEndsCounts ==
  ASSUME TypeOK, WorkInv, NEW t \in Task, TaskEnds(t)
  PROVE  WorkInv'
<1>1. t \in work /\ work' = work \ {t}
  BY DEF TaskEnds, finish_without_publish, complete_for_publish,
         complete_phase5_for_publish
<1>2. PICK c \in InFlightOfOwner(t.session, t.lane) :
         in_flight_credits_by_owner' = in_flight_credits_by_owner \ {c}
  BY DEF TaskEnds, finish_without_publish, complete_for_publish,
         complete_phase5_for_publish
<1>3. /\ c \in in_flight_credits_by_owner
      /\ c.session = t.session
      /\ c.lane = t.lane
  BY DEF InFlightOfOwner, InFlightOfLane
<1>4. IsFiniteSet(in_flight_credits_by_owner') /\ IsFiniteSet(work')
  BY <1>1, <1>2, FS_RemoveElement DEF WorkInv
<1>5. ASSUME NEW q \in Session, NEW k \in TransferLane
      PROVE  Cardinality(InFlightOfOwner(q, k)') = Cardinality(TasksOf(q, k)')
  <2>1. /\ IsFiniteSet(InFlightOfOwner(q, k))
        /\ IsFiniteSet(TasksOf(q, k))
        /\ Cardinality(InFlightOfOwner(q, k)) = Cardinality(TasksOf(q, k))
    BY OwnerCounts
  <2>2. CASE q = t.session /\ k = t.lane
    <3>1. /\ InFlightOfOwner(q, k)' = InFlightOfOwner(q, k) \ {c}
          /\ c \in InFlightOfOwner(q, k)
      BY <1>2, <2>2 DEF InFlightOfOwner, InFlightOfLane
    <3>2. /\ TasksOf(q, k)' = TasksOf(q, k) \ {t}
          /\ t \in TasksOf(q, k)
      BY <1>1, <2>2 DEF TasksOf
    <3>3. QED
      BY <2>1, <3>1, <3>2, CardRemove
  <2>3. CASE ~(q = t.session /\ k = t.lane)
    <3>1. InFlightOfOwner(q, k)' = InFlightOfOwner(q, k)
      BY <1>2, <1>3, <2>3 DEF InFlightOfOwner, InFlightOfLane
    <3>2. TasksOf(q, k)' = TasksOf(q, k)
      BY <1>1, <2>3 DEF TasksOf
    <3>3. QED
      BY <2>1, <3>1, <3>2
  <2>4. QED
    BY <2>2, <2>3
<1>6. QED
  BY <1>4, <1>5 DEF WorkInv, InFlightMatchesWork, TasksOf

(* Tickets and tasks stay finitely many and equally many.                   *)
LEMMA WorkInvariant == Spec => []WorkInv
<1>1. Init => WorkInv
  <2> SUFFICES ASSUME Init PROVE WorkInv
    OBVIOUS
  <2>1. ASSUME NEW s \in Session, NEW l \in TransferLane
        PROVE  InFlightOfOwner(s, l) = {} /\ TasksOf(s, l) = {}
    BY DEF Init, InFlightOfOwner, InFlightOfLane, TasksOf
  <2>2. ASSUME NEW s \in Session, NEW l \in TransferLane
        PROVE  Cardinality(InFlightOfOwner(s, l)) = Cardinality(TasksOf(s, l))
    BY <2>1
  <2>3. QED
    BY <2>2, FS_EmptySet DEF Init, WorkInv, InFlightMatchesWork, TasksOf
<1>2. TypeOK /\ WorkInv /\ [Next]_vars => WorkInv'
  <2> SUFFICES ASSUME TypeOK, WorkInv, [Next]_vars PROVE WorkInv'
    OBVIOUS
  <2>1. CASE open_session
    BY <2>1, WorkUntouched DEF open_session
  <2>2. CASE document_started
    BY <2>2, WorkUntouched DEF document_started
  <2>3. ASSUME NEW s \in Session, NEW l \in TransferLane, NEW g \in Generation,
               begin(s, l, g)
        PROVE  WorkInv'
    BY <2>3, WorkUntouched DEF begin
  <2>4. ASSUME NEW s \in Session, NEW l \in TransferLane, NEW g \in Generation,
               cancel(s, l, g)
        PROVE  WorkInv'
    BY <2>4, WorkUntouched DEF cancel
  <2>5. ASSUME NEW r \in Request, NEW s \in Session, NEW l \in TransferLane,
               NEW g \in Generation, acquire(r, s, l, g)
        PROVE  WorkInv'
    BY <2>5, AcquireCounts
  <2>6. ASSUME NEW s \in Session, NEW g \in Generation, NEW id \in ReleaseId,
               release(s, g, id)
        PROVE  WorkInv'
    BY <2>6, WorkUntouched DEF release
  <2>7. ASSUME NEW t \in Task, TaskEnds(t)
        PROVE  WorkInv'
    BY <2>7, TaskEndsCounts
  <2>8. CASE UNCHANGED vars
    BY <2>8, WorkUntouched DEF vars
  <2>9. QED
    BY <2>1, <2>2, <2>3, <2>4, <2>5, <2>6, <2>7, <2>8 DEF Next, Control, Transfer
<1>3. QED
  BY <1>1, <1>2, TypeCorrect, PTL DEF Spec

(* The in-flight counter of a session and lane always counts the native     *)
(* tasks running for it: work stays charged until it ends, through          *)
(* cancellations, page loads and new sessions, and is uncharged once.       *)
THEOREM WorkIsCharged == Spec => []InFlightMatchesWork
  BY WorkInvariant, PTL DEF WorkInv

-----------------------------------------------------------------------------
(* What the transfer protocol needs of the broker besides.                  *)

(* The counts are the same over all sessions of a lane: the limit of a lane *)
(* bounds its running tasks.                                                *)
TasksOfLane(l) == {t \in work : t.lane = l}

WorkIsInFlight ==
  /\ IsFiniteSet(in_flight_credits_by_owner)
  /\ IsFiniteSet(work)
  /\ \A l \in TransferLane :
        Cardinality(InFlightOfLane(l)) = Cardinality(TasksOfLane(l))

(* A request adds a ticket and a task to its lane.                          *)
LEMMA AcquireCountsLane ==
  ASSUME WorkIsInFlight, NEW r \in Request, NEW s \in Session,
         NEW l \in TransferLane, NEW g \in Generation, acquire(r, s, l, g)
  PROVE  WorkIsInFlight'
<1> DEFINE c == [request |-> r, session |-> s, lane |-> l]
           t == [request |-> r, session |-> s, lane |-> l, generation |-> g]
<1>1. /\ in_flight_credits_by_owner' = in_flight_credits_by_owner \cup {c}
      /\ work' = work \cup {t}
      /\ c \notin in_flight_credits_by_owner /\ t \notin work
  BY DEF acquire
<1>2. c.lane = l /\ t.lane = l
  OBVIOUS
<1> HIDE DEF c, t
<1>3. IsFiniteSet(in_flight_credits_by_owner') /\ IsFiniteSet(work')
  BY <1>1, FS_AddElement DEF WorkIsInFlight
<1>4. ASSUME NEW k \in TransferLane
      PROVE  Cardinality(InFlightOfLane(k)') = Cardinality(TasksOfLane(k)')
  <2>1. /\ IsFiniteSet(InFlightOfLane(k)) /\ IsFiniteSet(TasksOfLane(k))
        /\ Cardinality(InFlightOfLane(k)) = Cardinality(TasksOfLane(k))
    BY FS_Subset DEF WorkIsInFlight, InFlightOfLane, TasksOfLane
  <2>2. CASE k = l
    <3>1. /\ InFlightOfLane(k)' = InFlightOfLane(k) \cup {c}
          /\ c \notin InFlightOfLane(k)
          /\ TasksOfLane(k)' = TasksOfLane(k) \cup {t}
          /\ t \notin TasksOfLane(k)
      BY <1>1, <1>2, <2>2 DEF InFlightOfLane, TasksOfLane
    <3>2. Cardinality(InFlightOfLane(k)') = Cardinality(InFlightOfLane(k)) + 1
      BY <2>1, <3>1, CardAdd
    <3>3. Cardinality(TasksOfLane(k)') = Cardinality(TasksOfLane(k)) + 1
      BY <2>1, <3>1, CardAdd
    <3>4. QED
      BY <2>1, <3>2, <3>3
  <2>3. CASE k # l
    BY <1>1, <1>2, <2>1, <2>3 DEF InFlightOfLane, TasksOfLane
  <2>4. QED
    BY <2>2, <2>3
<1>5. QED
  BY <1>3, <1>4 DEF WorkIsInFlight

(* The end of a task removes one ticket and one task of the same lane.      *)
LEMMA TaskEndsCountsLane ==
  ASSUME WorkIsInFlight, NEW t \in Task, TaskEnds(t)
  PROVE  WorkIsInFlight'
<1>1. t \in work /\ work' = work \ {t}
  BY DEF TaskEnds, finish_without_publish, complete_for_publish,
         complete_phase5_for_publish
<1>2. PICK c \in InFlightOfOwner(t.session, t.lane) :
         in_flight_credits_by_owner' = in_flight_credits_by_owner \ {c}
  BY DEF TaskEnds, finish_without_publish, complete_for_publish,
         complete_phase5_for_publish
<1>3. c \in in_flight_credits_by_owner /\ c.lane = t.lane
  BY DEF InFlightOfOwner, InFlightOfLane
<1>4. IsFiniteSet(in_flight_credits_by_owner') /\ IsFiniteSet(work')
  BY <1>1, <1>2, FS_RemoveElement DEF WorkIsInFlight
<1>5. ASSUME NEW k \in TransferLane
      PROVE  Cardinality(InFlightOfLane(k)') = Cardinality(TasksOfLane(k)')
  <2>1. /\ IsFiniteSet(InFlightOfLane(k)) /\ IsFiniteSet(TasksOfLane(k))
        /\ Cardinality(InFlightOfLane(k)) = Cardinality(TasksOfLane(k))
    BY FS_Subset DEF WorkIsInFlight, InFlightOfLane, TasksOfLane
  <2>2. CASE k = t.lane
    <3>1. /\ InFlightOfLane(k)' = InFlightOfLane(k) \ {c}
          /\ c \in InFlightOfLane(k)
          /\ TasksOfLane(k)' = TasksOfLane(k) \ {t}
          /\ t \in TasksOfLane(k)
      BY <1>1, <1>2, <1>3, <2>2 DEF InFlightOfLane, TasksOfLane
    <3>2. QED
      BY <2>1, <3>1, CardRemove
  <2>3. CASE k # t.lane
    BY <1>1, <1>2, <1>3, <2>1, <2>3 DEF InFlightOfLane, TasksOfLane
  <2>4. QED
    BY <2>2, <2>3
<1>6. QED
  BY <1>4, <1>5 DEF WorkIsInFlight

(* Each lane has as many credits in flight as tasks are running on it.      *)
THEOREM LaneWorkIsCharged == Spec => []WorkIsInFlight
<1>1. Init => WorkIsInFlight
  <2> SUFFICES ASSUME Init PROVE WorkIsInFlight
    OBVIOUS
  <2>1. \A l \in TransferLane : InFlightOfLane(l) = {} /\ TasksOfLane(l) = {}
    BY DEF Init, InFlightOfLane, TasksOfLane
  <2>2. QED
    BY <2>1, FS_EmptySet DEF Init, WorkIsInFlight
<1>2. WorkIsInFlight /\ [Next]_vars => WorkIsInFlight'
  <2> SUFFICES ASSUME WorkIsInFlight, [Next]_vars PROVE WorkIsInFlight'
    OBVIOUS
  <2>1. CASE UNCHANGED <<in_flight_credits_by_owner, work>>
    BY <2>1 DEF WorkIsInFlight, InFlightOfLane, TasksOfLane
  <2>2. ASSUME NEW r \in Request, NEW s \in Session, NEW l \in TransferLane,
               NEW g \in Generation, acquire(r, s, l, g)
        PROVE  WorkIsInFlight'
    BY <2>2, AcquireCountsLane
  <2>3. ASSUME NEW t \in Task, TaskEnds(t)
        PROVE  WorkIsInFlight'
    BY <2>3, TaskEndsCountsLane
  <2>4. QED
    BY <2>1, <2>2, <2>3 DEF Next, Control, Transfer, vars, open_session,
       document_started, begin, cancel, release
<1>3. QED
  BY <1>1, <1>2, PTL DEF Spec

(* No two tickets have the same name, so that a payload that is published   *)
(* adds to the held credits.                                                *)
TicketsAreUnique ==
  /\ \A c, d \in in_flight_credits_by_owner : c.request = d.request => c = d
  /\ \A c \in in_flight_credits_by_owner, h \in held_credits_by_owner :
        c.request # h.request

(* A ticket keeps its name when it changes from the one counter to the      *)
(* other, and a request with a ticket is refused another.                   *)
THEOREM TicketsHaveNames == Spec => []TicketsAreUnique
<1>1. Init => TicketsAreUnique
  BY DEF Init, TicketsAreUnique
<1>2. TicketsAreUnique /\ [Next]_vars => TicketsAreUnique'
  <2> SUFFICES ASSUME TicketsAreUnique, [Next]_vars PROVE TicketsAreUnique'
    OBVIOUS
  <2>1. CASE /\ in_flight_credits_by_owner' = in_flight_credits_by_owner
             /\ held_credits_by_owner' \subseteq held_credits_by_owner
    BY <2>1 DEF TicketsAreUnique
  <2>2. ASSUME NEW r \in Request, NEW s \in Session, NEW l \in TransferLane,
               NEW g \in Generation, acquire(r, s, l, g)
        PROVE  TicketsAreUnique'
    BY <2>2 DEF TicketsAreUnique, acquire
  <2>3. ASSUME NEW t \in Task, TaskEnds(t)
        PROVE  TicketsAreUnique'
    BY <2>3 DEF TicketsAreUnique, TaskEnds, finish_without_publish,
         complete_for_publish, complete_phase5_for_publish, InFlightOfOwner,
         InFlightOfLane
  <2>4. QED
    BY <2>1, <2>2, <2>3 DEF Next, Control, Transfer, vars, open_session,
       document_started, begin, cancel, release
<1>3. QED
  BY <1>1, <1>2, PTL DEF Spec

-----------------------------------------------------------------------------
(* Types of the client's fields and of what is in transit.                  *)
ProtocolTypeOK ==
  /\ client_session \in Session
  /\ client_max_generation \in Generation
  /\ client_lanes \in [TransferLane -> [generation: Generation, active: BOOLEAN]]
  /\ pending_release_acks \subseteq Ack
  /\ flushing \subseteq Flush
  /\ begin_calls \subseteq ControlCall
  /\ begin_replies \subseteq ControlCall
  /\ cancel_calls \subseteq ControlCall
  /\ request_calls \subseteq Task
  /\ responses \subseteq Task
  /\ leases \subseteq Task
  /\ release_calls \subseteq Ack
  /\ fresh \subseteq Request

(* Before anything is sent the types hold.                                  *)
LEMMA ProtocolTypeInit == ProtocolInit => TypeOK /\ ProtocolTypeOK
  BY BoundAssumption
  DEF ProtocolInit, Init, TypeOK, ProtocolTypeOK, NoLanes, Session, Generation, Epoch

(* A step of the protocol is a step of the broker, with arguments from the  *)
(* sets its callers have, or leaves the broker alone.                       *)
LEMMA BrokerStep ==
  ASSUME ProtocolTypeOK, TypeOK, [ProtocolNext]_allVars
  PROVE  [Next]_vars
<1> USE DEF ProtocolTypeOK, TypeOK
<1>1. CASE PageLoad \/ open
  BY <1>1 DEF PageLoad, open, Next, Control
<1>2. CASE UNCHANGED vars
  BY <1>2
<1>3. ASSUME NEW c \in begin_calls, BeginArrives(c)
      PROVE  [Next]_vars
  BY <1>3 DEF BeginArrives, Next, Control, ControlCall
<1>4. ASSUME NEW c \in cancel_calls, CancelArrives(c)
      PROVE  [Next]_vars
  BY <1>4 DEF CancelArrives, Next, Control, ControlCall
<1>5. ASSUME NEW t \in request_calls, RequestArrives(t)
      PROVE  [Next]_vars
  BY <1>5 DEF RequestArrives, Next, Transfer, Task, HeldTicket
<1>6. ASSUME NEW t \in work, TaskReturns(t)
      PROVE  [Next]_vars
  BY <1>6 DEF TaskReturns, TaskEnds, Next
<1>7. ASSUME NEW a \in release_calls, ReleaseArrives(a)
      PROVE  [Next]_vars
  BY <1>7 DEF ReleaseArrives, Next, Transfer, Ack
<1>8. CASE ClientNext
  BY <1>1, <1>2, <1>8
  DEF ClientNext, beginFlush, cancelInvoke, beginInvoke, flushFails, requestInvoke,
      requestFlush, beginReturns, acceptResponse, releaseAfterFailure, leaseRelease,
      releaseReturns
<1>9. QED
  BY <1>1, <1>2, <1>3, <1>4, <1>5, <1>6, <1>7, <1>8
  DEF ProtocolNext, BackendNext, allVars

(* Every step keeps the types of the client and of what is in transit.      *)
LEMMA ProtocolTypeStep ==
  ASSUME ProtocolTypeOK, TypeOK, TypeOK', [ProtocolNext]_allVars
  PROVE  ProtocolTypeOK'
<1> USE BoundAssumption, ReleaseIdAssumption, RequestAssumption
    DEF ProtocolTypeOK, TypeOK, Session, Generation, ControlCall
<1>1. CASE PageLoad
  BY <1>1 DEF PageLoad, NoLanes
<1>2. CASE open
  BY <1>2 DEF open, NoLanes, transitVars
<1>3. ASSUME NEW l \in TransferLane, NEW g \in Generation, beginFlush(l, g)
      PROVE  ProtocolTypeOK'
  BY <1>3 DEF beginFlush, Flush, transitVars
<1>4. ASSUME NEW l \in TransferLane, cancelInvoke(l)
      PROVE  ProtocolTypeOK'
  <2>1. client_lanes[l].generation \in Generation
    OBVIOUS
  <2>2. cancel_calls' \subseteq ControlCall
    BY <1>4, <2>1 DEF cancelInvoke
  <2>3. client_lanes' \in [TransferLane -> [generation: Generation, active: BOOLEAN]]
    BY <1>4 DEF cancelInvoke
  <2>4. QED
    BY <1>4, <2>2, <2>3 DEF cancelInvoke
<1>5. ASSUME NEW f \in flushing, beginInvoke(f) \/ flushFails(f) \/ requestInvoke(f)
      PROVE  ProtocolTypeOK'
  <2>1. CASE beginInvoke(f)
    BY <1>5, <2>1 DEF beginInvoke, Flush
  <2>2. CASE flushFails(f)
    BY <1>5, <2>2 DEF flushFails, transitVars
  <2>3. CASE requestInvoke(f)
    BY <1>5, <2>3 DEF requestInvoke, Flush, Task, HeldTicket
  <2>4. QED
    BY <1>5, <2>1, <2>2, <2>3
<1>6. ASSUME NEW r \in Request, NEW l \in TransferLane, requestFlush(r, l)
      PROVE  ProtocolTypeOK'
  BY <1>6 DEF requestFlush, Flush
<1>7. ASSUME NEW c \in begin_replies, beginReturns(c)
      PROVE  ProtocolTypeOK'
  BY <1>7 DEF beginReturns
<1>8. ASSUME NEW t \in responses, acceptResponse(t) \/ releaseAfterFailure(t)
      PROVE  ProtocolTypeOK'
  BY <1>8 DEF acceptResponse, releaseAfterFailure, acknowledgeRelease, AckOf, Ack,
              Task, HeldTicket
<1>9. ASSUME NEW t \in leases, leaseRelease(t)
      PROVE  ProtocolTypeOK'
  BY <1>9 DEF leaseRelease, acknowledgeRelease, AckOf, Ack, Task, HeldTicket
<1>10. ASSUME NEW a \in pending_release_acks, releaseReturns(a)
       PROVE  ProtocolTypeOK'
  BY <1>10 DEF releaseReturns, transitVars
<1>11. ASSUME NEW c \in begin_calls, BeginArrives(c)
       PROVE  ProtocolTypeOK'
  BY <1>11 DEF BeginArrives, clientVars
<1>12. ASSUME NEW c \in cancel_calls, CancelArrives(c)
       PROVE  ProtocolTypeOK'
  BY <1>12 DEF CancelArrives, clientVars
<1>13. ASSUME NEW t \in request_calls, RequestArrives(t)
       PROVE  ProtocolTypeOK'
  BY <1>13 DEF RequestArrives, clientVars
<1>14. ASSUME NEW t \in work, TaskReturns(t)
       PROVE  ProtocolTypeOK'
  BY <1>14 DEF TaskReturns, clientVars
<1>15. ASSUME NEW a \in release_calls, ReleaseArrives(a)
       PROVE  ProtocolTypeOK'
  BY <1>15 DEF ReleaseArrives, clientVars, transitVars
<1>16. CASE UNCHANGED allVars
  BY <1>16 DEF allVars, clientVars, transitVars
<1>17. QED
  BY <1>1, <1>2, <1>3, <1>4, <1>5, <1>6, <1>7, <1>8, <1>9, <1>10, <1>11, <1>12,
     <1>13, <1>14, <1>15, <1>16
  DEF ProtocolNext, ClientNext, BackendNext

(* Client and broker have their types in every reachable state.             *)
LEMMA ProtocolTypes == ProtocolSpec => [](TypeOK /\ ProtocolTypeOK)
<1>1. TypeOK /\ ProtocolTypeOK /\ [ProtocolNext]_allVars => (TypeOK /\ ProtocolTypeOK)'
  BY BrokerStep, TypeStep, ProtocolTypeStep
<1>2. QED
  BY ProtocolTypeInit, <1>1, PTL DEF ProtocolSpec

(* The client and the IPC use the broker as the broker's model lets any     *)
(* caller use it: its theorems hold of client and broker together.          *)
THEOREM ClientUsesBroker == ProtocolSpec => Spec
<1>1. TypeOK /\ ProtocolTypeOK /\ [ProtocolNext]_allVars => [Next]_vars
  BY BrokerStep
<1>2. ProtocolInit => Init
  BY DEF ProtocolInit
<1>3. QED
  BY <1>1, <1>2, ProtocolTypes, PTL DEF ProtocolSpec, Spec

-----------------------------------------------------------------------------
(* Agreement on the lanes.  A generation is begun at the client first, so   *)
(* its numbers lead the broker's; an answer to begin that may still be used *)
(* is of the generation the broker's lane has, and no cancel of it has been *)
(* sent; what is under way for earlier sessions cannot be taken for the     *)
(* present one.                                                             *)
DocumentHasSession ==
  /\ client_session = IF session_document_epoch = document_epoch THEN session ELSE 0
  /\ client_session = 0 =>
       /\ client_max_generation = 0
       /\ client_lanes = NoLanes
       /\ flushing = {}
       /\ begin_replies = {}

ClientLeads ==
  client_session # 0 =>
     /\ max_generation <= client_max_generation
     /\ \A l \in TransferLane :
          /\ lanes[l].generation <= client_lanes[l].generation
          /\ client_lanes[l].generation <= client_max_generation

CallsAreOfSession ==
  /\ \A c \in begin_calls \cup cancel_calls : c.session # 0 /\ c.session <= session
  /\ \A c \in begin_calls :
       c.session = client_session => c.generation <= client_lanes[c.lane].generation
  /\ \A c \in cancel_calls : c.session = client_session => c.generation <= max_generation

Cancelled(l) ==
  \E c \in cancel_calls : /\ c.session = client_session
                          /\ c.lane = l
                          /\ c.generation = client_lanes[l].generation

ReplyIsTrue(c) ==
  /\ c.session = client_session
  /\ c.generation <= max_generation
  /\ c.generation = client_lanes[c.lane].generation =>
       /\ lanes[c.lane] = [generation |-> c.generation, active |-> TRUE]
       /\ ~client_lanes[c.lane].active
       /\ ~Cancelled(c.lane)

RepliesAreTrue == \A c \in begin_replies : ReplyIsTrue(c)

ActiveIsNotCancelled == \A l \in TransferLane : client_lanes[l].active => ~Cancelled(l)

AgreeInv ==
  /\ DocumentHasSession /\ ClientLeads /\ CallsAreOfSession /\ RepliesAreTrue
  /\ ActiveIsNotCancelled /\ ActiveLaneIsAgreed

(* There is nothing to disagree on before a document has opened a session.  *)
LEMMA AgreeInit == ProtocolInit => AgreeInv
  BY BoundAssumption
  DEF ProtocolInit, Init, AgreeInv, DocumentHasSession, ClientLeads, CallsAreOfSession,
      RepliesAreTrue, ReplyIsTrue, ActiveIsNotCancelled, ActiveLaneIsAgreed, NoLanes

(* A step that moves none of the fields the agreement is about.             *)
LEMMA AgreeUntouched ==
  ASSUME AgreeInv,
         UNCHANGED <<document_epoch, session, session_document_epoch, max_generation,
                     lanes, client_session, client_max_generation, client_lanes,
                     begin_calls, begin_replies, cancel_calls>>,
         client_session = 0 => flushing' = {}
  PROVE  AgreeInv'
  BY DEF AgreeInv, DocumentHasSession, ClientLeads, CallsAreOfSession, RepliesAreTrue,
         ReplyIsTrue, ActiveIsNotCancelled, ActiveLaneIsAgreed, Cancelled

(* A new document knows no lane, and a new session has a number that no     *)
(* call under way carries.                                                  *)
LEMMA AgreeNewDocument ==
  ASSUME TypeOK, ProtocolTypeOK, AgreeInv, LaneInv, PageLoad \/ open
  PROVE  AgreeInv'
<1> USE BoundAssumption
    DEF TypeOK, ProtocolTypeOK, Session, Generation, Epoch, ControlCall, AgreeInv,
        DocumentHasSession, ClientLeads, CallsAreOfSession, RepliesAreTrue,
        ReplyIsTrue, ActiveIsNotCancelled, ActiveLaneIsAgreed, Cancelled, NoLanes
<1>1. CASE PageLoad
  BY <1>1 DEF PageLoad, document_started
<1>2. CASE open
  BY <1>2 DEF open, open_session, EpochAtOpen, transitVars
<1>3. QED
  BY <1>1, <1>2

(* Two lanes of equal generation and activity are the same, and activating  *)
(* one changes nothing else.                                                *)
LEMMA LaneEquality ==
  ASSUME NEW S,
         NEW r \in [generation: S, active: BOOLEAN],
         NEW q \in [generation: S, active: BOOLEAN],
         r.generation = q.generation, r.active = q.active
  PROVE  r = q
  OBVIOUS

LEMMA Activated ==
  ASSUME NEW S, NEW r \in [generation: S, active: BOOLEAN]
  PROVE  [r EXCEPT !.active = TRUE] = [generation |-> r.generation, active |-> TRUE]
<1>1. /\ [r EXCEPT !.active = TRUE].generation = r.generation
      /\ [r EXCEPT !.active = TRUE].active = TRUE
      /\ [r EXCEPT !.active = TRUE] \in [generation: S, active: BOOLEAN]
  OBVIOUS
<1>2. /\ [generation |-> r.generation, active |-> TRUE].generation = r.generation
      /\ [generation |-> r.generation, active |-> TRUE].active = TRUE
      /\ [generation |-> r.generation, active |-> TRUE]
            \in [generation: S, active: BOOLEAN]
  OBVIOUS
<1>3. QED
  BY <1>1, <1>2, LaneEquality

(* The client begins or cancels a generation, or is told that one began.    *)
LEMMA AgreeClient ==
  ASSUME TypeOK, ProtocolTypeOK, AgreeInv, LaneInv,
         \/ \E f \in flushing : beginInvoke(f)
         \/ \E l \in TransferLane : cancelInvoke(l)
         \/ \E c \in begin_replies : beginReturns(c)
  PROVE  AgreeInv'
<1> USE BoundAssumption DEF TypeOK, ProtocolTypeOK, Session, Generation, Epoch, ControlCall
<1>0. \A l \in TransferLane : lanes[l].generation <= max_generation
  BY DEF LaneInv, GenerationHasOneLane
<1>1. ASSUME NEW f \in flushing, beginInvoke(f)
      PROVE  AgreeInv'
  <2>1. /\ f.lane \in TransferLane /\ f.generation \in Generation
        /\ client_session # 0
    BY DEF Flush, AgreeInv, DocumentHasSession
  <2>2. /\ client_max_generation < f.generation
        /\ client_max_generation' = f.generation
        /\ begin_calls' = begin_calls \cup {[session |-> client_session, lane |-> f.lane,
                                            generation |-> f.generation]}
        /\ UNCHANGED <<document_epoch, session, session_document_epoch, max_generation,
                       lanes, client_session, begin_replies, cancel_calls>>
    BY <1>1 DEF beginInvoke, vars
  <2>3. /\ client_lanes'[f.lane] = [generation |-> f.generation, active |-> FALSE]
        /\ \A l \in TransferLane \ {f.lane} : client_lanes'[l] = client_lanes[l]
    BY <1>1, <2>1 DEF beginInvoke
  <2>4. DocumentHasSession' /\ ClientLeads'
    BY <2>1, <2>2, <2>3 DEF AgreeInv, DocumentHasSession, ClientLeads
  <2>5. CallsAreOfSession'
    BY <2>1, <2>2, <2>3 DEF AgreeInv, DocumentHasSession, ClientLeads, CallsAreOfSession
  <2>6. ASSUME NEW c \in begin_replies
        PROVE  ReplyIsTrue(c)'
    <3>1. ReplyIsTrue(c) /\ c.lane \in TransferLane /\ c.generation \in Generation
      BY DEF AgreeInv, RepliesAreTrue
    <3>2. CASE c.lane = f.lane
      BY <2>1, <2>2, <2>3, <3>1, <3>2 DEF AgreeInv, ClientLeads, ReplyIsTrue
    <3>3. CASE c.lane # f.lane
      BY <2>2, <2>3, <3>1, <3>3 DEF ReplyIsTrue, Cancelled
    <3>4. QED
      BY <3>2, <3>3
  <2>7. ActiveIsNotCancelled' /\ ActiveLaneIsAgreed'
    BY <2>1, <2>2, <2>3
    DEF AgreeInv, ActiveIsNotCancelled, ActiveLaneIsAgreed, Cancelled
  <2>8. QED
    BY <2>2, <2>4, <2>5, <2>6, <2>7 DEF AgreeInv, RepliesAreTrue
<1>2. ASSUME NEW l \in TransferLane, cancelInvoke(l)
      PROVE  AgreeInv'
  <2>1. /\ client_lanes[l].active
        /\ cancel_calls' = cancel_calls \cup {[session |-> client_session, lane |-> l,
                                              generation |-> client_lanes[l].generation]}
        /\ UNCHANGED <<document_epoch, session, session_document_epoch, max_generation,
                       lanes, client_session, client_max_generation, begin_replies,
                       begin_calls, flushing>>
    BY <1>2 DEF cancelInvoke, vars
  <2>2. /\ client_session # 0
        /\ client_lanes[l].generation <= max_generation
    BY <1>0, <2>1 DEF AgreeInv, DocumentHasSession, ActiveLaneIsAgreed, NoLanes
  <2>3. /\ client_lanes'[l] = [client_lanes[l] EXCEPT !.active = FALSE]
        /\ \A k \in TransferLane \ {l} : client_lanes'[k] = client_lanes[k]
    BY <1>2 DEF cancelInvoke
  <2>4. DocumentHasSession' /\ ClientLeads' /\ CallsAreOfSession'
    BY <2>1, <2>2, <2>3 DEF AgreeInv, DocumentHasSession, ClientLeads, CallsAreOfSession
  <2>5. ASSUME NEW c \in begin_replies
        PROVE  ReplyIsTrue(c)'
    <3>1. ReplyIsTrue(c) /\ c.lane \in TransferLane
      BY DEF AgreeInv, RepliesAreTrue
    <3>2. CASE c.lane = l
      BY <2>1, <2>3, <3>1, <3>2 DEF ReplyIsTrue
    <3>3. CASE c.lane # l
      BY <2>1, <2>3, <3>1, <3>3 DEF ReplyIsTrue, Cancelled
    <3>4. QED
      BY <3>2, <3>3
  <2>6. ActiveIsNotCancelled' /\ ActiveLaneIsAgreed'
    BY <2>1, <2>2, <2>3
    DEF AgreeInv, ActiveIsNotCancelled, ActiveLaneIsAgreed, Cancelled
  <2>7. QED
    BY <2>1, <2>4, <2>5, <2>6 DEF AgreeInv, RepliesAreTrue
<1>3. ASSUME NEW c \in begin_replies, beginReturns(c)
      PROVE  AgreeInv'
  <2>1. /\ c.lane \in TransferLane /\ c.generation \in Generation
        /\ begin_replies' = begin_replies \ {c}
        /\ UNCHANGED <<document_epoch, session, session_document_epoch, max_generation,
                       lanes, client_session, client_max_generation, begin_calls,
                       cancel_calls, flushing>>
    BY <1>3 DEF beginReturns, vars
  <2>2. CASE client_lanes[c.lane].generation = c.generation
    <3>0. ReplyIsTrue(c)
      BY DEF AgreeInv, RepliesAreTrue
    <3>1. /\ client_lanes'[c.lane] = [generation |-> c.generation, active |-> TRUE]
          /\ \A k \in TransferLane \ {c.lane} : client_lanes'[k] = client_lanes[k]
      <4>1. client_lanes' = [client_lanes EXCEPT ![c.lane].active = TRUE]
        BY <1>3, <2>1, <2>2, <3>0 DEF beginReturns, ReplyIsTrue
      <4>2. client_lanes[c.lane] \in [generation: Generation, active: BOOLEAN]
        BY <2>1
      <4>3. /\ client_lanes'[c.lane] = [client_lanes[c.lane] EXCEPT !.active = TRUE]
            /\ \A k \in TransferLane \ {c.lane} : client_lanes'[k] = client_lanes[k]
        BY <2>1, <4>1
      <4>4. [client_lanes[c.lane] EXCEPT !.active = TRUE]
              = [generation |-> c.generation, active |-> TRUE]
        BY <2>2, <4>2, Activated
      <4>5. QED
        BY <4>3, <4>4
    <3>2. client_session # 0
      BY DEF AgreeInv, DocumentHasSession
    <3>3. DocumentHasSession' /\ ClientLeads' /\ CallsAreOfSession'
      <4>1. \A k \in TransferLane :
               client_lanes'[k].generation = client_lanes[k].generation
        BY <2>2, <3>1
      <4>2. DocumentHasSession'
        BY <2>1, <3>2 DEF AgreeInv, DocumentHasSession
      <4>3. ClientLeads'
        BY <2>1, <4>1 DEF AgreeInv, ClientLeads
      <4>4. CallsAreOfSession'
        BY <2>1, <4>1 DEF AgreeInv, CallsAreOfSession
      <4>5. QED
        BY <4>2, <4>3, <4>4
    <3>4. ASSUME NEW d \in begin_replies'
          PROVE  ReplyIsTrue(d)'
      <4>1. /\ ReplyIsTrue(d) /\ ReplyIsTrue(c) /\ d \in ControlCall /\ c \in ControlCall
            /\ d # c
        BY <2>1 DEF AgreeInv, RepliesAreTrue
      <4>2. ~(d.lane = c.lane /\ d.generation = c.generation)
        BY <4>1 DEF ReplyIsTrue
      <4>3. QED
        BY <2>1, <2>2, <3>1, <4>1, <4>2 DEF ReplyIsTrue, Cancelled
    <3>5. ActiveIsNotCancelled' /\ ActiveLaneIsAgreed'
      <4>2. session_document_epoch = document_epoch /\ client_session = session
        BY <3>2 DEF AgreeInv, DocumentHasSession
      <4>3. lanes[c.lane] = client_lanes'[c.lane] /\ ~Cancelled(c.lane)
        BY <2>2, <3>0, <3>1 DEF ReplyIsTrue
      <4>4. ActiveIsNotCancelled'
        BY <2>1, <2>2, <3>1, <4>3 DEF AgreeInv, ActiveIsNotCancelled, Cancelled
      <4>5. ActiveLaneIsAgreed'
        BY <2>1, <3>1, <4>2, <4>3 DEF AgreeInv, ActiveLaneIsAgreed
      <4>6. QED
        BY <4>4, <4>5
    <3>6. QED
      BY <3>3, <3>4, <3>5 DEF AgreeInv, RepliesAreTrue
  <2>3. CASE client_lanes[c.lane].generation # c.generation
    <3>1. client_lanes' = client_lanes
      BY <1>3, <2>3 DEF beginReturns
    <3>2. QED
      BY <2>1, <3>1
      DEF AgreeInv, DocumentHasSession, ClientLeads, CallsAreOfSession, RepliesAreTrue,
          ReplyIsTrue, ActiveIsNotCancelled, ActiveLaneIsAgreed, Cancelled
  <2>4. QED
    BY <2>2, <2>3
<1>4. QED
  BY <1>1, <1>2, <1>3

(* A begin that the broker accepts is newer than any it has answered, and   *)
(* a cancel of the lane's generation is one the client has sent.            *)
LEMMA AgreeBroker ==
  ASSUME TypeOK, ProtocolTypeOK, AgreeInv, LaneInv,
         \/ \E c \in begin_calls : BeginArrives(c)
         \/ \E c \in cancel_calls : CancelArrives(c)
  PROVE  AgreeInv'
<1> USE BoundAssumption DEF TypeOK, ProtocolTypeOK, Session, Generation, Epoch, ControlCall
<1>0. \A l \in TransferLane : lanes[l].generation <= max_generation
  BY DEF LaneInv, GenerationHasOneLane
<1>1. ASSUME NEW c \in begin_calls, BeginArrives(c)
      PROVE  AgreeInv'
  <2>1. CASE UNCHANGED <<vars, begin_replies>>
    BY <1>1, <2>1
    DEF BeginArrives, clientVars, vars, AgreeInv, DocumentHasSession, ClientLeads,
        CallsAreOfSession, RepliesAreTrue, ReplyIsTrue, ActiveIsNotCancelled,
        ActiveLaneIsAgreed, Cancelled
  <2>2. CASE begin(c.session, c.lane, c.generation)
    <3>1. /\ c.lane \in TransferLane /\ c.generation \in Generation
          /\ c.generation > max_generation
          /\ c.session = client_session /\ client_session # 0
          /\ c.generation <= client_lanes[c.lane].generation
      BY <2>2 DEF begin, BeginAccepted, ensure_session, AgreeInv, DocumentHasSession,
                  CallsAreOfSession
    <3>2. /\ max_generation' = c.generation
          /\ begin_calls' \subseteq begin_calls
          /\ UNCHANGED <<document_epoch, session, session_document_epoch,
                         client_session, client_max_generation, client_lanes,
                         cancel_calls, flushing>>
      BY <1>1, <2>2 DEF begin, BeginArrives, clientVars
    <3>3. begin_replies' \subseteq begin_replies \cup {c}
      BY <1>1 DEF BeginArrives
    <3>4. /\ lanes'[c.lane] = [generation |-> c.generation, active |-> TRUE]
          /\ \A l \in TransferLane \ {c.lane} : lanes'[l] = lanes[l]
      BY <2>2, <3>1 DEF begin
    <3>5. DocumentHasSession' /\ ClientLeads' /\ CallsAreOfSession'
      BY <3>1, <3>2, <3>3, <3>4
      DEF AgreeInv, DocumentHasSession, ClientLeads, CallsAreOfSession
    <3>6. c.generation = client_lanes[c.lane].generation => ~Cancelled(c.lane)
      BY <3>1 DEF AgreeInv, CallsAreOfSession, Cancelled
    <3>7. ~client_lanes[c.lane].active
      BY <1>0, <3>1 DEF AgreeInv, ActiveLaneIsAgreed
    <3>8. ASSUME NEW d \in begin_replies'
          PROVE  ReplyIsTrue(d)'
      <4>1. CASE d = c
        BY <3>1, <3>2, <3>4, <3>6, <3>7, <4>1 DEF ReplyIsTrue, Cancelled
      <4>2. CASE d # c
        <5>1. ReplyIsTrue(d) /\ d \in ControlCall
          BY <3>3, <4>2 DEF AgreeInv, RepliesAreTrue
        <5>2. /\ d.generation <= max_generation
              /\ d.lane = c.lane => d.generation # client_lanes[d.lane].generation
          BY <3>1, <5>1 DEF ReplyIsTrue
        <5>3. d.generation <= c.generation
          BY <3>1, <5>1, <5>2
        <5>4. CASE d.lane = c.lane
          BY <3>2, <5>1, <5>2, <5>3, <5>4 DEF ReplyIsTrue
        <5>5. CASE d.lane # c.lane
          BY <3>1, <3>2, <3>4, <5>1, <5>3, <5>5 DEF ReplyIsTrue, Cancelled
        <5>6. QED
          BY <5>4, <5>5
      <4>3. QED
        BY <4>1, <4>2
    <3>9. ActiveIsNotCancelled' /\ ActiveLaneIsAgreed'
      BY <3>1, <3>2, <3>4, <3>7
      DEF AgreeInv, ActiveIsNotCancelled, ActiveLaneIsAgreed, Cancelled
    <3>10. QED
      BY <3>5, <3>8, <3>9 DEF AgreeInv, RepliesAreTrue
  <2>3. QED
    BY <1>1, <2>1, <2>2 DEF BeginArrives
<1>2. ASSUME NEW c \in cancel_calls, CancelArrives(c)
      PROVE  AgreeInv'
  <2>1. CASE UNCHANGED vars
    BY <1>2, <2>1
    DEF CancelArrives, clientVars, vars, AgreeInv, DocumentHasSession, ClientLeads,
        CallsAreOfSession, RepliesAreTrue, ReplyIsTrue, ActiveIsNotCancelled,
        ActiveLaneIsAgreed, Cancelled
  <2>2. CASE cancel(c.session, c.lane, c.generation)
    <3>1. /\ c.lane \in TransferLane /\ c.generation = lanes[c.lane].generation
          /\ c.session = client_session /\ client_session # 0
      BY <2>2 DEF cancel, ensure_current, ensure_session, AgreeInv, DocumentHasSession
    <3>2. /\ cancel_calls' = cancel_calls \ {c}
          /\ UNCHANGED <<document_epoch, session, session_document_epoch, max_generation,
                         client_session, client_max_generation, client_lanes,
                         begin_calls, begin_replies, flushing>>
      BY <1>2, <2>2 DEF cancel, CancelArrives, clientVars
    <3>3. /\ lanes'[c.lane] = [lanes[c.lane] EXCEPT !.active = FALSE]
          /\ \A l \in TransferLane \ {c.lane} : lanes'[l] = lanes[l]
      BY <2>2 DEF cancel
    <3>4. DocumentHasSession' /\ ClientLeads' /\ CallsAreOfSession'
      BY <3>1, <3>2, <3>3 DEF AgreeInv, DocumentHasSession, ClientLeads, CallsAreOfSession
    <3>5. c.generation = client_lanes[c.lane].generation => Cancelled(c.lane)
      BY <3>1 DEF Cancelled
    <3>6. ASSUME NEW d \in begin_replies
          PROVE  ReplyIsTrue(d)'
      <4>1. ReplyIsTrue(d) /\ d \in ControlCall
        BY DEF AgreeInv, RepliesAreTrue
      <4>2. CASE d.lane = c.lane
        BY <3>1, <3>2, <3>3, <3>5, <4>1, <4>2 DEF ReplyIsTrue, Cancelled
      <4>3. CASE d.lane # c.lane
        BY <3>1, <3>2, <3>3, <4>1, <4>3 DEF ReplyIsTrue, Cancelled
      <4>4. QED
        BY <4>2, <4>3
    <3>7. ~client_lanes[c.lane].active
      BY <3>1, <3>5 DEF AgreeInv, ActiveIsNotCancelled, ActiveLaneIsAgreed
    <3>8. ActiveIsNotCancelled' /\ ActiveLaneIsAgreed'
      BY <3>1, <3>2, <3>3, <3>7
      DEF AgreeInv, ActiveIsNotCancelled, ActiveLaneIsAgreed, Cancelled
    <3>9. QED
      BY <3>2, <3>4, <3>6, <3>8 DEF AgreeInv, RepliesAreTrue
  <2>3. QED
    BY <1>2, <2>1, <2>2 DEF CancelArrives
<1>3. QED
  BY <1>1, <1>2

(* Every step keeps the agreement.                                          *)
LEMMA AgreeStep ==
  ASSUME TypeOK, ProtocolTypeOK, AgreeInv, LaneInv, [ProtocolNext]_allVars
  PROVE  AgreeInv'
<1>1. \/ PageLoad \/ open
      \/ \E f \in flushing : beginInvoke(f)
      \/ \E l \in TransferLane : cancelInvoke(l)
      \/ \E c \in begin_replies : beginReturns(c)
      \/ \E c \in begin_calls : BeginArrives(c)
      \/ \E c \in cancel_calls : CancelArrives(c)
      \/ /\ UNCHANGED <<document_epoch, session, session_document_epoch,
                        max_generation, lanes, client_session,
                        client_max_generation, client_lanes, begin_calls,
                        begin_replies, cancel_calls>>
         /\ client_session = 0 /\ flushing = {} => flushing' = {}
  <2>1. CASE \E l \in TransferLane, g \in Generation : beginFlush(l, g)
    BY <2>1 DEF beginFlush, assertSessionOpen, vars, transitVars
  <2>2. CASE \E r \in Request, l \in TransferLane : requestFlush(r, l)
    BY <2>2 DEF requestFlush, assertSessionOpen, vars
  <2>3. CASE \E f \in flushing : flushFails(f) \/ requestInvoke(f)
    BY <2>3 DEF flushFails, requestInvoke, vars, transitVars
  <2>4. CASE \E t \in responses : acceptResponse(t) \/ releaseAfterFailure(t)
    BY <2>4 DEF acceptResponse, releaseAfterFailure, vars
  <2>5. CASE (\E t \in leases : leaseRelease(t))
               \/ \E a \in pending_release_acks : releaseReturns(a)
    BY <2>5 DEF leaseRelease, releaseReturns, vars, transitVars
  <2>6. CASE \E t \in request_calls : RequestArrives(t)
    BY <2>6 DEF RequestArrives, acquire, vars, clientVars
  <2>7. CASE \E t \in work : TaskReturns(t)
    BY <2>7 DEF TaskReturns, complete_for_publish, complete_phase5_for_publish,
                finish_without_publish, clientVars
  <2>8. CASE \E a \in release_calls : ReleaseArrives(a)
    BY <2>8 DEF ReleaseArrives, release, clientVars, transitVars
  <2>9. CASE UNCHANGED allVars
    BY <2>9 DEF allVars, vars, clientVars, transitVars
  <2>10. QED
    BY <2>1, <2>2, <2>3, <2>4, <2>5, <2>6, <2>7, <2>8, <2>9
    DEF ProtocolNext, ClientNext, BackendNext
<1>2. client_session = 0 => flushing = {}
  BY DEF AgreeInv, DocumentHasSession
<1>3. QED
  BY <1>1, <1>2, AgreeUntouched, AgreeNewDocument, AgreeClient, AgreeBroker

(* A lane the client takes for active is active at the broker, with the     *)
(* same generation (begin_generation and cancel_generation of both sides),  *)
(* so a request made now is refused only for lack of credits.               *)
THEOREM LanesAgree == ProtocolSpec => []ActiveLaneIsAgreed
<1>1. TypeOK /\ ProtocolTypeOK /\ AgreeInv /\ LaneInv /\ [ProtocolNext]_allVars => AgreeInv'
  BY AgreeStep
<1>2. AgreeInv => ActiveLaneIsAgreed
  BY DEF AgreeInv
<1>3. QED
  BY <1>1, <1>2, AgreeInit, ProtocolTypes, LaneInvariant, ClientUsesBroker,
     PTL DEF ProtocolSpec

-----------------------------------------------------------------------------
(* The ledger.  The broker knows how many credits of a generation are held, *)
(* the client which buffers it still owes; the two lists have no names in   *)
(* common, and agree in number, generation by generation and lane by lane.  *)
(* That is what makes the credit the broker gives back, which is any of the *)
(* acknowledged generation, the credit of the buffer that was released.     *)

Payloads == responses \cup leases
Travelling == request_calls \cup work \cup Payloads
Waiting == {f \in flushing : f.request # "begin"}

(* A request is at one place: not made, waiting for acknowledgements, on    *)
(* its way to the broker, running, on its way back, in use, or released.    *)
RequestsAreUnique ==
  /\ \A x, y \in Waiting : x.request = y.request => x = y
  /\ \A x, y \in Travelling : x.request = y.request => x = y
  /\ \A a, b \in release_calls : a.release_id = b.release_id => a = b
  /\ request_calls \cap (work \cup Payloads) = {}
  /\ work \cap Payloads = {}
  /\ responses \cap leases = {}
  /\ \A x \in Waiting \cup Travelling : x.request \notin fresh
  /\ \A x \in Travelling, f \in Waiting : f.request # x.request
  /\ \A a \in release_calls :
       /\ a.release_id \notin fresh
       /\ \A x \in Waiting \cup Travelling : a.release_id # x.request

(* What the document has, and what it has sent to be released, is of its    *)
(* own session.                                                             *)
ReleasesAreOfSession ==
  /\ pending_release_acks \subseteq release_calls
  /\ \A id \in acknowledged_release_ids : \E a \in release_calls : a.release_id = id
  /\ \A p \in Payloads : p.session = session
  /\ \A a \in release_calls :
       /\ a.session # 0
       /\ a.session <= session
       /\ a.session = client_session =>
            a \in pending_release_acks \/ a.release_id \in acknowledged_release_ids
  /\ client_session = 0 => Payloads = {} /\ pending_release_acks = {}

(* The lane on which credits H of a generation are held.                    *)
LaneHolding(H, g) ==
  CHOOSE l \in TransferLane : \E c \in H : c.generation = g /\ c.lane = l

(* What the document owes the broker: <<name, lane, generation>>.           *)
Owed ==
  {<<t.request, t.lane, t.generation>> : t \in Payloads}
    \cup {<<a.release_id, LaneHolding(held_credits_by_owner, a.generation),
            a.generation>> : a \in Unacknowledged}

Balance(O, H) ==
  /\ IsFiniteSet(O)
  /\ IsFiniteSet(H)
  /\ \A g \in Generation :
        Cardinality({o \in O : o[3] = g}) = Cardinality({h \in H : h.generation = g})
  /\ \A l \in TransferLane :
        Cardinality({o \in O : o[2] = l}) = Cardinality({h \in H : h.lane = l})

OwedIsHeld ==
  /\ Balance(Owed, held_credits_by_owner)
  /\ \A o \in Owed, h \in held_credits_by_owner : o[3] = h.generation => o[2] = h.lane

LedgerInv == RequestsAreUnique /\ ReleasesAreOfSession /\ OwedIsHeld

(* The document's session has one lane for each of its generations.         *)
HeldLanes ==
  \A c, d \in held_credits_by_owner :
     /\ c.lane \in TransferLane /\ c.generation \in Generation
     /\ c.generation = d.generation => c.lane = d.lane

(* What is known of every state already.                                    *)
Known ==
  /\ TypeOK /\ ProtocolTypeOK /\ LaneInv /\ AgreeInv
  /\ CreditInv /\ WorkIsInFlight /\ TicketsAreUnique /\ HeldLanes

(* All of it, together.                                                     *)
LEMMA KnownHolds == ProtocolSpec => []Known
<1>1. TypeOK /\ ProtocolTypeOK /\ AgreeInv /\ LaneInv /\ [ProtocolNext]_allVars => AgreeInv'
  BY AgreeStep
<1>2. LaneInv => HeldLanes
  BY DEF LaneInv, HeldLanes, HeldCreditsAreReachable, ReleaseFindsItsLane, TypeOK,
         HeldTicket
<1>3. QED
  BY <1>1, <1>2, AgreeInit, ProtocolTypes, ClientUsesBroker, LaneInvariant, CreditInvariant,
     LaneWorkIsCharged, TicketsHaveNames, PTL DEF ProtocolSpec, Known

-----------------------------------------------------------------------------
(* Counting on both sides.                                                  *)

(* Another thing owed, and another credit held, of one generation and lane. *)
LEMMA BalanceGain ==
  ASSUME NEW O, NEW H, Balance(O, H), NEW o, NEW h, o \notin O, h \notin H,
         o[3] = h.generation, o[2] = h.lane
  PROVE  Balance(O \cup {o}, H \cup {h})
<1>1. IsFiniteSet(O \cup {o}) /\ IsFiniteSet(H \cup {h})
  BY FS_AddElement DEF Balance
<1>2. ASSUME NEW g \in Generation
      PROVE  Cardinality({x \in O \cup {o} : x[3] = g})
               = Cardinality({y \in H \cup {h} : y.generation = g})
  <2> DEFINE S == {x \in O : x[3] = g}
             T == {y \in H : y.generation = g}
  <2>1. IsFiniteSet(S) /\ IsFiniteSet(T) /\ Cardinality(S) = Cardinality(T)
    BY FS_Subset DEF Balance
  <2>2. CASE o[3] = g
    <3>1. /\ {x \in O \cup {o} : x[3] = g} = S \cup {o} /\ o \notin S
          /\ {y \in H \cup {h} : y.generation = g} = T \cup {h} /\ h \notin T
      BY <2>2
    <3>2. Cardinality(S \cup {o}) = Cardinality(S) + 1
      BY <2>1, <3>1, CardAdd
    <3>3. Cardinality(T \cup {h}) = Cardinality(T) + 1
      BY <2>1, <3>1, CardAdd
    <3>4. QED
      BY <2>1, <3>1, <3>2, <3>3
  <2>3. CASE o[3] # g
    <3>1. /\ {x \in O \cup {o} : x[3] = g} = S
          /\ {y \in H \cup {h} : y.generation = g} = T
      BY <2>3
    <3>2. QED
      BY <2>1, <3>1
  <2>4. QED
    BY <2>2, <2>3
<1>3. ASSUME NEW l \in TransferLane
      PROVE  Cardinality({x \in O \cup {o} : x[2] = l})
               = Cardinality({y \in H \cup {h} : y.lane = l})
  <2> DEFINE S == {x \in O : x[2] = l}
             T == {y \in H : y.lane = l}
  <2>1. IsFiniteSet(S) /\ IsFiniteSet(T) /\ Cardinality(S) = Cardinality(T)
    BY FS_Subset DEF Balance
  <2>2. CASE o[2] = l
    <3>1. /\ {x \in O \cup {o} : x[2] = l} = S \cup {o} /\ o \notin S
          /\ {y \in H \cup {h} : y.lane = l} = T \cup {h} /\ h \notin T
      BY <2>2
    <3>2. Cardinality(S \cup {o}) = Cardinality(S) + 1
      BY <2>1, <3>1, CardAdd
    <3>3. Cardinality(T \cup {h}) = Cardinality(T) + 1
      BY <2>1, <3>1, CardAdd
    <3>4. QED
      BY <2>1, <3>1, <3>2, <3>3
  <2>3. CASE o[2] # l
    <3>1. /\ {x \in O \cup {o} : x[2] = l} = S
          /\ {y \in H \cup {h} : y.lane = l} = T
      BY <2>3
    <3>2. QED
      BY <2>1, <3>1
  <2>4. QED
    BY <2>2, <2>3
<1>4. QED
  BY <1>1, <1>2, <1>3 DEF Balance

(* One thing owed less, and one credit of its generation and lane.          *)
LEMMA BalanceLoss ==
  ASSUME NEW O, NEW H, Balance(O, H), NEW o \in O, NEW h \in H,
         o[3] = h.generation, o[2] = h.lane
  PROVE  Balance(O \ {o}, H \ {h})
<1>1. IsFiniteSet(O \ {o}) /\ IsFiniteSet(H \ {h})
  BY FS_RemoveElement DEF Balance
<1>2. ASSUME NEW g \in Generation
      PROVE  Cardinality({x \in O \ {o} : x[3] = g})
               = Cardinality({y \in H \ {h} : y.generation = g})
  <2> DEFINE S == {x \in O : x[3] = g}
             T == {y \in H : y.generation = g}
  <2>1. IsFiniteSet(S) /\ IsFiniteSet(T) /\ Cardinality(S) = Cardinality(T)
    BY FS_Subset DEF Balance
  <2>2. CASE o[3] = g
    <3>1. /\ {x \in O \ {o} : x[3] = g} = S \ {o} /\ o \in S
          /\ {y \in H \ {h} : y.generation = g} = T \ {h} /\ h \in T
      BY <2>2
    <3>2. Cardinality(S \ {o}) = Cardinality(S) - 1
      BY <2>1, <3>1, CardRemove
    <3>3. Cardinality(T \ {h}) = Cardinality(T) - 1
      BY <2>1, <3>1, CardRemove
    <3>4. QED
      BY <2>1, <3>1, <3>2, <3>3
  <2>3. CASE o[3] # g
    <3>1. /\ {x \in O \ {o} : x[3] = g} = S
          /\ {y \in H \ {h} : y.generation = g} = T
      BY <2>3
    <3>2. QED
      BY <2>1, <3>1
  <2>4. QED
    BY <2>2, <2>3
<1>3. ASSUME NEW l \in TransferLane
      PROVE  Cardinality({x \in O \ {o} : x[2] = l})
               = Cardinality({y \in H \ {h} : y.lane = l})
  <2> DEFINE S == {x \in O : x[2] = l}
             T == {y \in H : y.lane = l}
  <2>1. IsFiniteSet(S) /\ IsFiniteSet(T) /\ Cardinality(S) = Cardinality(T)
    BY FS_Subset DEF Balance
  <2>2. CASE o[2] = l
    <3>1. /\ {x \in O \ {o} : x[2] = l} = S \ {o} /\ o \in S
          /\ {y \in H \ {h} : y.lane = l} = T \ {h} /\ h \in T
      BY <2>2
    <3>2. Cardinality(S \ {o}) = Cardinality(S) - 1
      BY <2>1, <3>1, CardRemove
    <3>3. Cardinality(T \ {h}) = Cardinality(T) - 1
      BY <2>1, <3>1, CardRemove
    <3>4. QED
      BY <2>1, <3>1, <3>2, <3>3
  <2>3. CASE o[2] # l
    <3>1. /\ {x \in O \ {o} : x[2] = l} = S
          /\ {y \in H \ {h} : y.lane = l} = T
      BY <2>3
    <3>2. QED
      BY <2>1, <3>1
  <2>4. QED
    BY <2>2, <2>3
<1>4. QED
  BY <1>1, <1>2, <1>3 DEF Balance

(* Whatever is owed, a credit of its generation is held.                    *)
LEMMA BalanceHeld ==
  ASSUME NEW O, NEW H, Balance(O, H), NEW o \in O, o[3] \in Generation
  PROVE  \E h \in H : h.generation = o[3]
<1> DEFINE S == {x \in O : x[3] = o[3]}
           T == {y \in H : y.generation = o[3]}
<1>1. IsFiniteSet(S) /\ IsFiniteSet(T) /\ Cardinality(S) = Cardinality(T)
  BY FS_Subset DEF Balance
<1>2. S # {}
  OBVIOUS
<1>3. T # {}
  BY <1>1, <1>2, FS_EmptySet
<1>4. QED
  BY <1>3

(* The lane a generation's credits are held on is the lane of any of them.  *)
LEMMA LaneHoldingIs ==
  ASSUME NEW H, NEW h \in H, h.lane \in TransferLane,
         \A c \in H : c.generation = h.generation => c.lane = h.lane
  PROVE  LaneHolding(H, h.generation) = h.lane
<1>1. \E l \in TransferLane : \E c \in H : c.generation = h.generation /\ c.lane = l
  OBVIOUS
<1>2. \A l : (\E c \in H : c.generation = h.generation /\ c.lane = l) => l = h.lane
  OBVIOUS
<1>3. QED
  BY <1>1, <1>2 DEF LaneHolding

-----------------------------------------------------------------------------
(* The steps.                                                               *)

(* A request moves from one place to the next, and never back.              *)
LEMMA RequestsStep ==
  ASSUME Known, RequestsAreUnique, [ProtocolNext]_allVars
  PROVE  RequestsAreUnique'
<1> DEFINE Still == UNCHANGED <<flushing, fresh, request_calls, work, responses, leases,
                               release_calls>>
<1>0. /\ request_calls \subseteq Task /\ Payloads \subseteq Task /\ work \subseteq Task
      /\ flushing \subseteq Flush /\ fresh \subseteq Request
      /\ \A f \in flushing : f.request \in Request \cup {"begin"}
      /\ \A t \in Task : t.request \in Request
  BY DEF Known, TypeOK, ProtocolTypeOK, Payloads, Flush, Task, HeldTicket
<1>1. CASE Still
  BY <1>1 DEF RequestsAreUnique, Waiting, Travelling, Payloads
<1>2. CASE PageLoad \/ open
  <2>1. /\ flushing' \subseteq flushing /\ responses' \subseteq responses
        /\ leases' \subseteq leases
        /\ UNCHANGED <<fresh, request_calls, work, release_calls>>
    BY <1>2 DEF PageLoad, open, document_started, open_session, transitVars
  <2>2. QED
    BY <2>1 DEF RequestsAreUnique, Waiting, Travelling, Payloads
<1>3. CASE \/ \E l \in TransferLane, g \in Generation : beginFlush(l, g)
           \/ \E f \in flushing : beginInvoke(f) \/ flushFails(f)
  <2>1. /\ Waiting' \subseteq Waiting
        /\ UNCHANGED <<fresh, request_calls, work, responses, leases, release_calls>>
    <3>1. ASSUME NEW l \in TransferLane, NEW g \in Generation, beginFlush(l, g)
          PROVE  Waiting' \subseteq Waiting
      <4> DEFINE f == [request |-> "begin", lane |-> l, generation |-> g,
                       need |-> pending_release_acks]
      <4>1. flushing' = flushing \cup {f} /\ f.request = "begin"
        BY <3>1 DEF beginFlush
      <4> HIDE DEF f
      <4>2. QED
        BY <4>1 DEF Waiting
    <3>2. ASSUME NEW f \in flushing, beginInvoke(f) \/ flushFails(f)
          PROVE  Waiting' \subseteq Waiting
      <4>1. flushing' \subseteq flushing
        BY <3>2 DEF beginInvoke, flushFails
      <4>2. QED
        BY <4>1 DEF Waiting
    <3>3. UNCHANGED <<fresh, request_calls, work, responses, leases, release_calls>>
      <4>1. CASE \E l \in TransferLane, g \in Generation : beginFlush(l, g)
        BY <4>1 DEF beginFlush, vars, transitVars
      <4>2. CASE \E f \in flushing : beginInvoke(f) \/ flushFails(f)
        BY <4>2 DEF beginInvoke, flushFails, vars, transitVars
      <4>3. QED
        BY <1>3, <4>1, <4>2
    <3>4. QED
      BY <1>3, <3>1, <3>2, <3>3
  <2>2. QED
    BY <2>1 DEF RequestsAreUnique, Travelling, Payloads
<1>4. ASSUME NEW r \in Request, NEW l \in TransferLane, requestFlush(r, l)
      PROVE  RequestsAreUnique'
  <2>1. /\ r \in fresh /\ fresh' = fresh \ {r}
        /\ \E f : f.request = r /\ Waiting' = Waiting \cup {f}
        /\ UNCHANGED <<request_calls, work, responses, leases, release_calls>>
    <3> DEFINE f == [request |-> r, lane |-> l, generation |-> 0,
                     need |-> pending_release_acks]
    <3>1. flushing' = flushing \cup {f} /\ f.request = r /\ r # "begin"
      BY <1>4, RequestAssumption DEF requestFlush
    <3> HIDE DEF f
    <3>2. Waiting' = Waiting \cup {f}
      BY <3>1 DEF Waiting
    <3>3. QED
      BY <1>4, <3>1, <3>2 DEF requestFlush, vars
  <2>2. QED
    BY <2>1 DEF RequestsAreUnique, Travelling, Payloads
<1>5. ASSUME NEW f \in flushing, requestInvoke(f)
      PROVE  RequestsAreUnique'
  <2>1. /\ f \in Waiting /\ Waiting' = Waiting \ {f}
        /\ \/ request_calls' = request_calls
           \/ \E t : t.request = f.request /\ request_calls' = request_calls \cup {t}
        /\ UNCHANGED <<fresh, work, responses, leases, release_calls>>
    BY <1>5 DEF requestInvoke, Waiting, vars
  <2>2. QED
    BY <2>1 DEF RequestsAreUnique, Travelling, Payloads
<1>6. ASSUME NEW t \in request_calls, RequestArrives(t)
      PROVE  RequestsAreUnique'
  <2>1. t \in Task /\ t = [request |-> t.request, session |-> t.session,
                           lane |-> t.lane, generation |-> t.generation]
    BY <1>0 DEF Task, HeldTicket
  <2>2. /\ request_calls' = request_calls \ {t}
        /\ work' = work \/ work' = work \cup {t}
        /\ UNCHANGED <<fresh, flushing, responses, leases, release_calls>>
    BY <1>6, <2>1 DEF RequestArrives, acquire, vars, clientVars
  <2>3. QED
    BY <2>2 DEF RequestsAreUnique, Waiting, Travelling, Payloads
<1>7. ASSUME NEW t \in work, TaskReturns(t)
      PROVE  RequestsAreUnique'
  <2>1. /\ work' = work \ {t}
        /\ responses' = responses \/ responses' = responses \cup {t}
        /\ UNCHANGED <<fresh, flushing, request_calls, leases, release_calls>>
    BY <1>7 DEF TaskReturns, clientVars, complete_for_publish,
                complete_phase5_for_publish, finish_without_publish
  <2>2. QED
    BY <2>1 DEF RequestsAreUnique, Waiting, Travelling, Payloads
<1>8. ASSUME NEW t \in responses, acceptResponse(t)
      PROVE  RequestsAreUnique'
  <2>1. /\ responses' = responses \ {t} /\ leases' = leases \cup {t}
        /\ UNCHANGED <<fresh, flushing, request_calls, work, release_calls>>
    BY <1>8 DEF acceptResponse, vars
  <2>2. QED
    BY <2>1 DEF RequestsAreUnique, Waiting, Travelling, Payloads
<1>9. ASSUME NEW t \in Payloads, releaseAfterFailure(t) \/ leaseRelease(t)
      PROVE  RequestsAreUnique'
  <2>1. /\ AckOf(t).release_id = t.request
        /\ release_calls' = release_calls \cup {AckOf(t)}
        /\ Payloads' = Payloads \ {t}
        /\ responses' \subseteq responses /\ leases' \subseteq leases
        /\ UNCHANGED <<fresh, flushing, request_calls, work>>
    BY <1>9 DEF releaseAfterFailure, leaseRelease, acknowledgeRelease, AckOf, vars,
                Payloads, RequestsAreUnique
  <2>2. QED
    BY <2>1 DEF RequestsAreUnique, Waiting, Travelling
<1>10. CASE \/ \E l \in TransferLane : cancelInvoke(l)
            \/ \E c \in begin_replies : beginReturns(c)
            \/ \E a \in pending_release_acks : releaseReturns(a)
            \/ \E c \in begin_calls : BeginArrives(c)
            \/ \E c \in cancel_calls : CancelArrives(c)
            \/ \E a \in release_calls : ReleaseArrives(a)
            \/ UNCHANGED allVars
  <2>1. Still
    BY <1>10 DEF cancelInvoke, beginReturns, releaseReturns, BeginArrives,
       CancelArrives, ReleaseArrives, begin, cancel, release, allVars, vars,
       clientVars, transitVars
  <2>2. QED
    BY <1>1, <2>1
<1>11. QED
  BY <1>2, <1>3, <1>4, <1>5, <1>6, <1>7, <1>8, <1>9, <1>10
  DEF ProtocolNext, ClientNext, BackendNext, Payloads

(* A task that publishes is of the session of the document that is loaded.  *)
LEMMA PublishesToDocument ==
  ASSUME Known, NEW t \in work, Publishable(t.session, t.lane, t.generation)
  PROVE  t.session = session /\ client_session = session /\ session # 0
<1>1. t.lane \in TransferLane
  BY DEF Known, TypeOK, Task, HeldTicket
<1>2. t.session = session /\ lanes[t.lane].active
  BY DEF Publishable
<1>3. session # 0 /\ session_document_epoch = document_epoch
  BY <1>1, <1>2 DEF Known, LaneInv, ActiveLaneIsBegun
<1>4. QED
  BY <1>2, <1>3 DEF Known, AgreeInv, DocumentHasSession

(* Releases are sent for what the document has, and stay pending until they *)
(* are acknowledged.                                                        *)
LEMMA ReleasesStep ==
  ASSUME Known, ReleasesAreOfSession, [ProtocolNext]_allVars
  PROVE  ReleasesAreOfSession'
<1> DEFINE Still == UNCHANGED <<session, client_session, pending_release_acks,
                               release_calls, acknowledged_release_ids>>
<1>0. /\ client_session = session \/ client_session = 0
      /\ session \in Int
      /\ \A a \in release_calls : a.session \in Int
  BY BoundAssumption
  DEF Known, TypeOK, ProtocolTypeOK, AgreeInv, DocumentHasSession, Session, Ack
<1>1. CASE Still /\ Payloads' \subseteq Payloads
  BY <1>1 DEF ReleasesAreOfSession
<1>2. CASE PageLoad
  <2>1. /\ client_session' = 0 /\ session' = session
        /\ Payloads' = {} /\ pending_release_acks' = {} /\ acknowledged_release_ids' = {}
        /\ release_calls' = release_calls
    BY <1>2 DEF PageLoad, document_started, Payloads
  <2>2. QED
    BY <2>1 DEF ReleasesAreOfSession
<1>3. CASE open
  <2>1. /\ client_session' = session + 1 /\ session' = session + 1
        /\ Payloads' = Payloads /\ Payloads = {}
        /\ pending_release_acks' = {} /\ acknowledged_release_ids' = {}
        /\ release_calls' = release_calls
    BY <1>3 DEF open, open_session, Payloads, transitVars, ReleasesAreOfSession
  <2>2. QED
    BY <1>0, <2>1 DEF ReleasesAreOfSession
<1>4. ASSUME NEW t \in work, TaskReturns(t)
      PROVE  ReleasesAreOfSession'
  <2>1. Still
    BY <1>4 DEF TaskReturns, clientVars, complete_for_publish,
                complete_phase5_for_publish, finish_without_publish
  <2>2. CASE Payloads' = Payloads
    BY <1>1, <2>1, <2>2
  <2>3. CASE Payloads' # Payloads
    <3>1. /\ Publishable(t.session, t.lane, t.generation)
          /\ Payloads' = Payloads \cup {t}
      BY <1>4, <2>3 DEF TaskReturns, clientVars, complete_for_publish,
         complete_phase5_for_publish, Payloads
    <3>2. t.session = session /\ client_session = session /\ session # 0
      BY <3>1, PublishesToDocument
    <3>3. QED
      BY <2>1, <3>1, <3>2 DEF ReleasesAreOfSession
  <2>4. QED
    BY <2>2, <2>3
<1>5. ASSUME NEW t \in Payloads, releaseAfterFailure(t) \/ leaseRelease(t)
      PROVE  ReleasesAreOfSession'
  <2>1. /\ pending_release_acks' = pending_release_acks \cup {AckOf(t)}
        /\ release_calls' = release_calls \cup {AckOf(t)}
        /\ Payloads' \subseteq Payloads
        /\ UNCHANGED <<session, client_session, acknowledged_release_ids>>
    BY <1>5 DEF releaseAfterFailure, leaseRelease, acknowledgeRelease, vars, Payloads
  <2>2. AckOf(t).session = session /\ client_session = session /\ session # 0
    BY <1>0 DEF ReleasesAreOfSession, AckOf
  <2>3. QED
    BY <1>0, <2>1, <2>2 DEF ReleasesAreOfSession
<1>6. ASSUME NEW a \in pending_release_acks, releaseReturns(a)
      PROVE  ReleasesAreOfSession'
  <2>1. /\ a.release_id \in acknowledged_release_ids
        /\ pending_release_acks' = pending_release_acks \ {a}
        /\ Payloads' = Payloads
        /\ UNCHANGED <<session, client_session, release_calls, acknowledged_release_ids>>
    BY <1>6 DEF releaseReturns, vars, transitVars, Payloads
  <2>2. QED
    BY <2>1 DEF ReleasesAreOfSession
<1>7. ASSUME NEW a \in release_calls, ReleaseArrives(a)
      PROVE  ReleasesAreOfSession'
  <2>1. /\ acknowledged_release_ids' = acknowledged_release_ids \cup {a.release_id}
        /\ Payloads' = Payloads
        /\ UNCHANGED <<session, client_session, release_calls, pending_release_acks>>
    BY <1>7 DEF ReleaseArrives, release, transitVars, clientVars, Payloads
  <2>2. QED
    BY <2>1 DEF ReleasesAreOfSession
<1>8. CASE \/ \E l \in TransferLane, g \in Generation : beginFlush(l, g)
           \/ \E f \in flushing : beginInvoke(f) \/ flushFails(f) \/ requestInvoke(f)
           \/ \E l \in TransferLane : cancelInvoke(l)
           \/ \E r \in Request, l \in TransferLane : requestFlush(r, l)
  <2>1. Still /\ Payloads' = Payloads
    BY <1>8 DEF beginFlush, beginInvoke, flushFails, requestInvoke, cancelInvoke,
       requestFlush, vars, transitVars, Payloads
  <2>2. QED
    BY <1>1, <2>1
<1>9. CASE \/ \E c \in begin_replies : beginReturns(c)
           \/ \E t \in responses : acceptResponse(t)
           \/ UNCHANGED allVars
  <2>1. Still /\ Payloads' = Payloads
    BY <1>9 DEF beginReturns, acceptResponse, allVars, vars, clientVars, transitVars,
       Payloads
  <2>2. QED
    BY <1>1, <2>1
<1>10. CASE \/ \E c \in begin_calls : BeginArrives(c)
            \/ \E c \in cancel_calls : CancelArrives(c)
            \/ \E t \in request_calls : RequestArrives(t)
  <2>1. Still /\ Payloads' = Payloads
    BY <1>10 DEF BeginArrives, CancelArrives, RequestArrives, begin, cancel, acquire,
       vars, clientVars, Payloads
  <2>2. QED
    BY <1>1, <2>1
<1>11. QED
  BY <1>2, <1>3, <1>4, <1>5, <1>6, <1>7, <1>8, <1>9, <1>10
  DEF ProtocolNext, ClientNext, BackendNext, Payloads

-----------------------------------------------------------------------------
(* What a step does to what is owed and held.                               *)
OwedNames ==
  /\ \A o, p \in Owed : o[1] = p[1] => o = p
  /\ \A o \in Owed, t \in request_calls \cup work : o[1] # t.request
  /\ \A o \in Owed : o[3] \in Generation

(* Names of what is owed are different, and not those of running tasks.     *)
LEMMA OwedHasNames ==
  ASSUME Known, RequestsAreUnique, ReleasesAreOfSession
  PROVE  OwedNames
<1>1. /\ \A p \in Payloads : p \in Travelling /\ p.generation \in Generation
      /\ \A a \in Unacknowledged : a \in release_calls /\ a.generation \in Generation
  BY DEF Known, ProtocolTypeOK, Payloads, Travelling, Unacknowledged,
     ReleasesAreOfSession, Task, HeldTicket, Ack
<1>2. ASSUME NEW o \in Owed
      PROVE  \/ \E p \in Payloads : o = <<p.request, p.lane, p.generation>>
             \/ \E a \in Unacknowledged :
                   o = <<a.release_id,
                         LaneHolding(held_credits_by_owner, a.generation), a.generation>>
  BY DEF Owed
<1>3. \A o \in Owed : o[3] \in Generation
  BY <1>1, <1>2
<1>4. ASSUME NEW o \in Owed, NEW p \in Owed, o[1] = p[1]
      PROVE  o = p
  <2>1. CASE \E x, y \in Payloads : /\ o = <<x.request, x.lane, x.generation>>
                                    /\ p = <<y.request, y.lane, y.generation>>
    BY <1>1, <1>4, <2>1 DEF RequestsAreUnique
  <2>2. CASE \E x, y \in Unacknowledged :
               /\ o = <<x.release_id,
                        LaneHolding(held_credits_by_owner, x.generation), x.generation>>
               /\ p = <<y.release_id,
                        LaneHolding(held_credits_by_owner, y.generation), y.generation>>
    BY <1>1, <1>4, <2>2 DEF RequestsAreUnique
  <2>3. ASSUME NEW x \in Payloads, NEW y \in Unacknowledged
        PROVE  x.request # y.release_id
    BY <1>1 DEF RequestsAreUnique
  <2>4. QED
    BY <1>2, <1>4, <2>1, <2>2, <2>3
<1>5. ASSUME NEW o \in Owed, NEW t \in request_calls \cup work
      PROVE  o[1] # t.request
  BY <1>1, <1>2 DEF RequestsAreUnique, Travelling
<1>6. QED
  BY <1>3, <1>4, <1>5 DEF OwedNames

(* A document that is replaced owes nothing, and nothing is held for it.    *)
LEMMA OwedReclaimed ==
  ASSUME PageLoad
  PROVE  Owed' = {} /\ held_credits_by_owner' = {} /\ work' = work
  BY DEF PageLoad, document_started, Owed, Payloads, Unacknowledged

(* A step that moves none of it.                                            *)
LEMMA OwedUntouched ==
  ASSUME Payloads' = Payloads, Unacknowledged' = Unacknowledged,
         held_credits_by_owner' = held_credits_by_owner
  PROVE  Owed' = Owed
<1>1. \A a : LaneHolding(held_credits_by_owner, a.generation)'
               = LaneHolding(held_credits_by_owner, a.generation)
  BY DEF LaneHolding
<1>2. QED
  BY <1>1 DEF Owed

(* Releasing a buffer changes how it is owed, not that it is.               *)
LEMMA OwedReleased ==
  ASSUME Known, LedgerInv, NEW t \in Payloads, releaseAfterFailure(t) \/ leaseRelease(t)
  PROVE  /\ Owed' = Owed
         /\ held_credits_by_owner' = held_credits_by_owner
         /\ work' = work
<1> DEFINE a == AckOf(t)
           o == <<t.request, t.lane, t.generation>>
<1>1. /\ Payloads' = Payloads \ {t}
      /\ pending_release_acks' = pending_release_acks \cup {a}
      /\ UNCHANGED <<acknowledged_release_ids, held_credits_by_owner, work>>
  BY DEF releaseAfterFailure, leaseRelease, acknowledgeRelease, vars, Payloads,
         LedgerInv, RequestsAreUnique
<1>2. a.release_id = t.request /\ a.generation = t.generation
  BY DEF AckOf
<1> HIDE DEF a
<1>3. a.release_id \notin acknowledged_release_ids
  BY <1>2 DEF LedgerInv, ReleasesAreOfSession, RequestsAreUnique, Travelling
<1>4. Unacknowledged' = Unacknowledged \cup {a}
  BY <1>1, <1>3 DEF Unacknowledged
<1>5. o \in Owed /\ o[2] = t.lane /\ o[3] = t.generation /\ o[3] \in Generation
  BY DEF Owed, Known, ProtocolTypeOK, Payloads, Task, HeldTicket
<1>6. PICK h \in held_credits_by_owner : h.generation = t.generation
  BY <1>5, BalanceHeld DEF LedgerInv, OwedIsHeld
<1>7. h.lane = t.lane
  BY <1>5, <1>6 DEF LedgerInv, OwedIsHeld
<1>8. LaneHolding(held_credits_by_owner, t.generation) = t.lane
  <2>1. LaneHolding(held_credits_by_owner, h.generation) = h.lane
    BY LaneHoldingIs DEF Known, HeldLanes
  <2>2. QED
    BY <1>6, <1>7, <2>1
<1>9. \A b : LaneHolding(held_credits_by_owner, b.generation)'
               = LaneHolding(held_credits_by_owner, b.generation)
  BY <1>1 DEF LaneHolding
<1>10. Owed' = {<<p.request, p.lane, p.generation>> : p \in Payloads \ {t}}
                 \cup {<<b.release_id, LaneHolding(held_credits_by_owner, b.generation),
                         b.generation>> : b \in Unacknowledged \cup {a}}
  BY <1>1, <1>4, <1>9 DEF Owed
<1>11. <<a.release_id, LaneHolding(held_credits_by_owner, a.generation), a.generation>> = o
  BY <1>2, <1>8
<1>12. Owed' = Owed
  BY <1>10, <1>11 DEF Owed
<1>13. QED
  BY <1>1, <1>12

(* A payload that is published is owed, and a credit of its lane and        *)
(* generation is held for it.                                               *)
LEMMA OwedPublished ==
  ASSUME Known, Known', LedgerInv, NEW t \in work, TaskReturns(t),
         held_credits_by_owner' # held_credits_by_owner
  PROVE  /\ Owed' = Owed \cup {<<t.request, t.lane, t.generation>>}
         /\ \E h : /\ h \notin held_credits_by_owner
                   /\ held_credits_by_owner' = held_credits_by_owner \cup {h}
                   /\ h.lane = t.lane /\ h.generation = t.generation
         /\ work' = work \ {t}
<1>1. PICK c \in InFlightOfOwner(t.session, t.lane) :
         held_credits_by_owner' =
           held_credits_by_owner \cup {[request |-> c.request, session |-> t.session,
                                        lane |-> t.lane, generation |-> t.generation]}
  BY DEF TaskReturns, complete_for_publish, complete_phase5_for_publish,
         finish_without_publish
<1> DEFINE h == [request |-> c.request, session |-> t.session,
                 lane |-> t.lane, generation |-> t.generation]
<1>2. h.lane = t.lane /\ h.generation = t.generation
  OBVIOUS
<1>3. /\ Payloads' = Payloads \cup {t}
      /\ Unacknowledged' = Unacknowledged
      /\ work' = work \ {t}
  BY DEF TaskReturns, complete_for_publish, complete_phase5_for_publish,
         finish_without_publish, Payloads, Unacknowledged, clientVars
<1>4. ASSUME NEW a \in Unacknowledged
      PROVE  LaneHolding(held_credits_by_owner', a.generation)
               = LaneHolding(held_credits_by_owner, a.generation)
  <2> DEFINE o == <<a.release_id, LaneHolding(held_credits_by_owner, a.generation),
                    a.generation>>
  <2>1. o \in Owed /\ o[3] = a.generation /\ a.generation \in Generation
    BY DEF Owed, Unacknowledged, Known, ProtocolTypeOK, Ack
  <2>2. PICK k \in held_credits_by_owner : k.generation = a.generation
    BY <2>1, BalanceHeld DEF LedgerInv, OwedIsHeld
  <2>3. LaneHolding(held_credits_by_owner, k.generation) = k.lane
    BY LaneHoldingIs DEF Known, HeldLanes
  <2>4. k \in held_credits_by_owner'
    BY <1>1
  <2>5. LaneHolding(held_credits_by_owner', k.generation) = k.lane
    BY <2>4, LaneHoldingIs DEF Known, HeldLanes
  <2>6. QED
    BY <2>2, <2>3, <2>5
<1>5. Owed' = {<<p.request, p.lane, p.generation>> : p \in Payloads \cup {t}}
                \cup {<<b.release_id, LaneHolding(held_credits_by_owner', b.generation),
                        b.generation>> : b \in Unacknowledged}
  BY <1>3 DEF Owed, LaneHolding
<1>6. Owed' = Owed \cup {<<t.request, t.lane, t.generation>>}
  BY <1>4, <1>5 DEF Owed
<1> HIDE DEF h
<1>7. QED
  BY <1>1, <1>2, <1>3, <1>6 DEF h

(* A release that arrives gives back one credit and ends one debt, of the   *)
(* same generation.                                                         *)
LEMMA OwedGivenBack ==
  ASSUME Known, Known', LedgerInv, NEW a \in release_calls, ReleaseArrives(a)
  PROVE  /\ \E o \in Owed, h \in held_credits_by_owner :
              /\ o[3] = h.generation
              /\ Owed' = Owed \ {o}
              /\ held_credits_by_owner' = held_credits_by_owner \ {h}
         /\ work' = work
<1>1. PICK h \in held_credits_by_owner :
        /\ h.session = a.session /\ h.generation = a.generation
        /\ held_credits_by_owner' = held_credits_by_owner \ {h}
  BY DEF ReleaseArrives, release
<1>2. /\ a.release_id \notin acknowledged_release_ids
      /\ acknowledged_release_ids' = acknowledged_release_ids \cup {a.release_id}
      /\ Payloads' = Payloads
      /\ UNCHANGED <<pending_release_acks, work>>
  BY DEF ReleaseArrives, release, clientVars, transitVars, Payloads
<1>3. a \in Unacknowledged
  <2>1. a.session = session /\ session_document_epoch = document_epoch
    BY <1>1 DEF Known, LaneInv, HeldCreditsAreReachable
  <2>2. a.session = client_session
    BY <2>1 DEF Known, AgreeInv, DocumentHasSession
  <2>3. QED
    BY <1>2, <2>2 DEF LedgerInv, ReleasesAreOfSession, Unacknowledged
<1>4. Unacknowledged' = Unacknowledged \ {a}
  BY <1>2, <1>3 DEF Unacknowledged, LedgerInv, ReleasesAreOfSession, RequestsAreUnique
<1> DEFINE Debt(b) == <<b.release_id, LaneHolding(held_credits_by_owner, b.generation),
                        b.generation>>
<1>5. Debt(a) \in Owed /\ Debt(a)[3] = h.generation
  BY <1>1, <1>3 DEF Owed
<1>6. Debt(a)[2] = h.lane
  BY <1>5 DEF LedgerInv, OwedIsHeld
<1>7. Balance(Owed \ {Debt(a)}, held_credits_by_owner')
  <2> HIDE DEF Debt
  <2>1. QED
    BY <1>1, <1>5, <1>6, BalanceLoss DEF LedgerInv, OwedIsHeld
<1>8. OwedNames
  BY OwedHasNames DEF LedgerInv
<1>9. ASSUME NEW b \in Unacknowledged \ {a}
      PROVE  /\ Debt(b) # Debt(a)
             /\ LaneHolding(held_credits_by_owner', b.generation)
                  = LaneHolding(held_credits_by_owner, b.generation)
  <2>1. b.release_id # a.release_id
    BY <1>3 DEF Unacknowledged, LedgerInv, ReleasesAreOfSession, RequestsAreUnique
  <2>2. Debt(b) # Debt(a)
    BY <2>1
  <2>3. /\ Debt(b) \in Owed \ {Debt(a)} /\ Debt(b)[3] = b.generation
        /\ b.generation \in Generation
    BY <2>2 DEF Owed, Unacknowledged, Known, ProtocolTypeOK, Ack
  <2>4. PICK k \in held_credits_by_owner' : k.generation = b.generation
    <3> HIDE DEF Debt
    <3>1. QED
      BY <1>7, <2>3, BalanceHeld
  <2>5. LaneHolding(held_credits_by_owner', k.generation) = k.lane
    BY <2>4, LaneHoldingIs DEF Known, HeldLanes
  <2>6. k \in held_credits_by_owner
    BY <1>1, <2>4
  <2>7. LaneHolding(held_credits_by_owner, k.generation) = k.lane
    BY <2>6, LaneHoldingIs DEF Known, HeldLanes
  <2>8. QED
    BY <2>2, <2>4, <2>5, <2>7
<1>10. ASSUME NEW p \in Payloads
       PROVE  <<p.request, p.lane, p.generation>> # Debt(a)
  <2>1. p.request # a.release_id
    BY DEF LedgerInv, RequestsAreUnique, Travelling
  <2>2. QED
    BY <2>1
<1>11. Owed' = {<<p.request, p.lane, p.generation>> : p \in Payloads}
                 \cup {<<b.release_id, LaneHolding(held_credits_by_owner', b.generation),
                         b.generation>> : b \in Unacknowledged \ {a}}
  BY <1>2, <1>4 DEF Owed, LaneHolding
<1>12. Owed' = Owed \ {Debt(a)}
  <2>1. Owed' = {<<p.request, p.lane, p.generation>> : p \in Payloads}
                  \cup {Debt(b) : b \in Unacknowledged \ {a}}
    BY <1>9, <1>11
  <2>2. Owed = {<<p.request, p.lane, p.generation>> : p \in Payloads}
                  \cup {Debt(b) : b \in Unacknowledged}
    BY DEF Owed
  <2> HIDE DEF Debt
  <2>3. QED
    BY <1>9, <1>10, <2>1, <2>2
<1> HIDE DEF Debt
<1>13. QED
  BY <1>1, <1>2, <1>5, <1>12

(* The balance and the lanes are kept by whatever a step does to the two    *)
(* sides of the ledger.                                                     *)
OwedIsUntouched == Owed' = Owed /\ held_credits_by_owner' = held_credits_by_owner

LEMMA Effects ==
  ASSUME Known, Known', LedgerInv, [ProtocolNext]_allVars
  PROVE  \/ PageLoad
         \/ OwedIsUntouched /\ work' = work
         \/ /\ OwedIsUntouched
            /\ \E t \in request_calls : /\ acquire(t.request, t.session, t.lane, t.generation)
                                        /\ work' = work \cup {t}
         \/ \E t \in work : OwedIsUntouched /\ work' = work \ {t}
         \/ \E t \in work : TaskReturns(t) /\ held_credits_by_owner' # held_credits_by_owner
         \/ \E a \in release_calls : ReleaseArrives(a)
<1> DEFINE Still == /\ Payloads' = Payloads
                    /\ UNCHANGED <<pending_release_acks, acknowledged_release_ids,
                                   held_credits_by_owner>>
<1>0. Still => OwedIsUntouched
  BY OwedUntouched DEF Unacknowledged, OwedIsUntouched
<1>1. CASE open
  <2>1. client_session = 0
    BY <1>1 DEF open
  <2>2. Payloads = {} /\ pending_release_acks = {}
    BY <2>1 DEF LedgerInv, ReleasesAreOfSession
  <2>3. /\ Payloads' = Payloads /\ Unacknowledged' = Unacknowledged
        /\ UNCHANGED <<held_credits_by_owner, work>>
    BY <1>1, <2>2 DEF open, open_session, Payloads, Unacknowledged, transitVars
  <2>4. QED
    BY <2>3, OwedUntouched DEF OwedIsUntouched
<1>2. CASE \/ \E l \in TransferLane, g \in Generation : beginFlush(l, g)
           \/ \E f \in flushing : beginInvoke(f) \/ flushFails(f) \/ requestInvoke(f)
           \/ \E l \in TransferLane : cancelInvoke(l)
           \/ \E r \in Request, l \in TransferLane : requestFlush(r, l)
  <2>1. Still /\ work' = work
    BY <1>2 DEF beginFlush, beginInvoke, flushFails, requestInvoke, cancelInvoke,
       requestFlush, vars, transitVars, Payloads
  <2>2. QED
    BY <1>0, <2>1
<1>3. CASE \/ \E c \in begin_replies : beginReturns(c)
           \/ \E t \in responses : acceptResponse(t)
           \/ UNCHANGED allVars
  <2>1. Still /\ work' = work
    BY <1>3 DEF beginReturns, acceptResponse, allVars, vars, clientVars, transitVars,
       Payloads
  <2>2. QED
    BY <1>0, <2>1
<1>4. CASE \/ \E c \in begin_calls : BeginArrives(c)
           \/ \E c \in cancel_calls : CancelArrives(c)
  <2>1. Still /\ work' = work
    BY <1>4 DEF BeginArrives, CancelArrives, begin, cancel, vars, clientVars, Payloads
  <2>2. QED
    BY <1>0, <2>1
<1>5. ASSUME NEW t \in request_calls, RequestArrives(t)
      PROVE  \/ OwedIsUntouched /\ work' = work
             \/ /\ OwedIsUntouched
                /\ acquire(t.request, t.session, t.lane, t.generation)
                /\ work' = work \cup {t}
  <2>1. t = [request |-> t.request, session |-> t.session, lane |-> t.lane,
             generation |-> t.generation]
    BY DEF Known, ProtocolTypeOK, Task, HeldTicket
  <2>2. Still
    BY <1>5 DEF RequestArrives, acquire, vars, clientVars, Payloads
  <2>3. \/ work' = work
        \/ /\ acquire(t.request, t.session, t.lane, t.generation)
           /\ work' = work \cup {t}
    BY <1>5, <2>1 DEF RequestArrives, acquire, vars
  <2>4. QED
    BY <1>0, <2>2, <2>3
<1>6. ASSUME NEW t \in work, TaskReturns(t),
             held_credits_by_owner' = held_credits_by_owner
      PROVE  OwedIsUntouched /\ work' = work \ {t}
  <2>1. Still /\ work' = work \ {t}
    BY <1>6 DEF TaskReturns, complete_for_publish, complete_phase5_for_publish,
         finish_without_publish, Payloads, clientVars
  <2>2. QED
    BY <1>0, <2>1
<1>7. ASSUME NEW t \in Payloads, releaseAfterFailure(t) \/ leaseRelease(t)
      PROVE  OwedIsUntouched /\ work' = work
  BY <1>7, OwedReleased DEF OwedIsUntouched
<1>8. ASSUME NEW a \in pending_release_acks, releaseReturns(a)
      PROVE  OwedIsUntouched /\ work' = work
  <2>1. /\ Payloads' = Payloads /\ Unacknowledged' = Unacknowledged
        /\ UNCHANGED <<held_credits_by_owner, work>>
    BY <1>8 DEF releaseReturns, vars, transitVars, Payloads, Unacknowledged
  <2>2. QED
    BY <2>1, OwedUntouched DEF OwedIsUntouched
<1>9. QED
  BY <1>1, <1>2, <1>3, <1>4, <1>5, <1>6, <1>7, <1>8
  DEF ProtocolNext, ClientNext, BackendNext, Payloads

(* The two sides stay in balance.                                           *)
LEMMA OwedStep ==
  ASSUME Known, Known', LedgerInv, [ProtocolNext]_allVars
  PROVE  OwedIsHeld'
<1>1. CASE OwedIsUntouched
  BY <1>1 DEF OwedIsUntouched, LedgerInv, OwedIsHeld
<1>2. CASE PageLoad
  <2>1. Balance({}, {})
    BY FS_EmptySet DEF Balance
  <2>2. QED
    BY <1>2, <2>1, OwedReclaimed DEF OwedIsHeld
<1>3. ASSUME NEW t \in work, TaskReturns(t), held_credits_by_owner' # held_credits_by_owner
      PROVE  OwedIsHeld'
  <2> DEFINE o == <<t.request, t.lane, t.generation>>
  <2>1. /\ Owed' = Owed \cup {o}
        /\ \E h : /\ h \notin held_credits_by_owner
                  /\ held_credits_by_owner' = held_credits_by_owner \cup {h}
                  /\ h.lane = t.lane /\ h.generation = t.generation
    BY <1>3, OwedPublished
  <2>2. PICK h : /\ h \notin held_credits_by_owner
                 /\ held_credits_by_owner' = held_credits_by_owner \cup {h}
                 /\ h.lane = t.lane /\ h.generation = t.generation
    BY <2>1
  <2>3. OwedNames
    BY OwedHasNames DEF LedgerInv
  <2>4. o \notin Owed /\ o[2] = h.lane /\ o[3] = h.generation
    BY <2>2, <2>3 DEF OwedNames
  <2>5. Balance(Owed', held_credits_by_owner')
    <3> HIDE DEF o
    <3>1. QED
      BY <2>1, <2>2, <2>4, BalanceGain DEF LedgerInv, OwedIsHeld
  <2>6. ASSUME NEW p \in Owed', NEW k \in held_credits_by_owner', p[3] = k.generation
        PROVE  p[2] = k.lane
    <3>1. CASE p = o
      BY <2>2, <2>4, <2>6, <3>1 DEF Known, HeldLanes
    <3>2. CASE p # o
      <4>1. p \in Owed /\ p[3] \in Generation
        BY <2>1, <2>3, <3>2 DEF OwedNames
      <4>2. PICK c \in held_credits_by_owner : c.generation = p[3]
        BY <4>1, BalanceHeld DEF LedgerInv, OwedIsHeld
      <4>3. p[2] = c.lane
        BY <4>1, <4>2 DEF LedgerInv, OwedIsHeld
      <4>4. c.lane = k.lane
        BY <2>2, <2>6, <4>2 DEF Known, HeldLanes
      <4>5. QED
        BY <4>3, <4>4
    <3>3. QED
      BY <3>1, <3>2
  <2>7. QED
    BY <2>5, <2>6 DEF OwedIsHeld
<1>4. ASSUME NEW a \in release_calls, ReleaseArrives(a)
      PROVE  OwedIsHeld'
  <2>1. PICK o \in Owed, h \in held_credits_by_owner :
          /\ o[3] = h.generation
          /\ Owed' = Owed \ {o}
          /\ held_credits_by_owner' = held_credits_by_owner \ {h}
    BY <1>4, OwedGivenBack
  <2>2. o[2] = h.lane
    BY <2>1 DEF LedgerInv, OwedIsHeld
  <2>3. Balance(Owed', held_credits_by_owner')
    BY <2>1, <2>2, BalanceLoss DEF LedgerInv, OwedIsHeld
  <2>4. QED
    BY <2>1, <2>3 DEF LedgerInv, OwedIsHeld
<1>5. QED
  BY <1>1, <1>2, <1>3, <1>4, Effects

(* The invariants of the ledger hold in every reachable state.              *)
LEMMA LedgerInvariant == ProtocolSpec => [](Known /\ LedgerInv)
<1>1. ProtocolInit => LedgerInv
  <2> SUFFICES ASSUME ProtocolInit PROVE LedgerInv
    OBVIOUS
  <2>1. RequestsAreUnique /\ ReleasesAreOfSession
    BY DEF ProtocolInit, Init, RequestsAreUnique, ReleasesAreOfSession, Travelling,
       Waiting, Payloads
  <2>2. Owed = {} /\ held_credits_by_owner = {}
    BY DEF ProtocolInit, Init, Owed, Payloads, Unacknowledged
  <2>3. Balance({}, {})
    BY FS_EmptySet DEF Balance
  <2>4. QED
    BY <2>1, <2>2, <2>3 DEF LedgerInv, OwedIsHeld
<1>2. Known /\ Known' /\ LedgerInv /\ [ProtocolNext]_allVars => LedgerInv'
  BY RequestsStep, ReleasesStep, OwedStep DEF LedgerInv
<1>3. QED
  BY <1>1, <1>2, KnownHolds, PTL DEF ProtocolSpec

-----------------------------------------------------------------------------
(* The ledger's own view: what is prepared and what is delivered, by name   *)
(* and lane.                                                                *)
Names(O) == {<<o[1], o[2]>> : o \in O}
NamesOfTasks(W) == {<<t.request, t.lane>> : t \in W}

Preparing == NamesOfTasks(work)
Delivered == {<<t.request, t.lane>> : t \in responses \cup leases}
               \cup {<<a.release_id, LaneOfAck(a)>> : a \in Unacknowledged}

(* What is owed is what is delivered.                                       *)
LEMMA DeliveredIsOwed == Delivered = Names(Owed)
<1>1. \A a : LaneOfAck(a) = LaneHolding(held_credits_by_owner, a.generation)
  BY DEF LaneOfAck, LaneHolding
<1>2. Delivered \subseteq Names(Owed)
  <2>1. ASSUME NEW t \in responses \cup leases
        PROVE  <<t.request, t.lane>> \in Names(Owed)
    <3>1. <<t.request, t.lane, t.generation>> \in Owed
      BY DEF Owed, Payloads
    <3>2. QED
      BY <3>1 DEF Names
  <2>2. ASSUME NEW a \in Unacknowledged
        PROVE  <<a.release_id, LaneOfAck(a)>> \in Names(Owed)
    <3>1. <<a.release_id, LaneOfAck(a), a.generation>> \in Owed
      BY <1>1 DEF Owed
    <3>2. QED
      BY <3>1 DEF Names
  <2>3. QED
    BY <2>1, <2>2 DEF Delivered
<1>3. ASSUME NEW o \in Owed
      PROVE  <<o[1], o[2]>> \in Delivered
  BY <1>1 DEF Owed, Delivered, Payloads
<1>4. QED
  BY <1>2, <1>3 DEF Names

(* It will be after a step.                                                 *)
LEMMA DeliveredWillBeOwed == (Delivered = Names(Owed))'
  BY DeliveredIsOwed, PTL

(* The names of one debt more, and of one debt less.                        *)
LEMMA NamesGain ==
  ASSUME NEW O, NEW r, NEW l, NEW g
  PROVE  Names(O \cup {<<r, l, g>>}) = Names(O) \cup {<<r, l>>}
<1> DEFINE p == <<r, l, g>>
<1>1. <<p[1], p[2]>> = <<r, l>>
  OBVIOUS
<1> HIDE DEF p
<1>2. Names(O \cup {p}) = Names(O) \cup {<<p[1], p[2]>>}
  BY DEF Names
<1>3. QED
  BY <1>1, <1>2 DEF p

LEMMA NamesLoss ==
  ASSUME NEW O, NEW p \in O, \A o \in O : o[1] = p[1] => o = p
  PROVE  Names(O \ {p}) = Names(O) \ {<<p[1], p[2]>>}
<1>1. \A o \in O \ {p} : <<o[1], o[2]>> # <<p[1], p[2]>>
  OBVIOUS
<1>2. QED
  BY <1>1 DEF Names

(* The ledger counts as the broker does.                                    *)
LEMMA LedgerCounts == ASSUME NEW S PROVE Ledger!Cardinality(S) = Cardinality(S)
  BY DEF Ledger!Cardinality, Cardinality

(* No lane has more names in the ledger than tasks and debts.               *)
NamesOnLane(W, O, l) == {b \in NamesOfTasks(W) \cup Names(O) : b[2] = l}
TasksOn(W, l) == {t \in W : t.lane = l}
DebtsOn(O, l) == {o \in O : o[2] = l}

LEMMA LoadFits ==
  ASSUME NEW W, IsFiniteSet(W), NEW O, IsFiniteSet(O), NEW l
  PROVE  /\ Cardinality(NamesOnLane(W, O, l)) \in Nat
         /\ Cardinality(NamesOnLane(W, O, l))
              <= Cardinality(TasksOn(W, l)) + Cardinality(DebtsOn(O, l))
<1> DEFINE V == {t \in W : t.lane = l}
           P == {o \in O : o[2] = l}
           VN == {<<t.request, t.lane>> : t \in V}
           PN == {<<o[1], o[2]>> : o \in P}
<1>1. IsFiniteSet(V) /\ IsFiniteSet(P)
  BY FS_Subset
<1>2. IsFiniteSet(VN) /\ Cardinality(VN) <= Cardinality(V)
  <2> DEFINE f == [t \in V |-> <<t.request, t.lane>>]
  <2>1. f \in [V -> VN] /\ \A b \in VN : \E t \in V : f[t] = b
    OBVIOUS
  <2> HIDE DEF f, V, VN
  <2>2. f \in Surjection(V, VN)
    BY <2>1, Fun_IsSurj
  <2>3. QED
    BY <1>1, <2>2, FS_Surjection
<1>3. IsFiniteSet(PN) /\ Cardinality(PN) <= Cardinality(P)
  <2> DEFINE f == [o \in P |-> <<o[1], o[2]>>]
  <2>1. f \in [P -> PN] /\ \A b \in PN : \E o \in P : f[o] = b
    OBVIOUS
  <2> HIDE DEF f, P, PN
  <2>2. f \in Surjection(P, PN)
    BY <2>1, Fun_IsSurj
  <2>3. QED
    BY <1>1, <2>2, FS_Surjection
<1>4. {b \in NamesOfTasks(W) \cup Names(O) : b[2] = l} = VN \cup PN
  BY DEF NamesOfTasks, Names
<1> HIDE DEF V, P, VN, PN
<1>5. /\ IsFiniteSet(VN \cup PN)
      /\ Cardinality(VN \cup PN)
           = Cardinality(VN) + Cardinality(PN) - Cardinality(VN \cap PN)
      /\ IsFiniteSet(VN \cap PN)
  BY <1>2, <1>3, FS_Union, FS_Subset
<1>6. /\ Cardinality(V) \in Nat /\ Cardinality(P) \in Nat
      /\ Cardinality(VN) \in Nat /\ Cardinality(PN) \in Nat
      /\ Cardinality(VN \cap PN) \in Nat /\ Cardinality(VN \cup PN) \in Nat
  BY <1>1, <1>2, <1>3, <1>5, FS_CardinalityType
<1>7. Cardinality(VN \cup PN) <= Cardinality(V) + Cardinality(P)
  BY <1>2, <1>3, <1>5, <1>6
<1>8. QED
  BY <1>4, <1>6, <1>7 DEF V, P, NamesOnLane, TasksOn, DebtsOn

(* A request that the broker accepts is charged to a lane with room.        *)
LEMMA ChargeStep ==
  ASSUME Known, LedgerInv, NEW t \in request_calls,
         acquire(t.request, t.session, t.lane, t.generation),
         work' = work \cup {t}, OwedIsUntouched, Delivered' = Delivered
  PROVE  Ledger!Charge(t.request, t.lane)
<1> DEFINE L == {b \in Preparing \cup Delivered : b[2] = t.lane}
<1>1. t.lane \in TransferLane /\ t.request \in Request
  BY DEF Known, ProtocolTypeOK, Task, HeldTicket
<1>2. /\ Cardinality(L) \in Nat
      /\ Cardinality(L) <= Cardinality(TasksOfLane(t.lane))
                             + Cardinality({o \in Owed : o[2] = t.lane})
  <2>1. IsFiniteSet(work) /\ IsFiniteSet(Owed)
    BY DEF Known, WorkIsInFlight, LedgerInv, OwedIsHeld, Balance
  <2>2. L = NamesOnLane(work, Owed, t.lane)
    BY DeliveredIsOwed DEF Preparing, NamesOnLane
  <2> HIDE DEF L
  <2>3. /\ Cardinality(L) \in Nat
        /\ Cardinality(L) <= Cardinality(TasksOn(work, t.lane))
                               + Cardinality(DebtsOn(Owed, t.lane))
    BY <2>1, <2>2, LoadFits
  <2>4. QED
    BY <2>3 DEF TasksOfLane, TasksOn, DebtsOn
<1>3. /\ Cardinality(TasksOfLane(t.lane)) = Cardinality(InFlightOfLane(t.lane))
      /\ Cardinality({o \in Owed : o[2] = t.lane}) = Cardinality(HeldOfLane(t.lane))
  BY <1>1 DEF Known, WorkIsInFlight, LedgerInv, OwedIsHeld, Balance, HeldOfLane
<1>4. credits_in_use(t.lane) < TRANSFER_CREDIT_LIMIT
  BY DEF acquire, AcquireAccepted
<1>5. /\ Cardinality(InFlightOfLane(t.lane)) \in Nat
      /\ Cardinality(HeldOfLane(t.lane)) \in Nat
  BY <1>1, LaneCounts DEF Known, CreditInv
<1>6. Cardinality(L) < TRANSFER_CREDIT_LIMIT
  <2> HIDE DEF L
  <2>1. QED
    BY <1>2, <1>3, <1>4, <1>5, LimitAssumption DEF credits_in_use
<1>7. \A b \in Preparing \cup Delivered : b[1] # t.request
  <2>1. OwedNames
    BY OwedHasNames DEF LedgerInv
  <2>2. \A b \in Delivered : b[1] # t.request
    BY <2>1, DeliveredIsOwed DEF OwedNames, Names
  <2>3. \A b \in Preparing : b[1] # t.request
    BY DEF Preparing, NamesOfTasks, LedgerInv, RequestsAreUnique, Travelling
  <2>4. QED
    BY <2>2, <2>3
<1>8. Preparing' = Preparing \cup {<<t.request, t.lane>>}
  BY DEF Preparing, NamesOfTasks
<1>9. Ledger!Cardinality(Ledger!Load(t.lane)) < TRANSFER_CREDIT_LIMIT
  BY <1>6, LedgerCounts DEF Ledger!Load, Preparing, NamesOfTasks, Delivered
<1>10. QED
  BY <1>7, <1>8, <1>9 DEF Ledger!Charge, Preparing, NamesOfTasks, Delivered

(* Every step of client and broker is a step of the ledger, or leaves it.   *)
LEMMA LedgerStep ==
  ASSUME Known, Known', LedgerInv, [ProtocolNext]_allVars
  PROVE  [Ledger!Next]_(Ledger!ledger)
<1> DEFINE Same == Preparing' = Preparing /\ Delivered' = Delivered
<1>0. OwedIsUntouched => Delivered' = Delivered
  BY DeliveredIsOwed, DeliveredWillBeOwed DEF OwedIsUntouched
<1>1. CASE PageLoad
  <2>1. Preparing' = Preparing /\ Delivered' = {}
    BY <1>1 DEF PageLoad, document_started, Preparing, Delivered, Unacknowledged
  <2>2. QED
    BY <2>1 DEF Ledger!Next, Ledger!Reclaim, Preparing, NamesOfTasks, Delivered
<1>2. CASE OwedIsUntouched /\ work' = work
  <2>1. Same
    BY <1>0, <1>2 DEF Preparing
  <2>2. QED
    BY <2>1 DEF Ledger!ledger, Preparing, NamesOfTasks, Delivered
<1>3. ASSUME NEW t \in request_calls,
             acquire(t.request, t.session, t.lane, t.generation),
             work' = work \cup {t}, OwedIsUntouched
      PROVE  Ledger!Next
  <2>1. Ledger!Charge(t.request, t.lane)
    BY <1>0, <1>3, ChargeStep
  <2>2. t.lane \in TransferLane /\ t.request \in Request
    BY DEF Known, ProtocolTypeOK, Task, HeldTicket
  <2>3. QED
    BY <2>1, <2>2 DEF Ledger!Next
<1>4. ASSUME NEW t \in work, work' = work \ {t}
      PROVE  /\ <<t.request, t.lane>> \in Preparing
             /\ Preparing' = Preparing \ {<<t.request, t.lane>>}
  <2>1. \A u \in work : u.request = t.request => u = t
    BY DEF LedgerInv, RequestsAreUnique, Travelling
  <2>2. QED
    BY <1>4, <2>1 DEF Preparing, NamesOfTasks
<1>5. ASSUME NEW t \in work, work' = work \ {t}, OwedIsUntouched
      PROVE  Ledger!Next
  <2>1. /\ <<t.request, t.lane>> \in Preparing
        /\ Preparing' = Preparing \ {<<t.request, t.lane>>}
        /\ Delivered' = Delivered
    BY <1>0, <1>4, <1>5
  <2>2. QED
    BY <2>1 DEF Ledger!Next, Ledger!Abandon, Preparing, NamesOfTasks, Delivered
<1>6. ASSUME NEW t \in work, TaskReturns(t), held_credits_by_owner' # held_credits_by_owner
      PROVE  Ledger!Next
  <2>1. work' = work \ {t} /\ Owed' = Owed \cup {<<t.request, t.lane, t.generation>>}
    BY <1>6, OwedPublished
  <2>2. Delivered' = Delivered \cup {<<t.request, t.lane>>}
    <3>1. Delivered' = Names(Owed \cup {<<t.request, t.lane, t.generation>>})
      BY <2>1, DeliveredWillBeOwed
    <3>2. Names(Owed \cup {<<t.request, t.lane, t.generation>>})
            = Names(Owed) \cup {<<t.request, t.lane>>}
      <4>1. \A r, l, g : Names(Owed \cup {<<r, l, g>>}) = Names(Owed) \cup {<<r, l>>}
        BY NamesGain
      <4>2. QED
        BY <4>1
    <3>3. QED
      BY <3>1, <3>2, DeliveredIsOwed
  <2>3. /\ <<t.request, t.lane>> \in Preparing
        /\ Preparing' = Preparing \ {<<t.request, t.lane>>}
    BY <1>4, <2>1
  <2>4. QED
    BY <2>2, <2>3 DEF Ledger!Next, Ledger!Deliver, Preparing, NamesOfTasks, Delivered
<1>7. ASSUME NEW a \in release_calls, ReleaseArrives(a)
      PROVE  Ledger!Next
  <2>1. PICK o \in Owed : Owed' = Owed \ {o} /\ work' = work
    BY <1>7, OwedGivenBack
  <2>2. OwedNames
    BY OwedHasNames DEF LedgerInv
  <2>3. /\ <<o[1], o[2]>> \in Delivered
        /\ Delivered' = Delivered \ {<<o[1], o[2]>>}
    <3>1. \A q \in Owed : q[1] = o[1] => q = o
      BY <2>2 DEF OwedNames
    <3>2. Names(Owed \ {o}) = Names(Owed) \ {<<o[1], o[2]>>}
      BY <3>1, NamesLoss
    <3>3. <<o[1], o[2]>> \in Names(Owed)
      BY DEF Names
    <3>4. QED
      BY <2>1, <3>2, <3>3, DeliveredIsOwed, DeliveredWillBeOwed
  <2>4. Preparing' = Preparing
    BY <2>1 DEF Preparing
  <2>5. QED
    BY <2>3, <2>4 DEF Ledger!Next, Ledger!GiveBack, Preparing, NamesOfTasks, Delivered
<1>8. QED
  BY <1>1, <1>2, <1>3, <1>5, <1>6, <1>7, Effects

(* Client and broker together keep the ledger: whatever is delayed, lost,   *)
(* repeated or replaced, each payload is charged to its own lane until its  *)
(* own buffer is given back, and no lane carries more than its limit        *)
(* (acquire and release of the broker, acknowledgeRelease of the client).   *)
THEOREM KeepsTheLedger == ProtocolSpec => ImplementsLedger
<1>1. ProtocolInit => Ledger!Init
  BY DEF ProtocolInit, Init, Ledger!Init, Unacknowledged
<1>2. Known /\ Known' /\ LedgerInv /\ [ProtocolNext]_allVars
        => [Ledger!Next]_(Ledger!ledger)
  BY LedgerStep
<1>3. QED
  BY <1>1, <1>2, LedgerInvariant, PTL DEF ProtocolSpec, ImplementsLedger, Ledger!Spec
=============================================================================
