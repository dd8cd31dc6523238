--------------------------- MODULE TransferBroker ---------------------------
(***************************************************************************)
(* The native credit broker (src-tauri/src/phase2_ipc.rs, TransferBroker). *)
(* Every binary payload that crosses from Rust to the WebView is charged   *)
(* to a credit of its lane: in flight while native work prepares it, held  *)
(* once it is published, free again when the frontend acknowledges its     *)
(* release.  Each action below is one critical section of the broker's     *)
(* mutex, called by a command handler or by the worker task of a request.  *)
(*                                                                         *)
(* Callers are unconstrained here: any session, generation and release id  *)
(* may be named at any moment, which covers stale, repeated and reordered  *)
(* control calls.  A call the broker refuses changes nothing and is not a  *)
(* step.  TransferProtocol adds the one caller there is, the client.       *)
(*                                                                         *)
(* The two BTreeMaps of u8 counters are kept in unary: a counter is the    *)
(* set of the tickets it counts, its value their number.  A ticket is      *)
(* named by the request it was issued to, but the broker never looks at    *)
(* the name: it gives back any ticket of the owner it is asked about.      *)
(***************************************************************************)
EXTENDS Integers, FiniteSets

CONSTANTS
  Request,                (* names of concurrent transfer requests            *)
  ReleaseId,              (* release ids the frontend may generate            *)
  TRANSFER_CREDIT_LIMIT,  (* credits of one lane                              *)
  MaxDocumentEpoch,       (* bound: page loads                                *)
  MaxSession,             (* bound: frontend sessions                         *)
  MaxGeneration           (* bound: radar generations of one session          *)

ASSUME LimitAssumption == TRANSFER_CREDIT_LIMIT \in Nat
ASSUME BoundAssumption ==
  MaxDocumentEpoch \in Nat /\ MaxSession \in Nat /\ MaxGeneration \in Nat

TransferLane == {"site", "national"}
Session      == 0 .. MaxSession
Generation   == 0 .. MaxGeneration
Epoch        == 0 .. MaxDocumentEpoch

VARIABLES
  document_epoch, session, session_document_epoch, max_generation,
  lanes,                        (* per lane: current generation and activity *)
  in_flight_credits_by_owner,   (* tickets [request, session, lane]          *)
  held_credits_by_owner,        (* tickets [request, session, lane, generation] *)
  acknowledged_release_ids,
  phase5_evidence,              (* [session, generation] of published evidence *)
  work                          (* native tasks still running                *)

vars == <<document_epoch, session, session_document_epoch, max_generation, lanes,
          in_flight_credits_by_owner, held_credits_by_owner,
          acknowledged_release_ids, phase5_evidence, work>>

InFlightTicket == [request: Request, session: Session, lane: TransferLane]
HeldTicket == [request: Request, session: Session, lane: TransferLane,
               generation: Generation]
Task == HeldTicket

TypeOK ==
  /\ document_epoch \in Epoch
  /\ session \in Session
  /\ session_document_epoch \in Epoch
  /\ max_generation \in Generation
  /\ lanes \in [TransferLane -> [generation: Generation, active: BOOLEAN]]
  /\ in_flight_credits_by_owner \subseteq InFlightTicket
  /\ held_credits_by_owner \subseteq HeldTicket
  /\ acknowledged_release_ids \subseteq ReleaseId
  /\ phase5_evidence \subseteq [session: Session, generation: Generation]
  /\ work \subseteq Task

Init ==
  /\ document_epoch = 0
  /\ session = 0
  /\ session_document_epoch = 0
  /\ max_generation = 0
  /\ lanes = [l \in TransferLane |-> [generation |-> 0, active |-> FALSE]]
  /\ in_flight_credits_by_owner = {}
  /\ held_credits_by_owner = {}
  /\ acknowledged_release_ids = {}
  /\ phase5_evidence = {}
  /\ work = {}

-----------------------------------------------------------------------------
InFlightOfLane(l) == {c \in in_flight_credits_by_owner : c.lane = l}
HeldOfLane(l)     == {c \in held_credits_by_owner : c.lane = l}

credits_in_use(l) == Cardinality(HeldOfLane(l)) + Cardinality(InFlightOfLane(l))

InFlightOfOwner(s, l) == {c \in InFlightOfLane(l) : c.session = s}

(* A document that still owns credits of its session may not open another.  *)
StillOwned(epoch) ==
  /\ session_document_epoch = epoch
  /\ \E c \in held_credits_by_owner \cup in_flight_credits_by_owner : c.session = session

ensure_session(s) ==
  /\ s # 0
  /\ s = session
  /\ session_document_epoch = document_epoch

ensure_current(s, l, g) == ensure_session(s) /\ g = lanes[l].generation

(* Mutant: the session is not compared.                                     *)
Publishable_any_session(s, l, g) ==
  /\ g = lanes[l].generation
  /\ lanes[l].active

Publishable(s, l, g) ==
  /\ s = session
  /\ g = lanes[l].generation
  /\ lanes[l].active

-----------------------------------------------------------------------------
(* The lanes' cancellation tokens are not kept apart from their activity: a *)
(* token is live exactly while its lane is active with the token's session  *)
(* and generation, which is what Publishable reads.                         *)

EpochAtOpen == IF document_epoch = 0 THEN 1 ELSE document_epoch

open_session ==
  /\ session < MaxSession
  /\ EpochAtOpen <= MaxDocumentEpoch
  /\ ~StillOwned(EpochAtOpen)
  /\ document_epoch' = EpochAtOpen
  /\ session_document_epoch' = EpochAtOpen
  /\ lanes' = [l \in TransferLane |-> [generation |-> 0, active |-> FALSE]]
  /\ session' = session + 1
  /\ max_generation' = 0
  /\ acknowledged_release_ids' = {}
  /\ phase5_evidence' = {}
  /\ UNCHANGED <<in_flight_credits_by_owner, held_credits_by_owner, work>>

(* Mutant: a page load also forgets what native tasks still prepare.        *)
document_started_reclaims_all ==
  /\ document_epoch < MaxDocumentEpoch
  /\ document_epoch' = document_epoch + 1
  /\ session_document_epoch' = 0
  /\ lanes' = [l \in TransferLane |-> [lanes[l] EXCEPT !.active = FALSE]]
  /\ held_credits_by_owner' = {}
  /\ in_flight_credits_by_owner' = {}
  /\ acknowledged_release_ids' = {}
  /\ phase5_evidence' = {}
  /\ UNCHANGED <<session, max_generation, work>>

(* A native page load replaces the JavaScript document: what was delivered  *)
(* to it is reclaimed, what native tasks still prepare stays charged.       *)
document_started ==
  /\ document_epoch < MaxDocumentEpoch
  /\ document_epoch' = document_epoch + 1
  /\ session_document_epoch' = 0
  /\ lanes' = [l \in TransferLane |-> [lanes[l] EXCEPT !.active = FALSE]]
  /\ held_credits_by_owner' = {}
  /\ acknowledged_release_ids' = {}
  /\ phase5_evidence' = {}
  /\ UNCHANGED <<session, max_generation, in_flight_credits_by_owner, work>>

(* Mutant: the newest generation may be begun again, on the other lane.     *)
BeginAccepted_again(s, g) == g > 0 /\ ensure_session(s) /\ g >= max_generation

BeginAccepted(s, g) == g > 0 /\ ensure_session(s) /\ g > max_generation

begin(s, l, g) ==
  /\ BeginAccepted(s, g)
  /\ lanes' = [lanes EXCEPT ![l] = [generation |-> g, active |-> TRUE]]
  /\ max_generation' = g
  /\ phase5_evidence' = IF l = "site" THEN {} ELSE phase5_evidence
  /\ UNCHANGED <<document_epoch, session, session_document_epoch,
                 in_flight_credits_by_owner, held_credits_by_owner,
                 acknowledged_release_ids, work>>

cancel(s, l, g) ==
  /\ ensure_current(s, l, g)
  /\ lanes' = [lanes EXCEPT ![l].active = FALSE]
  /\ UNCHANGED <<document_epoch, session, session_document_epoch, max_generation,
                 in_flight_credits_by_owner, held_credits_by_owner,
                 acknowledged_release_ids, phase5_evidence, work>>

(* Mutant: one credit too many.                                             *)
AcquireAccepted_at_limit(s, l, g) ==
  /\ ensure_current(s, l, g)
  /\ lanes[l].active
  /\ credits_in_use(l) <= TRANSFER_CREDIT_LIMIT

(* A request takes its credit before any native work starts, then runs.     *)
AcquireAccepted(s, l, g) ==
  /\ ensure_current(s, l, g)
  /\ lanes[l].active
  /\ credits_in_use(l) < TRANSFER_CREDIT_LIMIT

acquire(r, s, l, g) ==
  /\ AcquireAccepted(s, l, g)
  /\ \A c \in held_credits_by_owner \cup in_flight_credits_by_owner \cup work :
        c.request # r
  /\ in_flight_credits_by_owner' = in_flight_credits_by_owner
                                     \cup {[request |-> r, session |-> s, lane |-> l]}
  /\ work' = work \cup {[request |-> r, session |-> s, lane |-> l, generation |-> g]}
  /\ UNCHANGED <<document_epoch, session, session_document_epoch, max_generation,
                 lanes, held_credits_by_owner, acknowledged_release_ids,
                 phase5_evidence>>

release(s, g, id) ==
  /\ id \notin acknowledged_release_ids
  /\ \E c \in held_credits_by_owner :
        /\ c.session = s
        /\ c.generation = g
        /\ \/ c.lane = "site"
           \/ \A d \in HeldOfLane("site") : ~(d.session = s /\ d.generation = g)
        /\ held_credits_by_owner' = held_credits_by_owner \ {c}
  /\ acknowledged_release_ids' = acknowledged_release_ids \cup {id}
  /\ UNCHANGED <<document_epoch, session, session_document_epoch, max_generation,
                 lanes, in_flight_credits_by_owner, phase5_evidence, work>>

(* The task ends without a payload: an error, an unwinding cancellation, or *)
(* the drop of its guard after the request's timeout.                       *)
finish_without_publish(t) ==
  /\ t \in work
  /\ \E c \in InFlightOfOwner(t.session, t.lane) :
        in_flight_credits_by_owner' = in_flight_credits_by_owner \ {c}
  /\ work' = work \ {t}
  /\ UNCHANGED <<document_epoch, session, session_document_epoch, max_generation,
                 lanes, held_credits_by_owner, acknowledged_release_ids,
                 phase5_evidence>>

(* Mutant: a superseded completion is refused before its credit is taken.   *)
complete_for_publish_keeps_stale(t) ==
  /\ t \in work
  /\ IF Publishable(t.session, t.lane, t.generation)
       THEN \E c \in InFlightOfOwner(t.session, t.lane) :
              /\ in_flight_credits_by_owner' = in_flight_credits_by_owner \ {c}
              /\ held_credits_by_owner' = held_credits_by_owner
                   \cup {[request |-> c.request, session |-> t.session,
                          lane |-> t.lane, generation |-> t.generation]}
       ELSE UNCHANGED <<in_flight_credits_by_owner, held_credits_by_owner>>
  /\ work' = work \ {t}
  /\ UNCHANGED <<document_epoch, session, session_document_epoch, max_generation,
                 lanes, acknowledged_release_ids>>

(* The task ends with a payload.  Its credit leaves the in-flight counter   *)
(* in every case; it is held only while the task's generation may publish.  *)
complete_for_publish(t) ==
  /\ t \in work
  /\ \E c \in InFlightOfOwner(t.session, t.lane) :
        /\ in_flight_credits_by_owner' = in_flight_credits_by_owner \ {c}
        /\ held_credits_by_owner' =
             IF Publishable(t.session, t.lane, t.generation)
               THEN held_credits_by_owner
                      \cup {[request |-> c.request, session |-> t.session,
                             lane |-> t.lane, generation |-> t.generation]}
               ELSE held_credits_by_owner
  /\ work' = work \ {t}
  /\ UNCHANGED <<document_epoch, session, session_document_epoch, max_generation,
                 lanes, acknowledged_release_ids>>

(* Only live Site sweeps leave evidence, and only when they publish.        *)
complete_phase5_for_publish(t) ==
  /\ t.lane = "site"
  /\ complete_for_publish(t)
  /\ phase5_evidence' =
       IF Publishable(t.session, t.lane, t.generation)
         THEN phase5_evidence \cup {[session |-> t.session, generation |-> t.generation]}
         ELSE phase5_evidence

-----------------------------------------------------------------------------
Control ==
  \/ open_session
  \/ document_started
  \/ \E s \in Session, l \in TransferLane, g \in Generation :
        begin(s, l, g) \/ cancel(s, l, g)

Transfer ==
  \/ \E r \in Request, s \in Session, l \in TransferLane, g \in Generation :
        acquire(r, s, l, g)
  \/ \E s \in Session, g \in Generation, id \in ReleaseId : release(s, g, id)

TaskEnds(t) ==
  \/ finish_without_publish(t)
  \/ complete_for_publish(t) /\ UNCHANGED phase5_evidence
  \/ complete_phase5_for_publish(t)

Next == Control \/ Transfer \/ \E t \in Task : TaskEnds(t)

Spec == Init /\ [][Next]_vars

(* Every native task ends: it runs under its own time limits and polls its  *)
(* cancellation token.  Nothing else is promised to happen.                 *)
FairSpec ==
  Spec /\ \A s \in Session : WF_vars(\E t \in work : t.session = s /\ TaskEnds(t))

-----------------------------------------------------------------------------
(* No lane ever has more than its two credits in use, whatever mixture of   *)
(* delivered buffers, running tasks, tasks of superseded generations and    *)
(* tasks of earlier documents they are (acquire's limit check, and every    *)
(* place a credit moves).                                                   *)
LaneCreditBound ==
  \A l \in TransferLane : credits_in_use(l) <= TRANSFER_CREDIT_LIMIT

(* The in-flight counter of a session and lane counts exactly the native    *)
(* tasks still running for it, across generations, cancellations, page      *)
(* loads and new sessions: native work stays charged until it ends and is   *)
(* uncharged once.                                                          *)
InFlightMatchesWork ==
  \A s \in Session, l \in TransferLane :
     Cardinality(InFlightOfOwner(s, l)) =
       Cardinality({t \in work : t.session = s /\ t.lane = l})

(* A delivered credit always belongs to the session the current document    *)
(* opened, so a page load never strands one under an owner nobody can name, *)
(* and to a generation that session has begun.                              *)
HeldCreditsAreReachable ==
  \A c \in held_credits_by_owner :
     /\ c.session = session
     /\ session_document_epoch = document_epoch
     /\ c.generation \in 1 .. max_generation

(* A release names a session and a generation only.  The broker can find    *)
(* its lane because no generation of a session ever delivered on two lanes. *)
ReleaseFindsItsLane ==
  \A c, d \in held_credits_by_owner :
     c.session = d.session /\ c.generation = d.generation => c.lane = d.lane

(* Evidence kept for live sweeps describes the Site generation a lookup may *)
(* ask for, never a superseded generation or an earlier session.            *)
EvidenceIsCurrent ==
  \A e \in phase5_evidence :
     e.session = session /\ e.generation = lanes["site"].generation

(* Credits charged to an earlier session come back: its native tasks end    *)
(* and nothing can be charged to it again.                                  *)
OrphanedWorkDrains ==
  \A s \in Session, l \in TransferLane : session > s ~> InFlightOfOwner(s, l) = {}
=============================================================================
