-------------------------- MODULE TransferProtocol --------------------------
(***************************************************************************)
(* The frontend transfer client (src/packed-sweep/transferClient.ts,       *)
(* PackedSweepTransferClient) driving the native broker over the           *)
(* asynchronous IPC.  The broker's state and steps are TransferBroker's;   *)
(* this module adds the client, the calls and answers in transit, and the  *)
(* page load that replaces the client's document while calls and native    *)
(* tasks of the old document are still under way.                          *)
(*                                                                         *)
(* Calls may arrive in any order.  An answer to begin, and a payload,      *)
(* reaches its document unless that document is replaced first; a release  *)
(* call or its answer may be lost any number of times, which is why the    *)
(* client keeps the acknowledgement and repeats it under the same id.      *)
(***************************************************************************)
EXTENDS TransferBroker

CONSTANT MaxBegins  (* bound: begins that wait for acknowledgements at once *)

VARIABLES
  client_session, client_max_generation,
  client_lanes,          (* the client's own view of each lane               *)
  pending_release_acks,  (* acknowledgements the backend has not confirmed   *)
  flushing,              (* operations waiting for the acknowledgements that *)
                         (* were pending when they started                   *)
  begin_calls, begin_replies, cancel_calls, request_calls,
  release_calls,         (* release invocations ever sent; one may arrive    *)
                         (* late, again, or never                            *)
  responses,             (* published payloads on their way to the document  *)
  leases,                (* payloads the application is using                *)
  fresh                  (* requests not made yet: each has its own release id *)

(* A payload is released under an id of its own, which its request names.   *)
ASSUME ReleaseIdAssumption == Request \subseteq ReleaseId
ASSUME RequestAssumption == "begin" \notin Request

clientVars == <<client_session, client_max_generation, client_lanes,
                pending_release_acks, flushing, leases>>
transitVars == <<begin_calls, begin_replies, cancel_calls, request_calls,
                 release_calls, responses, fresh>>
allVars == <<vars, clientVars, transitVars>>

Ack         == [session: Session, generation: Generation, release_id: ReleaseId]
ControlCall == [session: Session, lane: TransferLane, generation: Generation]
Flush       == [request: Request \cup {"begin"}, lane: TransferLane,
                generation: Generation, need: SUBSET Ack]

NoLanes == [l \in TransferLane |-> [generation |-> 0, active |-> FALSE]]

ProtocolInit ==
  /\ Init
  /\ client_session = 0
  /\ client_max_generation = 0
  /\ client_lanes = NoLanes
  /\ pending_release_acks = {}
  /\ flushing = {}
  /\ begin_calls = {}
  /\ begin_replies = {}
  /\ cancel_calls = {}
  /\ request_calls = {}
  /\ release_calls = {}
  /\ responses = {}
  /\ leases = {}
  /\ fresh = Request

-----------------------------------------------------------------------------
(* The document.                                                            *)

(* The page is loaded again: everything the old client knew is gone, what   *)
(* it sent and what runs for it is not. To bound the counters, each session *)
(* has one generation less than the one before, and a document whose        *)
(* session used them all is not replaced.                                   *)
PageLoad ==
  /\ client_max_generation < MaxGeneration
  /\ document_started
  /\ client_session' = 0
  /\ client_max_generation' = 0
  /\ client_lanes' = NoLanes
  /\ pending_release_acks' = {}
  /\ flushing' = {}
  /\ leases' = {}
  /\ begin_replies' = {}
  /\ responses' = {}
  /\ UNCHANGED <<begin_calls, cancel_calls, request_calls, release_calls, fresh>>

(* Each document opens one session, before it does anything else.           *)
open ==
  /\ client_session = 0
  /\ open_session
  /\ client_session' = session'
  /\ client_max_generation' = 0
  /\ client_lanes' = NoLanes
  /\ pending_release_acks' = {}
  /\ UNCHANGED <<flushing, leases, transitVars>>

-----------------------------------------------------------------------------
(* Beginning and cancelling a generation.                                   *)

(* Every call of the client needs a session.                                *)
assertSessionOpen == client_session # 0

beginFlush(l, g) ==
  /\ assertSessionOpen
  /\ g > client_max_generation
  /\ g + client_session <= MaxGeneration + 1
  /\ Cardinality({f \in flushing : f.request = "begin"}) < MaxBegins
  /\ flushing' = flushing \cup {[request |-> "begin", lane |-> l, generation |-> g,
                                 need |-> pending_release_acks]}
  /\ UNCHANGED <<vars, client_session, client_max_generation, client_lanes,
                 pending_release_acks, leases, transitVars>>

Flushed(f) == f.need \cap pending_release_acks = {}

(* The lane is invalidated before the backend is asked, so that payloads of *)
(* its previous generation are refused from here on.                        *)
beginInvoke(f) ==
  /\ f \in flushing
  /\ f.request = "begin"
  /\ Flushed(f)
  /\ f.generation > client_max_generation
  /\ flushing' = flushing \ {f}
  /\ client_max_generation' = f.generation
  /\ client_lanes' = [client_lanes EXCEPT
                        ![f.lane] = [generation |-> f.generation, active |-> FALSE]]
  /\ begin_calls' = begin_calls \cup {[session |-> client_session, lane |-> f.lane,
                                       generation |-> f.generation]}
  /\ UNCHANGED <<vars, client_session, pending_release_acks, leases, begin_replies,
                 cancel_calls, request_calls, release_calls, responses, fresh>>

(* An acknowledgement the operation waits for failed all its attempts, or   *)
(* the generation to begin is not the newest any more.                      *)
flushFails(f) ==
  /\ f \in flushing
  /\ ~Flushed(f) \/ (f.request = "begin" /\ f.generation <= client_max_generation)
  /\ flushing' = flushing \ {f}
  /\ UNCHANGED <<vars, client_session, client_max_generation, client_lanes,
                 pending_release_acks, leases, transitVars>>

BeginArrives(c) ==
  /\ c \in begin_calls
  /\ begin_calls' = begin_calls \ {c}
  /\ \/ /\ begin(c.session, c.lane, c.generation)
        /\ begin_replies' = IF c.session = client_session
                              THEN begin_replies \cup {c} ELSE begin_replies
     \/ /\ ~BeginAccepted(c.session, c.generation)
        /\ UNCHANGED <<vars, begin_replies>>
  /\ UNCHANGED <<clientVars, cancel_calls, request_calls, release_calls,
                 responses, fresh>>

(* Mutant: an answer to an older begin activates the lane.                  *)
beginReturns_unchecked(c) ==
  /\ c \in begin_replies
  /\ begin_replies' = begin_replies \ {c}
  /\ client_lanes' = [client_lanes EXCEPT ![c.lane].active = TRUE]
  /\ UNCHANGED <<vars, client_session, client_max_generation, pending_release_acks,
                 flushing, leases, begin_calls, cancel_calls, request_calls,
                 release_calls, responses, fresh>>

beginReturns(c) ==
  /\ c \in begin_replies
  /\ begin_replies' = begin_replies \ {c}
  /\ client_lanes' = IF client_session = c.session
                          /\ client_lanes[c.lane].generation = c.generation
                       THEN [client_lanes EXCEPT ![c.lane].active = TRUE]
                       ELSE client_lanes
  /\ UNCHANGED <<vars, client_session, client_max_generation, pending_release_acks,
                 flushing, leases, begin_calls, cancel_calls, request_calls,
                 release_calls, responses, fresh>>

cancelInvoke(l) ==
  /\ client_lanes[l].active
  /\ client_lanes' = [client_lanes EXCEPT ![l].active = FALSE]
  /\ cancel_calls' = cancel_calls \cup {[session |-> client_session, lane |-> l,
                                         generation |-> client_lanes[l].generation]}
  /\ UNCHANGED <<vars, client_session, client_max_generation, pending_release_acks,
                 flushing, leases, begin_calls, begin_replies, request_calls,
                 release_calls, responses, fresh>>

CancelArrives(c) ==
  /\ c \in cancel_calls
  /\ cancel_calls' = cancel_calls \ {c}
  /\ \/ cancel(c.session, c.lane, c.generation)
     \/ /\ ~ensure_current(c.session, c.lane, c.generation)
        /\ UNCHANGED vars
  /\ UNCHANGED <<clientVars, begin_calls, begin_replies, request_calls,
                 release_calls, responses, fresh>>

-----------------------------------------------------------------------------
(* Requesting a payload.                                                    *)

requestFlush(r, l) ==
  /\ assertSessionOpen
  /\ r \in fresh
  /\ fresh' = fresh \ {r}
  /\ flushing' = flushing \cup {[request |-> r, lane |-> l, generation |-> 0,
                                 need |-> pending_release_acks]}
  /\ UNCHANGED <<vars, client_session, client_max_generation, client_lanes,
                 pending_release_acks, leases, begin_calls, begin_replies,
                 cancel_calls, request_calls, release_calls, responses>>

(* The session and generation are those of the lane after the flush.        *)
requestInvoke(f) ==
  /\ f \in flushing
  /\ f.request # "begin"
  /\ Flushed(f)
  /\ flushing' = flushing \ {f}
  /\ request_calls' =
       IF client_lanes[f.lane].active
         THEN request_calls \cup {[request |-> f.request, session |-> client_session,
                                   lane |-> f.lane,
                                   generation |-> client_lanes[f.lane].generation]}
         ELSE request_calls
  /\ UNCHANGED <<vars, client_session, client_max_generation, client_lanes,
                 pending_release_acks, leases, begin_calls, begin_replies,
                 cancel_calls, release_calls, responses, fresh>>

RequestArrives(t) ==
  /\ t \in request_calls
  /\ request_calls' = request_calls \ {t}
  /\ \/ acquire(t.request, t.session, t.lane, t.generation)
     \/ /\ ~AcquireAccepted(t.session, t.lane, t.generation)
        /\ UNCHANGED vars
  /\ UNCHANGED <<clientVars, begin_calls, begin_replies, cancel_calls,
                 release_calls, responses, fresh>>

(* The native task ends; a payload travels only if the broker let it        *)
(* publish, otherwise the request is answered with an error.                *)
TaskReturns(t) ==
  /\ \/ /\ \/ complete_for_publish(t) /\ UNCHANGED phase5_evidence
           \/ complete_phase5_for_publish(t)
        /\ responses' = IF held_credits_by_owner' # held_credits_by_owner
                          THEN responses \cup {t} ELSE responses
     \/ /\ finish_without_publish(t)
        /\ UNCHANGED responses
  /\ UNCHANGED <<clientVars, begin_calls, begin_replies, cancel_calls,
                 request_calls, release_calls, fresh>>

-----------------------------------------------------------------------------
(* Using a payload and giving its credit back.                              *)

IsCurrentForClient(t) ==
  /\ client_lanes[t.lane].active
  /\ client_session = t.session
  /\ client_lanes[t.lane].generation = t.generation

AckOf(t) == [session |-> t.session, generation |-> t.generation,
             release_id |-> t.request]

(* Queues the acknowledgement and makes its first attempt.                  *)
acknowledgeRelease(a) ==
  /\ pending_release_acks' = pending_release_acks \cup {a}
  /\ release_calls' = release_calls \cup {a}

acceptResponse(t) ==
  /\ t \in responses
  /\ IsCurrentForClient(t)
  /\ responses' = responses \ {t}
  /\ leases' = leases \cup {t}
  /\ UNCHANGED <<vars, client_session, client_max_generation, client_lanes,
                 pending_release_acks, flushing, begin_calls, begin_replies,
                 cancel_calls, request_calls, release_calls, fresh>>

(* Mutant: a payload that does not parse is dropped unacknowledged.         *)
releaseAfterFailure_silent(t) ==
  /\ t \in responses
  /\ responses' = responses \ {t}
  /\ UNCHANGED <<vars, client_session, client_max_generation, client_lanes,
                 pending_release_acks, release_calls, flushing, leases, begin_calls,
                 begin_replies, cancel_calls, request_calls, fresh>>

(* The payload was superseded on its way or while it was parsed, or does    *)
(* not parse: its credit is returned at once.                               *)
releaseAfterFailure(t) ==
  /\ t \in responses
  /\ responses' = responses \ {t}
  /\ acknowledgeRelease(AckOf(t))
  /\ UNCHANGED <<vars, client_session, client_max_generation, client_lanes,
                 flushing, leases, begin_calls, begin_replies, cancel_calls,
                 request_calls, fresh>>

leaseRelease(t) ==
  /\ t \in leases
  /\ leases' = leases \ {t}
  /\ acknowledgeRelease(AckOf(t))
  /\ UNCHANGED <<vars, client_session, client_max_generation, client_lanes,
                 flushing, begin_calls, begin_replies, cancel_calls,
                 request_calls, responses, fresh>>

ReleaseArrives(a) ==
  /\ a \in release_calls
  /\ release(a.session, a.generation, a.release_id)
  /\ UNCHANGED <<clientVars, transitVars>>

(* A repeated release of an acknowledged id is answered like the first one. *)
releaseReturns(a) ==
  /\ a \in pending_release_acks
  /\ a.release_id \in acknowledged_release_ids
  /\ pending_release_acks' = pending_release_acks \ {a}
  /\ UNCHANGED <<vars, client_session, client_max_generation, client_lanes,
                 flushing, leases, transitVars>>

-----------------------------------------------------------------------------
ClientNext ==
  \/ open
  \/ \E l \in TransferLane, g \in Generation : beginFlush(l, g)
  \/ \E l \in TransferLane : cancelInvoke(l)
  \/ \E f \in flushing : beginInvoke(f) \/ flushFails(f) \/ requestInvoke(f)
  \/ \E r \in Request, l \in TransferLane : requestFlush(r, l)
  \/ \E c \in begin_replies : beginReturns(c)
  \/ \E t \in responses : acceptResponse(t) \/ releaseAfterFailure(t)
  \/ \E t \in leases : leaseRelease(t)
  \/ \E a \in pending_release_acks : releaseReturns(a)

BackendNext ==
  \/ \E c \in begin_calls : BeginArrives(c)
  \/ \E c \in cancel_calls : CancelArrives(c)
  \/ \E t \in request_calls : RequestArrives(t)
  \/ \E t \in work : TaskReturns(t)
  \/ \E a \in release_calls : ReleaseArrives(a)

ProtocolNext == PageLoad \/ ClientNext \/ BackendNext

ProtocolSpec == ProtocolInit /\ [][ProtocolNext]_allVars

(* Native tasks end; a payload that arrives is taken or dropped, a lease is *)
(* released when its upload ends, and a release gets through once it has    *)
(* been repeated often enough.                                              *)
ProtocolFairSpec ==
  /\ ProtocolSpec
  /\ WF_allVars(\E t \in work : TaskReturns(t))
  /\ WF_allVars(\E t \in responses : acceptResponse(t) \/ releaseAfterFailure(t))
  /\ WF_allVars(\E t \in leases : leaseRelease(t))
  /\ WF_allVars(\E a \in release_calls : ReleaseArrives(a))

-----------------------------------------------------------------------------
Unacknowledged ==
  {a \in pending_release_acks : a.release_id \notin acknowledged_release_ids}

(* A lane the client takes for active is active at the broker with the same *)
(* generation, although cancels and begins of older generations may still   *)
(* be on their way: a request made now is refused only for lack of credits. *)
ActiveLaneIsAgreed ==
  \A l \in TransferLane :
     client_lanes[l].active =>
       /\ client_session = session
       /\ session_document_epoch = document_epoch
       /\ lanes[l] = client_lanes[l]

(* Every payload the application gets is released for good, or the page is  *)
(* replaced, so a lane cannot fill up with credits nobody returns.          *)
CreditsReturn ==
  \A r \in Request :
     (\E c \in held_credits_by_owner : c.request = r)
        ~> (\A c \in held_credits_by_owner : c.request # r)

(* The lane of an acknowledgement, which names none, is that of the held    *)
(* credits of its generation.                                               *)
LaneOfAck(a) ==
  CHOOSE l \in TransferLane :
     \E c \in held_credits_by_owner : c.generation = a.generation /\ c.lane = l

Ledger == INSTANCE CreditLedger WITH
  Payload   <- Request,
  Lane      <- TransferLane,
  Limit     <- TRANSFER_CREDIT_LIMIT,
  preparing <- {<<t.request, t.lane>> : t \in work},
  delivered <- {<<t.request, t.lane>> : t \in responses \cup leases}
                 \cup {<<a.release_id, LaneOfAck(a)>> : a \in Unacknowledged}

(* Client and broker together keep the ledger: whatever is delayed, lost,   *)
(* repeated or replaced, each payload is charged to its own lane until its  *)
(* own buffer is given back, and no lane carries more than its limit.       *)
ImplementsLedger == Ledger!Spec
=============================================================================
