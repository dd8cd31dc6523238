--------------------------- MODULE NationalHistory ---------------------------
(***************************************************************************)
(* The National history store and the commands that change it              *)
(* (src-tauri/src/national_history.rs).  A command that prepares an        *)
(* observation reads the store under its lock, downloads and decodes with  *)
(* no lock held, and takes the lock again to stage what it has; a commit   *)
(* checks its generation's token before it takes the lock.  Any number of  *)
(* these commands may be under way together, and the generation may be     *)
(* superseded, or the page replaced, between any two of their steps.       *)
(*                                                                         *)
(* An observation is its time: object key and content hash go with it.     *)
(* Memory is counted in units, one for a retained encoding, one for an     *)
(* exact pyramid kept beside it and one for a detailed presentation.       *)
(***************************************************************************)
EXTENDS Integers, Sequences, SequencesExt

CONSTANTS
  Command,        (* asynchronous commands that may be under way together   *)
  HISTORY_LIMIT,  (* observations retained                                  *)
  BACKEND_TARGET, (* memory units the store may use                         *)
  MaxTime,        (* bound: observations the provider publishes             *)
  MaxGeneration,  (* bound: generations of the first document; each later   *)
                  (* one has one less, and one that used all is the last    *)
  MaxDocument     (* bound: documents (page loads)                          *)

ASSUME LimitAssumption == HISTORY_LIMIT \in Nat \ {0}
(* One observation with its exact pyramid always fits.                      *)
ASSUME TargetAssumption == BACKEND_TARGET \in Nat /\ BACKEND_TARGET >= 2
ASSUME BoundAssumption ==
  MaxTime \in Nat \ {0} /\ MaxGeneration \in Nat /\ MaxDocument \in Nat \ {0}

Time       == 1 .. MaxTime
Generation == 1 .. MaxGeneration
Frame      == [generation: Generation, time: Time]
Token      == [document: 1 .. MaxDocument, generation: Generation]
Kind       == {"current", "predecessor", "newer"}

Staged == [kind: Kind, frame: Frame]
ReversibleCommit == [observation: Frame, retained: Seq(Frame),
                     backfill_candidates: Seq(Time), detail: SUBSET Frame]
Work == [kind: Kind \cup {"commit", "presentation"}, token: Token,
         seen: SUBSET Time,        (* the time read from the store when it started *)
         frame: SUBSET Frame,      (* the observation, once it is acquired         *)
         backfill_candidates: Seq(Time)]

VARIABLES
  published,  (* the provider's inventory is 1 .. published                 *)
  document, begun, (* the loaded document and the last generation it began  *)
  live,       (* the broker's live National token, if any                   *)
  opened,     (* tokens whose current observation was asked for             *)
  (* the store; a field that may be empty is a set of at most one value     *)
  generation, retained, staged, backfill_candidates, detail,
  reversible_commit, last_finalized_commit,
  exact_pyramid, (* frames whose exact pyramid is still kept                *)
  running     (* per command: what it is doing, if anything                 *)

broker == <<document, begun, live, opened>>
store  == <<generation, retained, staged, backfill_candidates, detail,
            reversible_commit, last_finalized_commit, exact_pyramid>>
vars   == <<published, broker, store, running>>

AtMostOne(S) == \A x, y \in S : x = y

Init ==
  /\ published \in Time
  /\ document = 1
  /\ begun = 0
  /\ live = {}
  /\ opened = {}
  /\ generation = 0
  /\ retained = <<>>
  /\ staged = {}
  /\ backfill_candidates = <<>>
  /\ detail = {}
  /\ reversible_commit = {}
  /\ last_finalized_commit = {}
  /\ exact_pyramid = {}
  /\ running = [c \in Command |-> {}]

-----------------------------------------------------------------------------
(* Memory.                                                                  *)

Held(S, exact) == Cardinality(S) + Cardinality(S \cap exact)

(* What only the rollback journal still holds counts once; the sum is taken *)
(* with the pyramids and the presentation that are given.                   *)
BytesWith(exact, shown) ==
  LET prior == UNION {ToSet(r.retained) : r \in reversible_commit}
      before == UNION {r.detail : r \in reversible_commit}
  IN  Held(ToSet(retained) \cup prior, exact)
        + Held({s.frame : s \in staged}, exact)
        + Cardinality(shown \cup before)

total_bytes == BytesWith(exact_pyramid, detail)

-----------------------------------------------------------------------------
(* The world around the store.                                              *)

publish ==
  /\ published < MaxTime
  /\ published' = published + 1
  /\ UNCHANGED <<broker, store, running>>

(* Beginning a generation supersedes the token of the previous one.         *)
begin(g) ==
  /\ g > begun
  /\ g + document <= MaxGeneration + 1
  /\ begun' = g
  /\ live' = {[document |-> document, generation |-> g]}
  /\ UNCHANGED <<published, document, opened, store, running>>

cancel ==
  /\ live # {}
  /\ live' = {}
  /\ UNCHANGED <<published, document, begun, opened, store, running>>

(* A new document counts its generations from one again; the store, which   *)
(* outlives it, knows no documents.                                         *)
document_started ==
  /\ document < MaxDocument /\ begun < MaxGeneration
  /\ document' = document + 1
  /\ begun' = 0
  /\ live' = {}
  /\ UNCHANGED <<published, opened, store, running>>

-----------------------------------------------------------------------------
(* Preparing an observation.                                                *)

Start(c, work) ==
  /\ running[c] = {}
  /\ work.token \in live
  /\ running' = [running EXCEPT ![c] = {work}]
  /\ UNCHANGED <<published, document, begun, live, store>>

Preparation(kind, token, seen) ==
  [kind |-> kind, token |-> token, seen |-> seen, frame |-> {},
   backfill_candidates |-> <<>>]

(* The frontend asks once, right after it began the generation.             *)
prepare_current(c) ==
  \E token \in live \ opened :
     /\ Start(c, Preparation("current", token, {}))
     /\ opened' = opened \cup {token}

(* With a predecessor already staged the command answers with that frame    *)
(* again and changes nothing, so only the fresh preparation is a step.      *)
prepare_predecessor(c) ==
  /\ staged = {} /\ reversible_commit = {}
  /\ retained # <<>>
  /\ backfill_candidates # <<>>
  /\ Head(backfill_candidates) < Head(retained).time
  /\ UNCHANGED opened
  /\ \E token \in live :
        /\ token.generation = generation
        /\ Start(c, Preparation("predecessor", token, {Head(backfill_candidates)}))

prepare_newer(c) ==
  /\ staged = {} /\ reversible_commit = {}
  /\ retained # <<>>
  /\ UNCHANGED opened
  /\ \E token \in live :
        /\ token.generation = generation
        /\ Start(c, Preparation("newer", token, {Last(retained).time}))

(* Mutant: one more than the history has room for.                          *)
Predecessors_one_more(newest) ==
  [i \in 1 .. (IF newest < HISTORY_LIMIT THEN newest - 1 ELSE HISTORY_LIMIT)
     |-> newest - i]

(* The newest HISTORY_LIMIT observations, the newest of them apart.         *)
Predecessors(newest) ==
  [i \in 1 .. (IF newest < HISTORY_LIMIT THEN newest ELSE HISTORY_LIMIT) - 1
     |-> newest - i]

AcquiredTime(work) ==
  IF work.kind = "predecessor" THEN work.seen ELSE {published}

(* Discovery, download and decode.  The token is checked last of all, but   *)
(* before the store is locked; the inventory must have something strictly   *)
(* newer for a newer observation.                                           *)
acquire_overview(c) ==
  \E work \in running[c] :
     /\ work.kind \in Kind
     /\ work.frame = {}
     /\ work.token \in live
     /\ work.kind = "newer" => \A t \in work.seen : published > t
     /\ running' = [running EXCEPT ![c] =
          {[work EXCEPT
              !.frame = {[generation |-> work.token.generation, time |-> t] :
                           t \in AcquiredTime(work)},
              !.backfill_candidates = IF work.kind = "current"
                                        THEN Predecessors(published) ELSE <<>>]}]
     /\ UNCHANGED <<published, broker, store>>

ensure_no_stage == staged = {} /\ reversible_commit = {}

(* The current observation of a generation empties the store for itself.    *)
stage_current(c) ==
  \E work \in running[c] : \E f \in work.frame :
     /\ work.kind = "current"
     /\ generation' = work.token.generation
     /\ retained' = <<>>
     /\ staged' = {[kind |-> "current", frame |-> f]}
     /\ backfill_candidates' = work.backfill_candidates
     /\ detail' = {}
     /\ reversible_commit' = {}
     /\ last_finalized_commit' = {}
     /\ exact_pyramid' = {f}
     /\ running' = [running EXCEPT ![c] = {}]
     /\ UNCHANGED <<published, broker>>

stage(c) ==
  \E work \in running[c] : \E f \in work.frame :
     /\ work.kind \in {"predecessor", "newer"}
     /\ generation = f.generation
     /\ ensure_no_stage
     /\ total_bytes + 1 <= BACKEND_TARGET
     /\ staged' = {[kind |-> work.kind, frame |-> f]}
     /\ running' = [running EXCEPT ![c] = {}]
     /\ UNCHANGED <<published, broker, generation, retained, backfill_candidates,
                    detail, reversible_commit, last_finalized_commit, exact_pyramid>>

(* A command ends without changing the store: a failed download, a token    *)
(* superseded at a check, or a refusal of the store.                        *)
command_fails(c) ==
  /\ running[c] # {}
  /\ running' = [running EXCEPT ![c] = {}]
  /\ UNCHANGED <<published, broker, store>>

-----------------------------------------------------------------------------
(* Committing, finalizing and rolling back.                                 *)

commit_national_history_frame(c, f) ==
  \E token \in live :
     /\ token.generation = f.generation
     /\ UNCHANGED opened
     /\ Start(c, [kind |-> "commit", token |-> token, seen |-> {}, frame |-> {f},
                  backfill_candidates |-> <<>>])

(* Where a staged observation may join the retained ones.                   *)
InPlace(s) ==
  CASE s.kind = "current"     -> retained = <<>>
    [] s.kind = "predecessor" -> retained # <<>> => s.frame.time < Head(retained).time
    [] s.kind = "newer"       -> retained # <<>> => s.frame.time > Last(retained).time

Joined(s) ==
  IF s.kind = "predecessor" THEN <<s.frame>> \o retained ELSE Append(retained, s.frame)

evict(frames) == IF Len(frames) > HISTORY_LIMIT THEN Tail(frames) ELSE frames

(* Mutant: a candidate is dropped when anything is committed.               *)
Consumed_by_any(s) == backfill_candidates # <<>>

Consumed(s) ==
  s.kind = "predecessor" /\ backfill_candidates # <<>>
    /\ Head(backfill_candidates) = s.frame.time

commit_staged(c) ==
  \E work \in running[c] : \E s \in staged :
     /\ work.kind = "commit"
     /\ work.frame = {s.frame}
     /\ generation = s.frame.generation
     /\ reversible_commit = {}
     /\ \A i \in 1 .. Len(retained) : retained[i].time # s.frame.time
     /\ InPlace(s)
     /\ reversible_commit' = {[observation |-> s.frame, retained |-> retained,
                               backfill_candidates |-> backfill_candidates,
                               detail |-> detail]}
     /\ retained' = evict(Joined(s))
     /\ backfill_candidates' = IF Consumed(s) THEN Tail(backfill_candidates)
                                              ELSE backfill_candidates
     /\ staged' = {}
     /\ last_finalized_commit' = {}
     /\ running' = [running EXCEPT ![c] = {}]
     /\ UNCHANGED <<published, broker, generation, detail, exact_pyramid>>

(* Sealing a newer observation also drops the exact pyramids it supersedes. *)
AppendedNewest(f) == Len(retained) > 1 /\ Last(retained) = f

finalize_commit(f) ==
  /\ generation = f.generation
  /\ \E r \in reversible_commit : r.observation = f
  /\ reversible_commit' = {}
  /\ last_finalized_commit' = {f}
  /\ exact_pyramid' = IF AppendedNewest(f) THEN exact_pyramid \ ToSet(retained)
                                           ELSE exact_pyramid
  /\ UNCHANGED <<published, broker, generation, retained, staged,
                 backfill_candidates, detail, running>>

rollback_staged(f) ==
  /\ generation = f.generation
  /\ \E s \in staged : s.frame = f
  /\ staged' = {}
  /\ UNCHANGED <<published, broker, generation, retained, backfill_candidates, detail,
                 reversible_commit, last_finalized_commit, exact_pyramid, running>>

(* Mutant: the observation is removed, the evicted one is not restored.     *)
rollback_commit_removes(f) ==
  /\ generation = f.generation
  /\ staged = {}
  /\ \E r \in reversible_commit :
        /\ r.observation = f
        /\ retained' = SelectSeq(retained, LAMBDA held : held # f)
        /\ backfill_candidates' = r.backfill_candidates
        /\ detail' = r.detail
  /\ reversible_commit' = {}
  /\ UNCHANGED <<published, broker, generation, staged, last_finalized_commit,
                 exact_pyramid, running>>

rollback_commit(f) ==
  /\ generation = f.generation
  /\ staged = {}
  /\ \E r \in reversible_commit :
        /\ r.observation = f
        /\ retained' = r.retained
        /\ backfill_candidates' = r.backfill_candidates
        /\ detail' = r.detail
  /\ reversible_commit' = {}
  /\ UNCHANGED <<published, broker, generation, staged, last_finalized_commit,
                 exact_pyramid, running>>

-----------------------------------------------------------------------------
(* A detailed presentation of an observation, encoded with no lock held and *)
(* cached if the observation is still there and memory allows.              *)

find(f) ==
  /\ generation = f.generation
  /\ f \in ToSet(retained) \cup {s.frame : s \in staged}

prepare_presentation(c, f) ==
  /\ find(f)
  /\ f \notin detail
  /\ UNCHANGED opened
  /\ \E token \in live :
        /\ token.generation = f.generation
        /\ Start(c, [kind |-> "presentation", token |-> token, seen |-> {},
                     frame |-> {f}, backfill_candidates |-> <<>>])

(* Mutant: the rollback journal is left out of the account.                 *)
cache_presentation_unjournaled(c) ==
  \E work \in running[c] : \E f \in work.frame :
     /\ work.kind = "presentation"
     /\ find(f)
     /\ exact_pyramid' = exact_pyramid \ {f}
     /\ detail' = IF Held(ToSet(retained), exact_pyramid') + Cardinality(staged) + 1
                       <= BACKEND_TARGET THEN {f} ELSE {}
     /\ running' = [running EXCEPT ![c] = {}]
     /\ UNCHANGED <<published, broker, generation, retained, staged,
                    backfill_candidates, reversible_commit, last_finalized_commit>>

(* Over the target the new presentation is dropped again; the pyramid it    *)
(* took the place of, and the presentation before it, stay dropped.         *)
cache_presentation(c) ==
  \E work \in running[c] : \E f \in work.frame :
     /\ work.kind = "presentation"
     /\ find(f)
     /\ exact_pyramid' = exact_pyramid \ {f}
     /\ detail' = IF BytesWith(exact_pyramid \ {f}, {f}) <= BACKEND_TARGET THEN {f} ELSE {}
     /\ running' = [running EXCEPT ![c] = {}]
     /\ UNCHANGED <<published, broker, generation, retained, staged,
                    backfill_candidates, reversible_commit, last_finalized_commit>>

-----------------------------------------------------------------------------
CommandStep(c) ==
  \/ prepare_current(c)
  \/ prepare_predecessor(c)
  \/ prepare_newer(c)
  \/ acquire_overview(c)
  \/ stage_current(c)
  \/ stage(c)
  \/ \E f \in Frame : commit_national_history_frame(c, f)
  \/ commit_staged(c)
  \/ \E f \in Frame : prepare_presentation(c, f)
  \/ cache_presentation(c)
  \/ command_fails(c)

Next ==
  \/ publish
  \/ \E g \in Generation : begin(g)
  \/ cancel
  \/ document_started
  \/ \E c \in Command : CommandStep(c)
  \/ \E f \in Frame : finalize_commit(f) \/ rollback_staged(f) \/ rollback_commit(f)

Spec == Init /\ [][Next]_vars

-----------------------------------------------------------------------------
(* Backfill never steps over an observation.  The next candidate is older   *)
(* than everything retained and, unless the history is full, the one right  *)
(* before the oldest retained observation, whatever prepared predecessors,  *)
(* newer observations, commits and rollbacks have met on the way.           *)
BackfillLeavesNoHole ==
  backfill_candidates # <<>> =>
    \A i \in 1 .. Len(retained) :
       Head(backfill_candidates) < retained[i].time
         /\ \A t \in Head(backfill_candidates) + 1 .. Head(retained).time - 1 :
              Len(retained) = HISTORY_LIMIT

(* What the rollback journal restores has room in memory, whatever detail   *)
(* was cached meanwhile: everything held never exceeds the target, as long  *)
(* as no task of a replaced document takes part.                            *)
TotalWithinTarget == document = 1 => total_bytes <= BACKEND_TARGET

Times(frames) == [i \in 1 .. Len(frames) |-> frames[i].time]

Ledger == INSTANCE ReversibleHistory WITH
  Limit    <- HISTORY_LIMIT,
  settled  <- IF reversible_commit = {} THEN Times(retained)
                ELSE Times((CHOOSE r \in reversible_commit : TRUE).retained),
  proposed <- IF reversible_commit = {} THEN <<>> ELSE <<Times(retained)>>

(* The store is a reversible history: every commit proposes one observation *)
(* more and can be taken back exactly, although commits, rollbacks and      *)
(* presentations of several commands interleave.                            *)
ImplementsReversibleHistory == Ledger!Spec
=============================================================================
