------------------------- MODULE NationalTransaction -------------------------
(***************************************************************************)
(* How the frontend changes the National history (src/App.tsx,             *)
(* acquireAndPaint, commitNationalHistoryMutation, runNationalBackfill and *)
(* runNationalPolling, with the loops of src/national-radar/).  One chain  *)
(* of operations prepares an observation in Rust, uploads it, commits it   *)
(* in Rust, makes it final in the renderer, seals it in Rust and publishes *)
(* it, or rolls the renderer and Rust back.  NationalHistory is the Rust   *)
(* side; the answer of each call may be lost after it took effect.         *)
(*                                                                         *)
(* One radar generation is modelled.  It may be superseded at any moment,  *)
(* and the application torn down; the next generation starts over with     *)
(* prepare_current, which empties the store (NationalHistory).             *)
(***************************************************************************)
EXTENDS NationalHistory

CONSTANTS
  chain,     (* the one command the chain may have under way               *)
  MaxRetry,  (* failed attempts at a predecessor before backfill gives up  *)
  Faults     (* which of the faults below may happen, in a run with faults *)

ASSUME ChainAssumption == Command = {chain}
ASSUME RetryAssumption == MaxRetry \in Nat \ {0}
ASSUME FaultAssumption ==
  Faults \subseteq {"prepare_lost",     (* the answer of a preparation is lost *)
                    "context_lost",     (* the WebGL context is lost           *)
                    "receipt_timeout"}  (* no repaint within the time allowed  *)

VARIABLES
  mode,      (* what the chain is doing: which loop it is in               *)
  phase,     (* within backfill: a step, between two steps, or a retry wait *)
  retries,   (* failed attempts at the current predecessor                 *)
  pc,        (* where the mutation under way stands                        *)
  kind,      (* its kind                                                   *)
  candidate, (* its observation, once it is prepared                       *)
  nationalObservations, (* the history the application shows               *)
  timeline,  (* the renderer's resident observations                       *)
  awaitingExternalCommit, (* the timeline to restore while the mutation is *)
                          (* provisional, if it is                         *)
  owned,     (* the chain's generation is still displayed or resident      *)
  cancelled, (* the application is being torn down                         *)
  disowned,  (* a history variable: a sealed mutation was counted as failed *)
  halfApplied, (* a history variable: a commit of the renderer threw when    *)
             (* its timeline was assigned, and none has become final since  *)
  faults     (* what may fail in this run: everything of Faults, or nothing *)

loops    == <<mode, phase, retries>>
mutation == <<pc, kind, candidate>>
layer    == <<timeline, awaitingExternalCommit>>
control  == <<owned, cancelled, disowned, halfApplied, faults>>
txVars   == <<vars, loops, mutation, nationalObservations, layer, control>>

TransactionInit ==
  /\ Init
  /\ mode = "closed" /\ phase = "step" /\ retries = 0
  /\ pc = "idle" /\ kind = "current" /\ candidate = {}
  /\ nationalObservations = <<>>
  /\ timeline = <<>> /\ awaitingExternalCommit = {}
  /\ owned = TRUE /\ cancelled = FALSE /\ disowned = FALSE /\ halfApplied = FALSE
  /\ faults \in {{}, Faults}

-----------------------------------------------------------------------------
(* The loops: how they go on after a mutation.                              *)

reachedLimit(observations) == Len(observations) >= HISTORY_LIMIT

(* A freshness check between two steps may have filled the history; one     *)
(* made while a retry waits leaves the wait as it is.                       *)
AfterCheck(observations) ==
  /\ UNCHANGED retries
  /\ \/ /\ phase = "between" /\ reachedLimit(observations)
        /\ mode' = "polling"
        /\ UNCHANGED phase
     \/ /\ phase = "between" /\ ~reachedLimit(observations)
        /\ phase' = "step"
        /\ UNCHANGED mode
     \/ /\ phase = "waiting"
        /\ UNCHANGED <<mode, phase>>

(* The current observation failed, and with it the transition to National;  *)
(* a predecessor is tried again MaxRetry times in all; a check or a poll    *)
(* that fails is repeated at its next time.                                 *)
Failed(k) ==
  /\ pc' = "idle"
  /\ candidate' = {}
  /\ kind' = k
  /\ UNCHANGED nationalObservations
  /\ \/ /\ mode = "current"
        /\ mode' = "stopped"
        /\ UNCHANGED <<phase, retries>>
     \/ /\ mode = "backfill" /\ k = "predecessor" /\ retries + 1 < MaxRetry
        /\ retries' = retries + 1
        /\ phase' = "waiting"
        /\ UNCHANGED mode
     \/ /\ mode = "backfill" /\ k = "predecessor" /\ retries + 1 = MaxRetry
        /\ mode' = "polling"
        /\ UNCHANGED <<phase, retries>>
     \/ /\ mode = "backfill" /\ k = "newer"
        /\ AfterCheck(nationalObservations)
     \/ /\ mode = "polling"
        /\ UNCHANGED loops

Succeeded(observations) ==
  /\ pc' = "idle"
  /\ candidate' = {}
  /\ nationalObservations' = observations
  /\ UNCHANGED kind
  /\ \/ /\ mode = "current"
        /\ mode' = "backfill"
        /\ UNCHANGED <<phase, retries>>
     \/ /\ mode = "backfill" /\ kind = "predecessor"
        /\ retries' = 0
        /\ IF reachedLimit(observations)
             THEN mode' = "polling" /\ UNCHANGED phase
             ELSE phase' = "between" /\ UNCHANGED mode
     \/ /\ mode = "backfill" /\ kind = "newer"
        /\ AfterCheck(observations)
     \/ /\ mode = "polling"
        /\ UNCHANGED loops

Superseded ==
  /\ pc' = "idle"
  /\ candidate' = {}
  /\ mode' = "stopped"
  /\ UNCHANGED <<phase, retries, kind, nationalObservations>>

-----------------------------------------------------------------------------
(* Between mutations.                                                       *)

beginExclusiveLane ==
  /\ mode = "closed"
  /\ begin(1)
  /\ mode' = "current"
  /\ UNCHANGED <<phase, retries, mutation, nationalObservations, layer, control>>

(* No check is due, or the retry's delay is over.                           *)
nextStep ==
  /\ mode = "backfill" /\ pc = "idle" /\ owned
  /\ phase \in {"between", "waiting"}
  /\ phase' = "step"
  /\ UNCHANGED <<vars, mode, retries, mutation, nationalObservations, layer, control>>

backfillCompletes ==
  /\ mode = "backfill" /\ phase = "step" /\ pc = "idle" /\ owned
  /\ staged = {} /\ reversible_commit = {} /\ backfill_candidates = <<>>
  /\ mode' = "polling"
  /\ UNCHANGED <<vars, phase, retries, mutation, nationalObservations, layer, control>>

chainStops ==
  /\ mode \in {"current", "backfill", "polling"} /\ pc = "idle" /\ ~owned
  /\ mode' = "stopped"
  /\ UNCHANGED <<vars, phase, retries, mutation, nationalObservations, layer, control>>

-----------------------------------------------------------------------------
(* Preparing in Rust.                                                       *)

Wanted(k) ==
  \/ mode = "current" /\ k = "current"
  \/ mode = "backfill" /\ phase = "step" /\ k = "predecessor"
  \/ mode = "backfill" /\ phase \in {"between", "waiting"} /\ k = "newer"
  \/ mode = "polling" /\ k = "newer"

prepare(k) ==
  /\ pc = "idle" /\ owned /\ Wanted(k)
  /\ \/ k = "current" /\ prepare_current(chain)
     \/ k = "predecessor" /\ prepare_predecessor(chain)
     \/ k = "newer" /\ prepare_newer(chain)
  /\ pc' = "preparing"
  /\ kind' = k
  /\ UNCHANGED <<candidate, loops, nationalObservations, layer, control>>

(* An observation of this kind is still staged: it is answered again.       *)
retryableStagedPreparation(k) ==
  /\ pc = "idle" /\ owned /\ Wanted(k)
  /\ live # {}
  /\ reversible_commit = {}
  /\ \E s \in staged :
        /\ s.kind = k
        /\ k = "predecessor" => backfill_candidates # <<>>
                                  /\ Head(backfill_candidates) = s.frame.time
        /\ candidate' = {s.frame}
  /\ pc' = "prepared"
  /\ kind' = k
  /\ UNCHANGED <<vars, loops, nationalObservations, layer, control>>

(* Rust refuses the call, or it does not get through.                       *)
prepareRefused(k) ==
  /\ pc = "idle" /\ owned /\ Wanted(k)
  /\ Failed(k)
  /\ UNCHANGED <<vars, layer, control>>

prepareAcquires ==
  /\ pc = "preparing"
  /\ acquire_overview(chain)
  /\ UNCHANGED <<loops, mutation, nationalObservations, layer, control>>

prepareAnswered ==
  /\ pc = "preparing"
  /\ stage_current(chain) \/ stage(chain)
  /\ pc' = "prepared"
  /\ candidate' = {s.frame : s \in staged'}
  /\ UNCHANGED <<kind, loops, nationalObservations, layer, control>>

prepareLost ==
  /\ "prepare_lost" \in faults
  /\ pc = "preparing"
  /\ stage_current(chain) \/ stage(chain)
  /\ Failed(kind)
  /\ UNCHANGED <<layer, control>>

prepareFails ==
  /\ pc = "preparing"
  /\ command_fails(chain)
  /\ Failed(kind)
  /\ UNCHANGED <<layer, control>>

-----------------------------------------------------------------------------
(* Uploading to the renderer.                                               *)

newestOf(times) ==
  IF Len(times) > HISTORY_LIMIT THEN SubSeq(times, Len(times) - HISTORY_LIMIT + 1, Len(times))
                                ELSE times

proposed(t) ==
  IF kind = "predecessor" THEN <<t>> \o nationalObservations
    ELSE newestOf(Append(nationalObservations, t))

(* Mutant: the renderer takes any timeline whose observations it has.       *)
validateResidentTimeline_any_length(times, t) ==
  ToSet(times) \subseteq ToSet(timeline) \cup {t}

(* The renderer has every observation of the timeline it is given, and the  *)
(* timeline is not too long.                                                *)
validateResidentTimeline(times, t) ==
  /\ Len(times) <= HISTORY_LIMIT
  /\ ToSet(times) \subseteq ToSet(timeline) \cup {t}

(* The mutation is painted but provisional.  The first observation replaces *)
(* whatever was resident.                                                   *)
commitStagedResidency ==
  /\ pc = "prepared" /\ owned
  /\ awaitingExternalCommit = {}
  /\ \E f \in candidate :
        LET times == IF kind = "current" THEN <<f.time>> ELSE proposed(f.time)
        IN  /\ validateResidentTimeline(times, f.time)
            /\ timeline' = times
  /\ awaitingExternalCommit' = {timeline}
  /\ pc' = "painted"
  /\ UNCHANGED <<vars, kind, candidate, loops, nationalObservations, control>>

(* The upload fails, the timeline is rejected or the chain is superseded.   *)
uploadFails ==
  /\ pc = "prepared"
  /\ pc' = "failing"
  /\ UNCHANGED <<vars, kind, candidate, loops, nationalObservations, layer, control>>

(* The observation on the screen falls out, and the one to follow it is not *)
(* uploaded again yet after a lost context: the commit throws with its      *)
(* timeline assigned and nothing noted to restore the old one from.         *)
commitStagedResidencyThrows ==
  /\ "context_lost" \in faults
  /\ pc = "prepared" /\ owned /\ kind # "current"
  /\ awaitingExternalCommit = {}
  /\ \E f \in candidate :
        /\ validateResidentTimeline(proposed(f.time), f.time)
        /\ ~(ToSet(timeline) \cup ToSet(nationalObservations)
                \subseteq ToSet(proposed(f.time)))
        /\ timeline' = proposed(f.time)
  /\ pc' = "failing"
  /\ halfApplied' = TRUE
  /\ UNCHANGED <<vars, kind, candidate, loops, nationalObservations,
                 awaitingExternalCommit, owned, cancelled, disowned, faults>>

(* A lost context restores what a provisional mutation replaced.            *)
beginRecovery ==
  /\ "context_lost" \in faults
  /\ \E times \in awaitingExternalCommit : timeline' = times
  /\ awaitingExternalCommit' = {}
  /\ UNCHANGED <<vars, loops, mutation, nationalObservations, control>>

-----------------------------------------------------------------------------
(* Committing in Rust, then in the renderer, then sealing in Rust.          *)

commit ==
  /\ pc = "painted"
  /\ owned \/ mode = "current"
  /\ \E f \in candidate : commit_national_history_frame(chain, f)
  /\ pc' = "committing"
  /\ UNCHANGED <<kind, candidate, loops, nationalObservations, layer, control>>

commitRefused ==
  /\ pc = "painted"
  /\ pc' = "failing"
  /\ UNCHANGED <<vars, kind, candidate, loops, nationalObservations, layer, control>>

commitAnswered ==
  /\ pc = "committing"
  /\ commit_staged(chain)
  /\ pc' = "committed"
  /\ UNCHANGED <<kind, candidate, loops, nationalObservations, layer, control>>

(* The commit took effect and its answer is lost, or it was refused.        *)
commitFails ==
  /\ pc = "committing"
  /\ commit_staged(chain) \/ command_fails(chain)
  /\ pc' = "failing"
  /\ UNCHANGED <<kind, candidate, loops, nationalObservations, layer, control>>

(* Mutant: a mutation the renderer has already taken back is sealed.        *)
finalizeHistoryMutation_unchecked ==
  /\ pc = "committed" /\ owned
  /\ awaitingExternalCommit' = {}
  /\ pc' = "sealing"
  /\ halfApplied' = FALSE
  /\ UNCHANGED <<vars, kind, candidate, loops, nationalObservations, timeline,
                 owned, cancelled, disowned, faults>>

finalizeHistoryMutation ==
  /\ pc = "committed" /\ owned
  /\ awaitingExternalCommit # {}
  /\ awaitingExternalCommit' = {}
  /\ pc' = "sealing"
  /\ halfApplied' = FALSE
  /\ UNCHANGED <<vars, kind, candidate, loops, nationalObservations, timeline,
                 owned, cancelled, disowned, faults>>

finalizeRefused ==
  /\ pc = "committed"
  /\ ~owned \/ awaitingExternalCommit = {}
  /\ pc' = "failing"
  /\ UNCHANGED <<vars, kind, candidate, loops, nationalObservations, layer, control>>

(* The answer may be lost; the call is repeated without end.                *)
finalizeNationalHistory ==
  /\ pc = "sealing"
  /\ \E f \in candidate : finalize_commit(f)
  /\ pc' \in {"sealing", "sealed"}
  /\ UNCHANGED <<kind, candidate, loops, nationalObservations, layer, control>>

(* A repeated call confirms the seal, or a snapshot does, which the client  *)
(* asks for as long as the lane is active.                                  *)
recoverFinalized ==
  /\ pc = "sealing"
  /\ \/ reversible_commit = {} /\ candidate \cap last_finalized_commit # {}
     \/ /\ live # {}
        /\ staged = {} /\ reversible_commit = {}
        /\ candidate \cap ToSet(retained) # {}
  /\ pc' = "sealed"
  /\ UNCHANGED <<vars, kind, candidate, loops, nationalObservations, layer, control>>

publishNationalHistory ==
  /\ pc = "sealed" /\ owned
  /\ Succeeded(Times(retained))
  /\ UNCHANGED <<vars, layer, control>>

publishSuperseded ==
  /\ pc = "sealed" /\ ~owned
  /\ Superseded
  /\ UNCHANGED <<vars, layer, control>>

(* The context does not recover in time: the mutation counts as failed      *)
(* although it is final everywhere.                                         *)
waitForAuthoritativeReceiptFails ==
  /\ "receipt_timeout" \in faults
  /\ pc = "sealed"
  /\ Failed(kind)
  /\ disowned' = TRUE
  /\ UNCHANGED <<vars, layer, owned, cancelled, halfApplied, faults>>

-----------------------------------------------------------------------------
(* Rolling back.                                                            *)

rollbackHistoryMutation ==
  /\ pc = "failing"
  /\ timeline' = IF awaitingExternalCommit = {} THEN timeline
                   ELSE CHOOSE times \in awaitingExternalCommit : TRUE
  /\ awaitingExternalCommit' = {}
  /\ pc' = "rollingBack"
  /\ UNCHANGED <<vars, kind, candidate, loops, nationalObservations, control>>

(* Mutant: one attempt at the rollback has to do.                           *)
rollbackNationalHistory_once ==
  /\ pc = "rollingBack"
  /\ \/ \E f \in candidate : rollback_staged(f) \/ rollback_commit(f)
     \/ UNCHANGED vars
  /\ Failed(kind)
  /\ UNCHANGED <<layer, control>>

(* The answer may be lost; the call is repeated without end.                *)
rollbackNationalHistory ==
  /\ pc = "rollingBack"
  /\ \E f \in candidate : rollback_staged(f) \/ rollback_commit(f)
  /\ \/ Failed(kind)
     \/ UNCHANGED <<loops, mutation, nationalObservations>>
  /\ UNCHANGED <<layer, control>>

(* A snapshot proves that nothing of the mutation is left.  The client asks *)
(* for one only while the lane is active: after that, a rollback done whose *)
(* answer was lost is called again until the next generation's store        *)
(* refuses it.                                                              *)
recoverRolledBack ==
  /\ pc = "rollingBack"
  /\ live # {}
  /\ staged = {} /\ reversible_commit = {}
  /\ \A f \in candidate : f \notin ToSet(retained)
  /\ Failed(kind)
  /\ UNCHANGED <<vars, layer, control>>

(* Only a torn down application stops repeating.                            *)
settlingCancelled ==
  /\ cancelled
  /\ pc \in {"sealing", "rollingBack"}
  /\ Superseded
  /\ UNCHANGED <<vars, layer, control>>

-----------------------------------------------------------------------------
(* The generation is superseded; its lane is cancelled with it or later.    *)
supersede ==
  /\ owned
  /\ owned' = FALSE
  /\ UNCHANGED <<vars, loops, mutation, nationalObservations, layer,
                 cancelled, disowned, halfApplied, faults>>

cancelLane ==
  /\ ~owned
  /\ cancel
  /\ UNCHANGED <<loops, mutation, nationalObservations, layer, control>>

teardown ==
  /\ ~cancelled
  /\ cancelled' = TRUE
  /\ owned' = FALSE
  /\ UNCHANGED <<vars, loops, mutation, nationalObservations, layer,
                 disowned, halfApplied, faults>>

observationPublished ==
  /\ publish
  /\ UNCHANGED <<loops, mutation, nationalObservations, layer, control>>

-----------------------------------------------------------------------------
ChainNext ==
  \/ beginExclusiveLane \/ nextStep \/ backfillCompletes \/ chainStops
  \/ \E k \in Kind : prepare(k) \/ retryableStagedPreparation(k) \/ prepareRefused(k)
  \/ prepareAcquires \/ prepareAnswered \/ prepareLost \/ prepareFails
  \/ commitStagedResidency \/ commitStagedResidencyThrows \/ uploadFails
  \/ commit \/ commitRefused \/ commitAnswered \/ commitFails
  \/ finalizeHistoryMutation \/ finalizeRefused
  \/ finalizeNationalHistory \/ recoverFinalized
  \/ publishNationalHistory \/ publishSuperseded \/ waitForAuthoritativeReceiptFails
  \/ rollbackHistoryMutation \/ rollbackNationalHistory \/ recoverRolledBack
  \/ settlingCancelled

EnvironmentNext ==
  beginRecovery \/ supersede \/ cancelLane \/ teardown \/ observationPublished

TransactionNext == ChainNext \/ EnvironmentNext

TransactionSpec == TransactionInit /\ [][TransactionNext]_txVars

(* The chain never stands still; what is repeated without end gets through  *)
(* in the end; and an attempt made again and again, a preparation, an       *)
(* upload or a commit, does not fail every time.                            *)
TransactionFairSpec ==
  /\ TransactionSpec
  /\ WF_txVars(ChainNext)
  /\ WF_txVars(recoverFinalized)
  /\ WF_txVars(recoverRolledBack \/ (rollbackNationalHistory /\ pc' # pc))
  /\ SF_txVars(\E k \in Kind : prepare(k) \/ retryableStagedPreparation(k))
  /\ SF_txVars(prepareAcquires)
  /\ SF_txVars(prepareAnswered)
  /\ SF_txVars(commitStagedResidency)
  /\ SF_txVars(commit)
  /\ SF_txVars(commitAnswered)

-----------------------------------------------------------------------------
(* What each party would fall back to.                                      *)
SettledTimeline ==
  IF awaitingExternalCommit = {} THEN timeline
    ELSE CHOOSE times \in awaitingExternalCommit : TRUE

SettledHistory ==
  IF reversible_commit = {} THEN Times(retained)
    ELSE Times((CHOOSE r \in reversible_commit : TRUE).retained)

(* Renderer and store change together: but for the moment in which the      *)
(* renderer is final and the store is still being sealed, taking back what  *)
(* is provisional leaves both with the same history, whichever answers were *)
(* lost, whenever the context was lost or the generation superseded, and    *)
(* the application shows that history, as long as no sealed mutation is     *)
(* counted as failed.  A commit that throws after a lost context puts the   *)
(* renderer, and only the renderer, ahead; the next mutation that becomes   *)
(* final brings the three together again.                                   *)
SettledHistoriesAgree ==
  \/ mode \in {"closed", "current"} /\ pc # "sealing"
  \/ cancelled \/ disowned
  \/ IF pc = "sealing"
       THEN timeline = Times(retained)
       ELSE /\ halfApplied \/ SettledTimeline = SettledHistory
            /\ mode # "stopped" /\ pc # "sealed" => nationalObservations = SettledHistory

(* A commit never evicts the very observation it adds: the store would do   *)
(* so for a predecessor of a full history, and only the renderer's limit,   *)
(* checked before, keeps one from getting there, as long as no sealed        *)
(* mutation is missing from what the application proposes.                  *)
CommitKeepsItsObservation ==
  disowned \/ \A r \in reversible_commit : r.observation \in ToSet(retained)

(* The rollback journal is settled in the end, unless the application ends: *)
(* no lost answer strands it.                                               *)
JournalIsSettled == reversible_commit # {} ~> reversible_commit = {} \/ cancelled

(* Once backfill is over, for whatever reason, every scan the provider      *)
(* publishes is followed by one at least as new in the history: an          *)
(* unavailable predecessor does not block fresh scans forever               *)
(* (src/national-radar/NationalBackfillLoop.ts).                            *)
FreshScansAlwaysArrive ==
  \A t \in Time :
    mode = "polling" /\ published >= t
      ~> ~owned \/ \E i \in 1 .. Len(nationalObservations) : nationalObservations[i] >= t

(* The same of the newest scan there is, in a run without the faults: then  *)
(* an attempt may fail, but no answer of a preparation is lost.             *)
FreshScansArrive ==
  faults = {} /\ mode = "polling" /\ published = MaxTime
    ~> ~owned \/ \E i \in 1 .. Len(nationalObservations) : nationalObservations[i] = MaxTime
=============================================================================
