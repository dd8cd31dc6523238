-------------------------- MODULE NationalPlayback --------------------------
(***************************************************************************)
(* The resident National loop: NationalPlaybackController, the update of   *)
(* its history (commitNationalHistoryMutation), and what App.tsx does to   *)
(* both when the operator plays, scrubs or changes the source, over the    *)
(* renderer of NationalRenderer.                                           *)
(*                                                                         *)
(* An action is the code from an await to the next. The backend is what it *)
(* answers: NationalTransaction has its side of an update. The updates     *)
(* come one after the other, from the backfill and the poll; one scrub and *)
(* one reveal are under way at a time.                                     *)
(***************************************************************************)
EXTENDS NationalRenderer

CONSTANTS
  Commit, Advance, Scrub, Reveal,   \* the calls that await a paint
  First,         \* the observation that is painted when National is accepted
  Limit,         \* MAX_LIVE_HISTORY_FRAMES
  MaxRequests,   \* requests of the operator
  MaxFaults      \* lost contexts, failed uploads and draws, timeouts, failed commits

ASSUME TasksAreDistinct ==
  /\ Task = {Commit, Advance, Scrub, Reveal} /\ None \notin Task
  /\ Commit \notin {Advance, Scrub, Reveal} /\ Advance \notin {Scrub, Reveal} /\ Scrub # Reveal

ASSUME BoundsAreNumbers ==
  /\ Observation \subseteq Nat /\ First \in Observation /\ None \notin Nat
  /\ {Limit, MaxRequests, MaxFaults} \subseteq Nat /\ Limit > 0

VARIABLES
  player,   \* the controller's fields
  commit,   \* the update of the history
  task,     \* how far each call has come
  app,      \* App.tsx: which source is shown, and the history it has published
  bounds

site == <<layer, player, commit, task>>
vars == <<layer, player, commit, task, app, bounds>>

NoTask == [pc |-> "idle", target |-> None, plays |-> FALSE, receipt |-> NoReceipt]
NoCommit == [candidate |-> None, proposed |-> {}, newest |-> None, resume |-> FALSE,
             receipt |-> NoReceipt, sealed |-> FALSE]

Init ==
  /\ layer = PaintedLayer(First)
  /\ player = [playing |-> FALSE, timer |-> FALSE, starting |-> "no", operation |-> None,
               observations |-> {First}, mine |-> FALSE, wasPlaying |-> FALSE,
               replacementPending |-> FALSE, disposed |-> FALSE]
  /\ commit = NoCommit
  /\ task = [t \in Task |-> NoTask]
  /\ app = [shown |-> "national", revealing |-> FALSE, resident |-> FALSE, history |-> {First},
            backend |-> {First}, reserved |-> FALSE, owned |-> TRUE, unpublished |-> FALSE]
  /\ bounds = [requests |-> 0, faults |-> 0, recoveryFailed |-> FALSE]

(* The web view runs what a settled promise resumes before anything else.   *)
Settled ==
  \A t \in Task : layer.told[t] = Nothing /\ task[t].pc \notin {"held", "refused"}

Faulty(fails) ==
  /\ fails => bounds.faults < MaxFaults
  /\ bounds' = IF fails THEN [bounds EXCEPT !.faults = @ + 1] ELSE bounds

Requested ==
  /\ Settled /\ bounds.requests < MaxRequests
  /\ bounds' = [bounds EXCEPT !.requests = @ + 1]

Heard(t) == [layer EXCEPT !.told[t] = Nothing]
Goes(t, pc) == task' = [task EXCEPT ![t].pc = pc]

-----------------------------------------------------------------------------
(* Playing and holding the loop.                                            *)

(* A start that is superseded has no effect any more.                       *)
pause(p) ==
  IF p.disposed THEN p
  ELSE [p EXCEPT !.playing = FALSE, !.timer = FALSE, !.starting = "no", !.mine = FALSE]

(* The selection that is under way when the start is asked for comes first. *)
startPlayback(p) ==
  IF p.disposed \/ p.playing \/ Cardinality(p.observations) < 2 THEN p
  ELSE [p EXCEPT !.playing = TRUE, !.mine = FALSE,
          !.starting = IF p.operation = None THEN "residency" ELSE "selection"]

selectionEnds(p) ==
  [p EXCEPT !.operation = None,
            !.starting = IF @ = "selection" THEN "residency" ELSE @]

(* mine: mutationResumeRequest is still the latest request.                 *)
pauseAndWait(p) ==
  [pause(p) EXCEPT !.mine = TRUE, !.wasPlaying = p.playing /\ p.replacementPending]

(* Mutant: whatever has been asked for since, the loop is started.          *)
resumeAfterMutation_regardless(p, resume) ==
  LET after == [p EXCEPT !.wasPlaying = FALSE]
  IN  IF resume THEN startPlayback(after) ELSE after

resumeAfterMutation(p, resume) ==
  LET after == [p EXCEPT !.wasPlaying = FALSE]
  IN  IF resume /\ p.mine THEN startPlayback(after) ELSE after

scheduleNext(p) == [p EXCEPT !.timer = @ \/ (p.playing /\ ~p.disposed)]

assertReceipt(p, l, receipt) ==
  /\ receipt.epoch = l.contextEpoch /\ receipt.observation = l.active
  /\ receipt.observation \in p.observations

acceptsHistory(p, l, receipt) == ~p.disposed /\ assertReceipt(p, l, receipt)

acceptHistory(p, l, observations, receipt) ==
  LET retained == [p EXCEPT !.observations = observations]
  IN  IF acceptsHistory(retained, l, receipt)
      THEN [retained EXCEPT !.replacementPending = FALSE] ELSE retained

(* A loop that was started waits for the common residency, and selects what *)
(* is selected: the renderer has its receipt.                               *)
startContinues ==
  /\ Settled /\ player.starting = "residency" /\ waitForCommonResidency(layer) = "ready"
  /\ IF /\ player.operation = None /\ MaySelect(layer, layer.active)
        /\ assertReceipt(player, layer, layer.paintReceipt)
     THEN player' = scheduleNext([player EXCEPT !.starting = "no"])
     ELSE player' = pause(player)
  /\ UNCHANGED <<layer, commit, task, app, bounds>>

startGivesUp ==
  /\ Settled /\ player.starting = "residency" /\ waitForCommonResidency(layer) # "ready"
  /\ Faulty(waitForCommonResidency(layer) = "waits")
  /\ player' = pause(player)
  /\ UNCHANGED <<layer, commit, task, app>>

select(t, o, p) ==
  /\ layer' = selectResidentAndWait(layer, t, o)
  /\ player' = [p EXCEPT !.operation = t]
  /\ Goes(t, "selecting")

advanceOnce ==
  LET p == [player EXCEPT !.timer = FALSE]
      later == {o \in p.observations : o > layer.active}
  IN  /\ Settled /\ player.timer
      /\ IF layer.active \in p.observations /\ p.operation = None
         THEN select(Advance, IF later = {} THEN Min(p.observations) ELSE Min(later), p)
         ELSE player' = pause(p) /\ UNCHANGED <<layer, task>>
      /\ UNCHANGED <<commit, app, bounds>>

(* Who holds the loop for the selection hears of its failure too.           *)
Resumes(tasks, painted) ==
  [t \in Task |-> IF tasks[t].pc # "holding" THEN tasks[t]
                  ELSE [tasks[t] EXCEPT !.pc = IF painted THEN "held" ELSE "refused"]]

selectionSettles(t) ==
  LET receipt == layer.told[t]
      painted == receipt # Failed
      accepted == painted /\ assertReceipt(player, layer, receipt)
      after == selectionEnds(player)
  IN  /\ task[t].pc = "selecting" /\ receipt # Nothing
      /\ layer' = Heard(t)
      /\ player' = IF t = Scrub THEN after
                   ELSE IF accepted THEN scheduleNext(after) ELSE pause(after)
      /\ task' = [Resumes(task, painted) EXCEPT ![t] = NoTask]
      /\ app' = [app EXCEPT !.reserved = @ /\ t # Scrub]
      /\ UNCHANGED <<commit, bounds>>

-----------------------------------------------------------------------------
(* A scrub keeps new updates away, waits for the one under way and for the  *)
(* common residency.                                                        *)

scrubHeld ==
  /\ task[Scrub].pc \in {"held", "refused"}
  /\ IF task[Scrub].pc = "held"
     THEN Goes(Scrub, "reserving") /\ app' = [app EXCEPT !.reserved = TRUE]
     ELSE task' = [task EXCEPT ![Scrub] = NoTask] /\ UNCHANGED app
  /\ UNCHANGED <<layer, player, commit, bounds>>

AcquisitionIsOver == task[Commit].pc \in {"idle", "prepared"}

acquireNationalResidentOnlyActivity ==
  /\ Settled /\ task[Scrub].pc = "reserving" /\ AcquisitionIsOver
  /\ Goes(Scrub, "residency")
  /\ UNCHANGED <<layer, player, commit, app, bounds>>

(* The index is that of the observation now.                                *)
AtIndex(index, observations) ==
  {o \in observations : Cardinality({p \in observations : p <= o}) = index}

scrubSelects ==
  LET targets == AtIndex(task[Scrub].target, player.observations)
      Refused == /\ task' = [task EXCEPT ![Scrub] = NoTask]
                 /\ app' = [app EXCEPT !.reserved = FALSE] /\ UNCHANGED <<layer, player>>
  IN  /\ Settled /\ task[Scrub].pc = "residency"
      /\ \/ /\ waitForCommonResidency(layer) = "ready" /\ UNCHANGED bounds
            /\ IF targets = {} \/ player.operation # None \/ player.disposed THEN Refused
               ELSE select(Scrub, Min(targets), player) /\ UNCHANGED app
         \/ /\ waitForCommonResidency(layer) # "ready" /\ Refused
            /\ Faulty(waitForCommonResidency(layer) = "waits")
      /\ UNCHANGED commit

-----------------------------------------------------------------------------
(* An update of the history.                                                *)

MayAcquire == ~app.reserved

prepares(o, pc) ==
  /\ Settled /\ app.owned /\ task[Commit].pc = "idle" /\ MayAcquire
  /\ commit' = [NoCommit EXCEPT !.candidate = o]
  /\ Goes(Commit, pc)
  /\ UNCHANGED <<layer, player, app, bounds>>

prepareNationalHistoryPredecessor ==
  /\ Cardinality(app.history) < Limit
  /\ \E o \in Observation : o = Min(app.backend) - 1 /\ prepares(o, "prepared")

prepareNationalHistoryNewer ==
  \E o \in Observation : o = Max(app.backend) + 1 /\ prepares(o, "acquired")

Newest(observations, n) ==
  {o \in observations : Cardinality({p \in observations : p > o}) < n}

IsNewer == commit.candidate > commit.newest

(* Mutant: the renderer is left with what it has.                           *)
CommitFails_leaves(l) ==
  /\ layer' = l
  /\ player' = resumeAfterMutation([player EXCEPT !.replacementPending = FALSE], commit.resume)
  /\ task' = [task EXCEPT ![Commit] = NoTask] /\ commit' = NoCommit

(* The update has failed: the renderer goes back, if it still waits for the *)
(* backend, and a loop that was held goes on.                               *)
CommitFails(l) ==
  LET p == [player EXCEPT !.replacementPending = FALSE]
  IN  IF l.awaitingExternalCommit # NoMutation /\ ~commit.sealed
      THEN /\ layer' = rollbackHistoryMutation(l, Commit)
           /\ player' = p /\ Goes(Commit, "rollingBack") /\ UNCHANGED commit
      ELSE /\ layer' = l
           /\ player' = resumeAfterMutation(p, commit.resume)
           /\ task' = [task EXCEPT ![Commit] = NoTask] /\ commit' = NoCommit

(* runNationalAcquisition of the commit.                                    *)
commitsPredecessor ==
  /\ Settled /\ task[Commit].pc = "prepared" /\ MayAcquire
  /\ Goes(Commit, "acquired")
  /\ UNCHANGED <<layer, player, commit, app, bounds>>

(* The manifest is here; a paint under way is waited out, for a time.       *)
beginsStaging ==
  LET quiet == layer.pendingPaint = NoPaint /\ layer.paintWaiter = NoWaiter
  IN  /\ Settled /\ task[Commit].pc = "acquired"
      /\ Faulty(~quiet)
      /\ IF ~quiet \/ ~app.owned \/ ~MayStage(layer) THEN CommitFails(layer)
         ELSE /\ layer' = beginStaging(layer, commit.candidate)
              /\ commit' = [commit EXCEPT
                   !.proposed = Newest(app.history \cup {commit.candidate}, Limit),
                   !.newest = Max(app.history)]
              /\ Goes(Commit, "uploading") /\ UNCHANGED player
      /\ UNCHANGED app

(* The chunks are uploaded, and the loop is held for the commit.            *)
uploads(succeeds) ==
  LET held == pauseAndWait([player EXCEPT !.replacementPending = TRUE])
  IN  /\ Settled /\ task[Commit].pc = "uploading" /\ Faulty(~succeeds)
      /\ IF ~succeeds \/ ~app.owned \/ layer.staging = None
         THEN CommitFails(rollbackStaging(layer))
         ELSE /\ layer' = uploadStagedChunks(layer)
              /\ player' = held
              /\ commit' = [commit EXCEPT !.resume = player.playing]
              /\ Goes(Commit, IF player.operation = None THEN "held" ELSE "holding")
      /\ UNCHANGED app

(* The selection is kept when it can be; a held loop at the newest keeps    *)
(* its frame, a paused one follows the newest.                              *)
selectionAtCommit ==
  LET follows == IsNewer /\ ~commit.resume /\ ~player.playing /\ layer.active = commit.newest
      selected == IF follows THEN commit.candidate ELSE layer.active
  IN  IF selected \in commit.proposed THEN selected ELSE Min(commit.proposed)

(* A loop whose paint has failed was not held: it is not resumed.           *)
commitsStaging ==
  /\ task[Commit].pc \in {"held", "refused"}
  /\ IF task[Commit].pc = "refused"
     THEN /\ layer' = rollbackStaging(layer)
          /\ player' = resumeAfterMutation([player EXCEPT !.replacementPending = FALSE], FALSE)
          /\ task' = [task EXCEPT ![Commit] = NoTask] /\ commit' = NoCommit
     ELSE IF ~app.owned \/ ~MayCommit(layer, commit.candidate, commit.proposed)
     THEN CommitFails(rollbackStaging(layer))
     ELSE IF ~CommitDraws(layer, selectionAtCommit)
     THEN CommitFails(commitStagedResidencyThrows(layer, commit.proposed))
     ELSE /\ layer' = commitHistoryStaging(layer, Commit, commit.proposed, selectionAtCommit)
          /\ Goes(Commit, "painting") /\ UNCHANGED <<player, commit>>
  /\ UNCHANGED <<app, bounds>>

historyPainted ==
  LET receipt == layer.told[Commit]
  IN  /\ task[Commit].pc = "painting" /\ receipt # Nothing
      /\ IF receipt = Failed \/ ~app.owned THEN CommitFails(Heard(Commit))
         ELSE /\ layer' = Heard(Commit)
              /\ commit' = [commit EXCEPT !.receipt = receipt]
              /\ Goes(Commit, "committing") /\ UNCHANGED player
      /\ UNCHANGED <<app, bounds>>

commitNationalHistoryFrame(succeeds) ==
  /\ Settled /\ task[Commit].pc = "committing" /\ Faulty(~succeeds)
  /\ IF ~succeeds \/ ~app.owned \/ layer.awaitingExternalCommit = NoMutation
     THEN CommitFails(layer)
     ELSE /\ layer' = finalizeHistoryMutation(layer)
          /\ commit' = [commit EXCEPT !.sealed = TRUE]
          /\ Goes(Commit, "sealing") /\ UNCHANGED player
  /\ UNCHANGED app

(* Asked for until the backend has it.                                      *)
finalizeNationalHistoryCommit ==
  /\ Settled /\ task[Commit].pc = "sealing"
  /\ app' = [app EXCEPT !.backend = commit.proposed, !.unpublished = TRUE]
  /\ Goes(Commit, "receipt")
  /\ UNCHANGED <<layer, player, commit, bounds>>

(* publishNationalHistory, with the receipt the renderer has by then.       *)
publishNationalHistory ==
  LET receipt == IF layer.status = "resident" THEN layer.residentReceipt ELSE layer.paintReceipt
      published == acceptHistory(player, layer, app.backend, receipt)
  IN  /\ Settled /\ task[Commit].pc = "receipt"
      /\ IF waitsForReceipt(layer, commit.receipt) /\ app.owned
         THEN /\ app' = [app EXCEPT !.history = app.backend, !.unpublished = FALSE]
              /\ player' = resumeAfterMutation(published, commit.resume)
              /\ task' = [task EXCEPT ![Commit] = NoTask] /\ commit' = NoCommit
              /\ UNCHANGED <<layer, bounds>>
         ELSE /\ Faulty(app.owned /\ ~CannotRecover(layer))
              /\ CommitFails(layer) /\ UNCHANGED app

rolledBack ==
  /\ task[Commit].pc = "rollingBack" /\ layer.told[Commit] # Nothing
  /\ layer' = Heard(Commit)
  /\ player' = resumeAfterMutation(player, commit.resume)
  /\ task' = [task EXCEPT ![Commit] = NoTask] /\ commit' = NoCommit
  /\ UNCHANGED <<app, bounds>>

-----------------------------------------------------------------------------
(* The source that is shown.                                                *)

hideNationalBehindSite(p) == pause(p)

(* A Site is accepted: National stays behind it, or is torn down.           *)
siteAccepted ==
  /\ Requested /\ app.shown = "national"
  /\ IF ~CannotRecover(layer)
     THEN /\ layer' = setVisibility(layer, "resident")
          /\ player' = hideNationalBehindSite(player)
          /\ app' = [app EXCEPT !.shown = "site", !.resident = TRUE]
     ELSE /\ layer' = IF layer.added THEN onRemove(layer) ELSE layer
          /\ player' = [pause(player) EXCEPT !.disposed = TRUE]
          /\ app' = [app EXCEPT !.shown = "site", !.owned = FALSE]
  /\ UNCHANGED <<commit, task>>

(* It begins with the frame nearest to the time the Site has shown, or with *)
(* its own, and plays on when the Site played.                              *)
operatorSelectsNational ==
  \E o \in player.observations \cup {None}, plays \in BOOLEAN :
    /\ Requested /\ app.shown = "site" /\ app.resident /\ task[Reveal].pc = "idle"
    /\ ~CannotRecover(layer)
    /\ task' = [task EXCEPT ![Reveal] =
                  [NoTask EXCEPT !.pc = "busy", !.target = o, !.plays = plays]]
    /\ app' = [app EXCEPT !.revealing = TRUE]
    /\ UNCHANGED <<layer, player, commit>>

operatorSelectsSite ==
  /\ Requested /\ app.revealing
  /\ app' = [app EXCEPT !.revealing = FALSE]
  /\ UNCHANGED site

RevealFails(l) ==
  /\ layer' = setVisibility(l, "resident")
  /\ task' = [task EXCEPT ![Reveal] = NoTask]
  /\ app' = [app EXCEPT !.revealing = FALSE]

revealResidentNational ==
  /\ Settled /\ task[Reveal].pc = "busy"
  /\ \/ /\ MayReveal(layer) /\ UNCHANGED <<app, bounds>>
        /\ layer' = revealAndWait(layer, Reveal, task[Reveal].target)
        /\ Goes(Reveal, "painting")
     \/ /\ ~MayReveal(layer) /\ Faulty(~CannotRecover(layer))
        /\ RevealFails(layer)
  /\ UNCHANGED <<player, commit>>

revealPainted ==
  LET receipt == layer.told[Reveal]
  IN  /\ task[Reveal].pc = "painting" /\ receipt # Nothing
      /\ IF receipt = Failed \/ ~app.revealing THEN RevealFails(Heard(Reveal))
         ELSE /\ task' = [task EXCEPT ![Reveal].pc = "fading", ![Reveal].receipt = receipt]
              /\ layer' = Heard(Reveal) /\ UNCHANGED app
      /\ UNCHANGED <<player, commit, bounds>>

(* The Site has faded out. The controller takes the paint that was told     *)
(* when it is still that of the renderer.                                   *)
acceptRevealedNational ==
  LET t == task[Reveal]
      p == acceptHistory(player, layer, app.history, t.receipt)
      accepted == acceptsHistory(p, layer, t.receipt)
  IN  /\ Settled /\ t.pc = "fading"
      /\ IF ~app.revealing THEN RevealFails(layer) /\ UNCHANGED player
         ELSE /\ app' = [app EXCEPT !.shown = "national", !.revealing = FALSE, !.resident = FALSE]
              /\ player' = IF t.plays /\ accepted THEN startPlayback(p) ELSE p
              /\ task' = [task EXCEPT ![Reveal] = NoTask] /\ UNCHANGED layer
      /\ UNCHANGED <<commit, bounds>>

-----------------------------------------------------------------------------
(* The operator, the map and the GPU.                                       *)

togglePlayback ==
  LET held == player.wasPlaying /\ player.mine
      plays == ~player.playing /\ ~held
  IN  /\ Requested /\ app.shown = "national" /\ Cardinality(app.history) > 1
      /\ player' = IF plays THEN startPlayback(player) ELSE pause(player)
      /\ UNCHANGED <<layer, commit, task, app>>

operatorScrubs ==
  \E index \in 1..Cardinality(player.observations) :
    /\ Requested /\ app.shown = "national" /\ task[Scrub].pc = "idle" /\ ~player.disposed
    /\ player' = pauseAndWait(player)
    /\ task' = [task EXCEPT ![Scrub] = [NoTask EXCEPT !.target = index,
                  !.pc = IF player.operation = None THEN "held" ELSE "holding"]]
    /\ UNCHANGED <<layer, commit, app>>

GpuOnly == UNCHANGED <<player, commit, task, app>>

mapRenders ==
  /\ Settled /\ layer.added /\ layer.repaint /\ layer.active # None
  /\ \E fence \in {"signalled", "waiting", "failed"}, draws_ \in BOOLEAN :
       /\ (layer.pendingPaint = NoPaint) => fence = "signalled"
       /\ Faulty(fence = "failed" \/ ~draws_)
       /\ layer' = render(layer, fence, draws_)
  /\ GpuOnly

contextLost ==
  /\ Settled /\ ~layer.contextLost /\ layer.status # "removed" /\ Faulty(TRUE)
  /\ layer' = handleContextLost(layer) /\ GpuOnly

contextRestored ==
  /\ Settled /\ layer.contextLost
  /\ layer' = onAdd(handleContextRestored(layer)) /\ GpuOnly /\ UNCHANGED bounds

rehydrates ==
  /\ Settled /\ layer.uploading # None
  /\ \E succeeds \in BOOLEAN, following \in FollowingUpload(layer) :
       /\ succeeds \/ bounds.faults < MaxFaults
       /\ bounds' = IF succeeds THEN bounds
                    ELSE [bounds EXCEPT !.faults = @ + 1, !.recoveryFailed = TRUE]
       /\ layer' = IF succeeds THEN Rehydrates(layer, following)
                   ELSE fail([layer EXCEPT !.uploading = None, !.uploads = {}])
  /\ GpuOnly

paintTimesOut ==
  /\ Settled /\ layer.paintWaiter # NoWaiter /\ Faulty(TRUE)
  /\ layer' = paintWaiterExpires(layer) /\ GpuOnly

-----------------------------------------------------------------------------
Updates ==
  \/ prepareNationalHistoryPredecessor \/ prepareNationalHistoryNewer
  \/ commitsPredecessor \/ beginsStaging \/ commitsStaging \/ historyPainted
  \/ \E succeeds \in BOOLEAN : uploads(succeeds) \/ commitNationalHistoryFrame(succeeds)
  \/ finalizeNationalHistoryCommit \/ publishNationalHistory \/ rolledBack

Next ==
  \/ Updates
  \/ startContinues \/ startGivesUp \/ advanceOnce
  \/ \E t \in {Advance, Scrub} : selectionSettles(t)
  \/ scrubHeld \/ acquireNationalResidentOnlyActivity \/ scrubSelects
  \/ siteAccepted \/ operatorSelectsNational \/ operatorSelectsSite
  \/ revealResidentNational \/ revealPainted \/ acceptRevealedNational
  \/ togglePlayback \/ operatorScrubs
  \/ mapRenders \/ contextLost \/ contextRestored \/ rehydrates \/ paintTimesOut

Spec == Init /\ [][Next]_vars

-----------------------------------------------------------------------------
(* Properties.                                                              *)

(* A receipt is that of the selected frame in the context of today, and a   *)
(* paint receipt that of a layer that is shown and has the frame's texture, *)
(* by the handle that the layer holds.                                      *)
PaintReceiptsAreTrue ==
  layer.status # "removed" =>
  /\ layer.paintReceipt # NoReceipt =>
       /\ layer.visibility = "visible" /\ layer.paintReceipt.presented
       /\ layer.paintReceipt.observation = layer.active
       /\ layer.paintReceipt.epoch = layer.contextEpoch
       /\ layer.active \in layer.textures
  /\ layer.residentReceipt # NoReceipt =>
       /\ layer.visibility = "resident" /\ layer.residentReceipt.observation = layer.active

(* What is allocated on the GPU is what the renderer can still free, but    *)
(* for two leaks, both after a lost context: the observation that a commit  *)
(* dropped which then threw (NationalGridLayer.ts:1247), and the one that   *)
(* was retired in the middle of its upload (:1424).                         *)
GpuHoldsReferenced ==
  /\ layer.added =>
       layer.textures \subseteq Referenced(layer) \cup {layer.staging} \cup layer.strays
  /\ layer.contextEpoch = 1 => layer.strays = {}

(* A change of the residents that waits for the backend has an update that  *)
(* will commit it or take it back, unless the upload after a lost context    *)
(* has failed meanwhile.                                                    *)
MutationsAreSettled ==
  ~bounds.recoveryFailed =>
  /\ layer.mutation.defers => task[Commit].pc = "painting"
  /\ layer.awaitingExternalCommit # NoMutation => task[Commit].pc \in {"painting", "committing"}

(* Between updates the controller, the app and the backend have the same    *)
(* history, unless a sealed update could not be published or the upload     *)
(* after a lost context has failed in an update. The renderer has it too,   *)
(* unless a commit has thrown with the residents assigned: from then to the *)
(* next update that is painted the one it had staged is resident, emptied.  *)
LoopIsRetained ==
  /\ Settled /\ task[Commit].pc \in {"idle", "prepared"} /\ app.owned
  /\ ~app.unpublished /\ ~bounds.recoveryFailed
  => /\ player.observations = app.history /\ app.history = app.backend
     /\ layer.emptied = {} => layer.residents = app.history

(* Behind a Site the loop rests, whatever an update was about to resume.    *)
HiddenLoopRests == app.resident => ~player.playing

(* Who waits for a paint waits for a drawing that has been asked for.       *)
DrawingIsScheduled ==
  layer.paintWaiter # NoWaiter /\ layer.added /\ layer.status # "error" => layer.repaint

=============================================================================
