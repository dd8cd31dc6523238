---------------------------- MODULE SitePlayback ----------------------------
(***************************************************************************)
(* ResidentPlaybackController: the loop of a Site's scans, what the        *)
(* operator asks of it, and the updates of its history, over the renderer. *)
(* An action is the code from an await to the next. Its parameters say     *)
(* what the code is told from outside: whether the acquisition still owns  *)
(* the map, whether an upload succeeds.                                    *)
(*                                                                         *)
(* An update restores playback by comparing intentRevision with the one it *)
(* began with; here it carries a mark that every request of the operator   *)
(* sets. The counts of transitions and cycles are left out.                *)
(***************************************************************************)
EXTENDS SiteRenderer, Sequences, SequencesExt

CONSTANTS
  Session,   \* updates of the history, one of each polling session
  Advance,   \* steps of the loop that may be under way at once
  Scrub,     \* the scrub of the operator
  Carry      \* the scrub to the time another source has shown

ASSUME TasksAreDistinct ==
  /\ Task = Session \cup Advance \cup {Scrub, Carry} /\ Scrub # Carry
  /\ Session \cap Advance = {} /\ {Scrub, Carry} \cap (Session \cup Advance) = {}
  /\ None \notin Task

VARIABLES
  player,   \* the controller's fields
  task      \* the calls of it that have not returned

NoTask == [pc |-> "idle", native |-> FALSE, awaits |-> None, scan |-> None, prior |-> 0,
           frames |-> {}, previous |-> {}, appends |-> FALSE,
           atNewest |-> FALSE, resume |-> FALSE, acted |-> FALSE]

PlayerOf(scan) ==
  [playing |-> FALSE, timer |-> FALSE, operation |-> None, frames |-> {scan},
   lastReceipt |-> scan, wantsPlaying |-> FALSE, replacements |-> <<>>,
   resumes |-> {}, scheduling |-> FALSE, disposed |-> FALSE]

(* The calls that resume before anything else happens to the web view.      *)
Runnable(t) ==
  \/ layer.told[t] # Nothing
  \/ task[t].pc \in {"held", "awaited", "done", "failed"}
  \/ task[t].pc = "queued" /\ Head(player.replacements) = t
  \/ task[t].pc \in {"settling", "settlingAgain"} /\ player.replacements = <<>>

-----------------------------------------------------------------------------
(* Playing and holding the loop.                                            *)

scheduleNext(p) == [p EXCEPT !.timer = @ \/ (p.playing /\ ~p.disposed)]

startPlaying(p) ==
  IF p.playing \/ p.disposed THEN p
  ELSE IF p.operation = None THEN scheduleNext([p EXCEPT !.playing = TRUE])
  ELSE [p EXCEPT !.playing = TRUE, !.resumes = @ \cup {p.operation}]

stopPlaying(p) ==
  IF p.disposed THEN p ELSE [p EXCEPT !.playing = FALSE, !.timer = FALSE]

OperatorActs(tasks) ==
  [t \in Task |-> IF t \in Session \cup {Carry} THEN [tasks[t] EXCEPT !.acted = TRUE]
                  ELSE tasks[t]]

(* Mutant: an operation that failed is awaited for ever.                    *)
SettlesFor_painted(tasks, t, paints) ==
  [u \in Task |->
     IF tasks[u].awaits # t \/ ~paints THEN tasks[u]
     ELSE [tasks[u] EXCEPT !.awaits = None, !.pc = IF @ = "awaiting" THEN "awaited" ELSE "held"]]

(* The operation of t has settled: those who await it go on, and a loop     *)
(* that was started meanwhile is scheduled, or given up.                    *)
SettlesFor(tasks, t, paints) ==
  [u \in Task |->
     IF tasks[u].awaits # t THEN tasks[u]
     ELSE [tasks[u] EXCEPT !.awaits = None,
             !.pc = CASE @ = "awaiting" -> "awaited"
                      [] @ = "holding" -> IF paints THEN "held" ELSE "failed"]]

SettlesOperation(p, t, paints) ==
  LET after == [p EXCEPT !.operation = None, !.resumes = @ \ {t}]
  IN  IF t \notin p.resumes THEN after
      ELSE IF paints THEN [after EXCEPT !.scheduling = TRUE]
      ELSE [after EXCEPT !.playing = FALSE]

assertReceipt(l, told) == told.scan = l.selected /\ told.sequence = l.sequence

(* Once a failed Smooth draw is given another chance in Native.             *)
RetriesInNative(t) ==
  layer.told[t] = Failed /\ ~task[t].native /\ MayRetryInNative(layer)

withNativeFallback(t) ==
  /\ task[t].pc \in {"painting", "selecting"} /\ RetriesInNative(t)
  /\ layer' = waitForPaint(retryFailedSmoothDrawInNative([layer EXCEPT !.told[t] = Nothing]), t)
  /\ task' = [task EXCEPT ![t].native = TRUE]
  /\ UNCHANGED player

-----------------------------------------------------------------------------
(* Updates of the resident history, one after the other.                    *)

updateResidentHistory_queued(t, frames, appends) ==
  /\ player' = [player EXCEPT !.replacements = Append(@, t)]
  /\ task' = [task EXCEPT ![t] = [NoTask EXCEPT !.pc = "queued", !.frames = frames,
                                                !.appends = appends]]

Fails(t) == task' = [task EXCEPT ![t].pc = "failed"]

holdPlayback(t) ==
  /\ task[t].pc = "queued" /\ Head(player.replacements) = t
  /\ IF player.disposed THEN Fails(t) /\ UNCHANGED player
     ELSE /\ player' = stopPlaying(player)
          /\ task' = [task EXCEPT ![t] =
               [@ EXCEPT !.pc = IF player.operation = None THEN "held" ELSE "holding",
                         !.awaits = player.operation,
                         !.scan = layer.selected, !.previous = player.frames,
                         !.atNewest = ~player.playing /\ layer.selected = Max(player.frames),
                         !.resume = player.playing, !.acted = FALSE]]
  /\ UNCHANGED layer

awaitRecovery(t) ==
  /\ task[t].pc = "held" /\ layer.phase # "ready"
  /\ layer' = waitForRecovery(layer, t)
  /\ task' = [task EXCEPT ![t].pc = "recovering"]
  /\ UNCHANGED player

(* The selection of the updated history: the newest scan stays the newest,  *)
(* another stays itself.                                                    *)
SelectionAfter(u) ==
  IF u.appends /\ u.atNewest THEN Max(u.frames)
  ELSE IF u.appends /\ u.scan \in u.frames THEN u.scan ELSE Min(u.frames)

(* Mutant: what the operator did meanwhile is overlooked.                   *)
shouldResumeAfterMutation_regardless(t) ==
  task[t].appends /\ ~player.disposed /\ task[t].resume

shouldResumeAfterMutation(t) ==
  /\ task[t].appends /\ ~player.disposed
  /\ IF task[t].acted THEN player.wantsPlaying ELSE task[t].resume

ResumedBy(t, p) == IF shouldResumeAfterMutation(t) THEN startPlaying(p) ELSE p

(* Mutant: the controller keeps the loop of the update.                     *)
Restores_not(t, l, p, tasks) ==
  /\ player' = [p EXCEPT !.lastReceipt = None, !.operation = t]
  /\ task' = [tasks EXCEPT ![t].pc = "restoring"]
  /\ layer' = IF IsReplacing(l) THEN rollbackResidentFrameReplacement(l, t)
              ELSE IF l.phase # "ready" THEN waitForRecovery(l, t)
              ELSE [l EXCEPT !.told[t] = IF l.receipt = NoPaint THEN Failed
                                         ELSE Painted(l.receipt)]

(* The update is undone: the renderer goes back to its last loop, or has    *)
(* gone back when its context was lost.                                     *)
Restores(t, l, p, tasks) ==
  /\ player' = [p EXCEPT !.frames = tasks[t].previous, !.lastReceipt = None, !.operation = t]
  /\ task' = [tasks EXCEPT ![t].pc = "restoring"]
  /\ layer' = IF IsReplacing(l) THEN rollbackResidentFrameReplacement(l, t)
              ELSE IF l.phase # "ready" THEN waitForRecovery(l, t)
              ELSE [l EXCEPT !.told[t] = IF l.receipt = NoPaint THEN Failed
                                         ELSE Painted(l.receipt)]

MaySwap(t, selected) ==
  IF task[t].appends THEN MayUpdate(layer, task[t].frames, selected) ELSE MayReplace(layer)

Swapped(t, l, selected) ==
  IF task[t].appends THEN updateResidentHistory(l, task[t].frames, selected)
  ELSE replaceResidentFrames(l, task[t].frames)

(* From beforeCommit to the promise of the paint, without an await.         *)
swaps(t, owned, uploads) ==
  LET selected == SelectionAfter(task[t])
      heard == [layer EXCEPT !.told[t] = Nothing]
      swapped == [player EXCEPT !.frames = task[t].frames,
                                !.lastReceipt = IF task[t].appends THEN @ ELSE None]
  IN  /\ \/ task[t].pc = "held" /\ layer.phase = "ready"
         \/ task[t].pc = "recovering" /\ layer.told[t] # Nothing
      /\ IF layer.told[t] = Failed \/ ~owned \/ ~MaySwap(t, selected) \/ ~uploads
         THEN Fails(t) /\ layer' = heard /\ UNCHANGED player
         ELSE IF player.operation # None
         THEN Restores(t, Swapped(t, heard, selected), swapped, task)
         ELSE /\ layer' = waitForPaint(Swapped(t, heard, selected), t)
              /\ player' = [swapped EXCEPT !.operation = t]
              /\ task' = [task EXCEPT ![t].pc = "painting", ![t].native = FALSE]

commits(t, owned) ==
  LET told == layer.told[t]
      heard == [layer EXCEPT !.told[t] = Nothing]
      paints == told # Failed
      settled == SettlesOperation(player, t, paints)
      accepted == [settled EXCEPT !.lastReceipt = told.scan]
  IN  /\ task[t].pc = "painting" /\ told # Nothing /\ ~RetriesInNative(t)
      /\ IF paints /\ assertReceipt(layer, told) /\ owned /\ MayCommit(layer, told.sequence)
         THEN /\ layer' = commitResidentFrameReplacement(heard)
              /\ player' = ResumedBy(t, accepted)
              /\ task' = [SettlesFor(task, t, TRUE) EXCEPT ![t].pc = "done", ![t].scan = told.scan]
         ELSE Restores(t, heard, settled, SettlesFor(task, t, paints))

(* Told of a recovery, the update takes the paint the renderer then has.    *)
restores(t) ==
  LET told == layer.told[t]
      receipt == IF told = Recovered THEN Painted(layer.receipt) ELSE told
      paints == told # Failed /\ receipt.scan # None
      settled == SettlesOperation(player, t, paints)
  IN  /\ task[t].pc = "restoring" /\ told # Nothing
      /\ layer' = [layer EXCEPT !.told[t] = Nothing]
      /\ player' = ResumedBy(t, IF paints /\ assertReceipt(layer, receipt)
                                THEN [settled EXCEPT !.lastReceipt = receipt.scan] ELSE settled)
      /\ task' = [SettlesFor(task, t, paints) EXCEPT ![t].pc = "failed"]

-----------------------------------------------------------------------------
(* Selections of the loop and of the operator.                              *)

(* The call of t has returned: a step of the loop arms the next, or stops   *)
(* the loop.                                                                *)
Returned(t, p, ok) ==
  IF t \notin Advance THEN p
  ELSE IF ok THEN scheduleNext(p) ELSE [p EXCEPT !.playing = FALSE]

(* Who carries a time is told how its scrub went.                           *)
Ended(t, tasks, ok) ==
  [tasks EXCEPT ![t] = IF t # Carry THEN NoTask
                       ELSE [@ EXCEPT !.pc = IF ok THEN "done" ELSE "failed"]]

Selecting(t, scan, l, p, tasks) ==
  /\ layer' = selectAndWait(l, t, scan)
  /\ player' = [p EXCEPT !.operation = t]
  /\ task' = [tasks EXCEPT ![t] = [NoTask EXCEPT !.pc = "selecting", !.prior = l.sequence,
                                              !.acted = tasks[t].acted]]

(* A selection under way is looked for before the wait for a recovery.      *)
select(t, scan, p, tasks) ==
  IF p.operation # None
  THEN /\ player' = Returned(t, p, FALSE)
       /\ task' = Ended(t, tasks, FALSE) /\ UNCHANGED layer
  ELSE IF layer.phase = "ready" THEN Selecting(t, scan, layer, p, tasks)
  ELSE /\ layer' = waitForRecovery(layer, t)
       /\ task' = [tasks EXCEPT ![t] = [NoTask EXCEPT !.pc = "recovering", !.scan = scan,
                                                      !.acted = tasks[t].acted]]
       /\ player' = p

selectRecovered(t) ==
  LET heard == [layer EXCEPT !.told[t] = Nothing]
  IN  /\ t \notin Session /\ task[t].pc = "recovering" /\ layer.told[t] # Nothing
      /\ IF layer.told[t] = Failed \/ player.disposed
         THEN /\ player' = Returned(t, player, FALSE)
              /\ task' = Ended(t, task, FALSE) /\ layer' = heard
         ELSE Selecting(t, task[t].scan, heard, player, task)

(* A new paint must be that of the next selection. Whatever it is told, the *)
(* call forgets the operation, even when it is no longer its own.           *)
acceptReceipt(t) ==
  LET told == layer.told[t]
      paints == told # Failed
      accepted == /\ paints /\ told.sequence <= task[t].prior + 1
                  /\ assertReceipt(layer, told)
      settled == SettlesOperation(player, t, paints)
  IN  /\ task[t].pc = "selecting" /\ told # Nothing /\ ~RetriesInNative(t)
      /\ layer' = [layer EXCEPT !.told[t] = Nothing]
      /\ player' = Returned(t, IF accepted THEN [settled EXCEPT !.lastReceipt = told.scan]
                               ELSE settled, accepted)
      /\ task' = Ended(t, SettlesFor(task, t, paints), accepted)

advanceOnce(t) ==
  LET p == [player EXCEPT !.timer = FALSE]
      later == {s \in p.frames : s > layer.selected}
  IN  /\ player.timer /\ t \in Advance /\ task[t].pc = "idle"
      /\ IF layer.selected \notin p.frames
         THEN player' = Returned(t, p, FALSE) /\ UNCHANGED <<layer, task>>
         ELSE select(t, IF later = {} THEN Min(p.frames) ELSE Min(later), p, task)

schedulesLater ==
  /\ player.scheduling
  /\ player' = LET p == [player EXCEPT !.scheduling = FALSE]
               IN  IF p.operation = None THEN scheduleNext(p) ELSE p
  /\ UNCHANGED <<layer, task>>

play ==
  /\ ~player.disposed
  /\ player' = startPlaying([player EXCEPT !.wantsPlaying = TRUE])
  /\ task' = OperatorActs(task) /\ UNCHANGED layer

pause ==
  /\ player' = stopPlaying([player EXCEPT !.wantsPlaying = FALSE])
  /\ task' = OperatorActs(task) /\ UNCHANGED layer

(* The scan that was meant, or the one measured nearest to it; of two, the  *)
(* older.                                                                   *)
nearestFrameIndex(frames, scan) ==
  LET Distance(s) == IF s < scan THEN scan - s ELSE s - scan
  IN  Min({s \in frames : \A u \in frames : Distance(s) <= Distance(u)})

(* A scrub waits for the updates, then for the operation, then for the      *)
(* updates once more.                                                       *)
scrub(t, scan) ==
  LET p == stopPlaying([player EXCEPT !.wantsPlaying = FALSE])
      acted == [OperatorActs(task) EXCEPT ![t] = NoTask]
      Waits(pc) == /\ task' = [acted EXCEPT ![t] = [NoTask EXCEPT
                                 !.pc = pc, !.scan = scan,
                                 !.awaits = IF pc = "awaiting" THEN p.operation ELSE None]]
                   /\ player' = p /\ UNCHANGED layer
  IN  /\ task[t].pc = "idle" /\ ~p.disposed
      /\ IF p.replacements # <<>> THEN Waits("settling")
         ELSE IF p.operation # None THEN Waits("awaiting")
         ELSE select(t, scan, p, acted)

scrubSettles(t) ==
  LET pc == task[t].pc
      Waits(next, owner) ==
        /\ task' = [task EXCEPT ![t].pc = next, ![t].awaits = owner]
        /\ UNCHANGED <<layer, player>>
  IN  /\ \/ pc \in {"settling", "settlingAgain"} /\ player.replacements = <<>>
         \/ pc = "awaited"
      /\ IF pc = "settling" /\ player.operation # None THEN Waits("awaiting", player.operation)
         ELSE IF player.replacements # <<>> THEN Waits("settlingAgain", None)
         ELSE IF player.disposed
         THEN task' = Ended(t, task, FALSE) /\ UNCHANGED <<layer, player>>
         ELSE select(t, nearestFrameIndex(player.frames, task[t].scan), player, task)

dispose == [stopPlaying([player EXCEPT !.wantsPlaying = FALSE]) EXCEPT !.disposed = TRUE]
=============================================================================
