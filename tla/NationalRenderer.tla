-------------------------- MODULE NationalRenderer --------------------------
(***************************************************************************)
(* NationalGridLayer: the renderer of the resident National history. As in *)
(* SiteRenderer a method is an operator on the layer's record, and a       *)
(* promise is settled by what `told` says to the task that awaits it.      *)
(*                                                                         *)
(* An observation is the number of its time; the timeline is chronological *)
(* and so a set. The app gives every observation one complete presentation *)
(* in the common slot, which carries its name. The detail levels, their    *)
(* fallback and the quality lock have no caller left and are not here.     *)
(*                                                                         *)
(* `textures` are the presentations whose chunks hold texture handles, and *)
(* those with a chunk texture that no handle leads to. `emptied` are the   *)
(* residents whose chunks have been deleted while they stayed resident.    *)
(* `strays` is a history variable: the presentations that the code has let *)
(* go of without freeing them.                                             *)
(***************************************************************************)
EXTENDS Integers, FiniteSets, FiniteSetsExt

CONSTANTS
  Observation,
  Task,   \* the calls that await a paint
  None

VARIABLE layer

Nothing == [what |-> "nothing", observation |-> None, epoch |-> 0, presented |-> FALSE]
Failed == [Nothing EXCEPT !.what = "failed"]
NoReceipt == Nothing
NoWaiter == [task |-> None, requirePresented |-> FALSE]
NoMutation == [residents |-> {}, emptied |-> {}, active |-> None, added |-> None,
               retires |-> {}, defers |-> FALSE]
NoPaint == [observation |-> None, mutation |-> NoMutation, presented |-> FALSE]

Painted(l, o, presented) ==
  [what |-> "painted", observation |-> o, epoch |-> l.contextEpoch, presented |-> presented]

(* A layer that has painted its first observation.                          *)
PaintedLayer(o) ==
  [residents |-> {o}, emptied |-> {}, active |-> o, textures |-> {o}, staging |-> None,
   pendingPaint |-> NoPaint, mutation |-> NoMutation, awaitingExternalCommit |-> NoMutation,
   paintWaiter |-> NoWaiter, visibility |-> "visible", status |-> "painted",
   recovering |-> FALSE, contextEpoch |-> 1, contextLost |-> FALSE, uploading |-> None,
   uploads |-> {}, strays |-> {}, added |-> TRUE, repaint |-> FALSE, residentReceipt |-> NoReceipt,
   paintReceipt |-> [what |-> "painted", observation |-> o, epoch |-> 1, presented |-> TRUE],
   told |-> [t \in Task |-> Nothing]]

-----------------------------------------------------------------------------
(* Waiting for a paint, and taking back a change of the residents.          *)

rejectPaintWaiter(l) ==
  IF l.paintWaiter = NoWaiter THEN l
  ELSE [l EXCEPT !.paintWaiter = NoWaiter, !.told[l.paintWaiter.task] = Failed]

waitForCommittedPaint(l, t, requirePresented) ==
  [l EXCEPT !.paintWaiter = [task |-> t, requirePresented |-> requirePresented]]

clearReceipts(l) == [l EXCEPT !.paintReceipt = NoReceipt, !.residentReceipt = NoReceipt]

fail(l) == rejectPaintWaiter([l EXCEPT !.status = "error"])

(* What the layer can still free, apart from what it is staging.            *)
Referenced(l) ==
  l.residents \cup l.mutation.retires \cup l.awaitingExternalCommit.retires

(* What a change of the residents can be taken back to.                     *)
captureResidencyState(l) ==
  [NoMutation EXCEPT !.residents = l.residents, !.emptied = l.emptied, !.active = l.active]

(* The presentations with chunks. One that is staged has its name from an   *)
(* observation that is not among them.                                      *)
Filled(state) == (state.residents \ state.emptied) \cup {state.active}

(* The chunk that is being uploaded is finished all the same.               *)
deletePresentation(l, retired) ==
  [l EXCEPT !.textures = @ \ retired, !.uploads = @ \ retired,
            !.strays = @ \cup ({l.uploading} \cap (retired \ {None}))]

restoreResidencyState(l, mutation) ==
  [deletePresentation(l, {mutation.added} \ Filled(mutation))
     EXCEPT !.residents = mutation.residents, !.emptied = mutation.emptied,
            !.active = mutation.active]

rollbackResidencyMutation(l, mutation) ==
  LET restored == IF mutation = NoMutation THEN l ELSE restoreResidencyState(l, mutation)
  IN  [rejectPaintWaiter(clearReceipts(restored)) EXCEPT !.mutation = NoMutation,
                                                         !.repaint = TRUE]

(* The timeout of the waiter.                                               *)
paintWaiterExpires(l) ==
  rollbackResidencyMutation([l EXCEPT !.pendingPaint = IF l.added THEN NoPaint ELSE @],
                            l.mutation)

IsCommitting(l) == l.mutation # NoMutation \/ l.awaitingExternalCommit # NoMutation
OwnsPaint(l) == l.paintWaiter # NoWaiter \/ l.pendingPaint # NoPaint \/ IsCommitting(l)

-----------------------------------------------------------------------------
(* Staging an observation and committing it.                                *)

MayStage(l) == l.added /\ ~l.recovering /\ l.staging = None /\ ~OwnsPaint(l)

beginStaging(l, o) == [l EXCEPT !.staging = o, !.status = "staging"]

uploadStagedChunks(l) == [l EXCEPT !.textures = @ \cup {l.staging}]

rollbackStaging(l) ==
  [deletePresentation(l, {l.staging} \ Filled(l))
     EXCEPT !.staging = None, !.status = IF @ = "staging" THEN "painted" ELSE @]

presentationIsResident(l, o) == o \in (l.residents \ l.emptied) \cap l.textures

MayCommit(l, o, timeline) ==
  /\ l.staging = o /\ o \in l.textures /\ ~OwnsPaint(l)
  /\ timeline \subseteq l.residents \cup {o}

(* The residents are those of the timeline; the others leave the GPU when   *)
(* the change succeeds. They need not have their textures.                  *)
residentsWithStaging(l, timeline) ==
  [captureResidencyState(l) EXCEPT !.added = l.staging, !.retires = l.residents \ timeline]

CommitDraws(l, selected) == selected = l.staging \/ presentationIsResident(l, selected)

commitStagedResidency(l, t, timeline, selected, defers) ==
  waitForCommittedPaint(
    [clearReceipts(l) EXCEPT
       !.residents = timeline, !.emptied = (@ \cap timeline) \ {l.staging},
       !.active = selected, !.staging = None, !.status = "ready",
       !.mutation = [residentsWithStaging(l, timeline) EXCEPT !.defers = defers],
       !.repaint = TRUE], t, FALSE)

(* The selected frame is not uploaded again yet: presentationFromResidents  *)
(* throws once the residents are assigned. Nothing is retired, and what was *)
(* staged is deleted while it is resident.                                  *)
commitStagedResidencyThrows(l, timeline) ==
  rollbackStaging([l EXCEPT !.residents = timeline,
                            !.emptied = (@ \cap timeline) \cup {l.staging},
                            !.strays = @ \cup (l.residents \ timeline)])

(* The change waits for the backend before it is final.                     *)
commitHistoryStaging(l, t, timeline, selected) ==
  commitStagedResidency(l, t, timeline, selected, TRUE)

(* Mutant: the observation that fell out of the timeline stays.             *)
finalizeHistoryMutation_leaks(l) == [l EXCEPT !.awaitingExternalCommit = NoMutation]

finalizeHistoryMutation(l) ==
  [deletePresentation(l, l.awaitingExternalCommit.retires \ l.residents)
     EXCEPT !.awaitingExternalCommit = NoMutation]

(* Mutant: the frame that is back is not drawn.                             *)
rollbackHistoryMutation_undrawn(l, t) ==
  waitForCommittedPaint(
    [clearReceipts(restoreResidencyState(l, l.awaitingExternalCommit)) EXCEPT
       !.awaitingExternalCommit = NoMutation, !.status = "ready"], t, FALSE)

rollbackHistoryMutation(l, t) ==
  LET restored == restoreResidencyState(l, l.awaitingExternalCommit)
  IN  waitForCommittedPaint(
        [clearReceipts(restored) EXCEPT !.awaitingExternalCommit = NoMutation,
                                        !.status = "ready", !.repaint = TRUE], t, FALSE)

-----------------------------------------------------------------------------
(* Selecting a frame, hiding and revealing.                                 *)

stageSelection(l, o) ==
  [l EXCEPT !.active = o, !.mutation = captureResidencyState(l)]

MaySelect(l, o) ==
  /\ l.visibility = "visible" /\ ~l.recovering /\ ~OwnsPaint(l)
  /\ presentationIsResident(l, o)

selectResidentAndWait(l, t, o) ==
  IF ~MaySelect(l, o) THEN [l EXCEPT !.told[t] = Failed]
  ELSE IF o = l.active /\ l.paintReceipt # NoReceipt
  THEN [l EXCEPT !.told[t] = l.paintReceipt]
  ELSE waitForCommittedPaint([clearReceipts(stageSelection(l, o)) EXCEPT
                                !.status = "ready", !.repaint = TRUE], t, FALSE)

commonResidencyReady(l) ==
  /\ l.status = "painted" /\ l.awaitingExternalCommit = NoMutation
  /\ l.paintReceipt # NoReceipt /\ \A o \in l.residents : presentationIsResident(l, o)

CannotRecover(l) == l.status \in {"error", "removed"}

(* Who waits may also give up, after a minute.                              *)
waitForCommonResidency(l) ==
  IF commonResidencyReady(l) THEN "ready" ELSE IF CannotRecover(l) THEN "refused" ELSE "waits"

(* Mutant: what was painted before stays claimed.                           *)
setVisibility_claims(l, visibility) ==
  IF visibility = l.visibility THEN l ELSE [l EXCEPT !.visibility = visibility, !.repaint = TRUE]

setVisibility(l, visibility) ==
  IF visibility = l.visibility THEN l
  ELSE [clearReceipts(l) EXCEPT
          !.visibility = visibility, !.repaint = TRUE,
          !.status = IF @ \in {"painted", "resident"} THEN "ready" ELSE @]

(* A commit in progress finishes first.                                     *)
MayReveal(l) == l.paintWaiter = NoWaiter /\ ~IsCommitting(l)

(* o is None, or the frame to begin with.                                   *)
revealAndWait(l, t, o) ==
  IF o \notin {None} /\ ~presentationIsResident(l, o) THEN [l EXCEPT !.told[t] = Failed]
  ELSE LET selected == IF o \in {None, l.active} THEN l ELSE stageSelection(l, o)
       IN  waitForCommittedPaint(setVisibility(selected, "visible"), t, TRUE)

waitsForReceipt(l, receipt) ==
  LET current == IF l.status = "resident" THEN l.residentReceipt ELSE l.paintReceipt
  IN  /\ l.status \in {"painted", "resident"} /\ l.awaitingExternalCommit = NoMutation
      /\ current.observation = receipt.observation

-----------------------------------------------------------------------------
(* Drawing. A fence is "signalled", "waiting" or "failed".                  *)

resolvePaintWaiter(l, receipt) ==
  IF l.paintWaiter # NoWaiter /\ (receipt.presented \/ ~l.paintWaiter.requirePresented)
  THEN [l EXCEPT !.paintWaiter = NoWaiter, !.told[l.paintWaiter.task] = receipt] ELSE l

(* A draw that completes after a hide no longer describes the screen.       *)
IsPresented(l, pending) == pending.presented /\ l.visibility = "visible"

Settles(l, pending) ==
  LET presented == IsPresented(l, pending)
      receipt == Painted(l, pending.observation, presented)
      received == IF presented THEN [l EXCEPT !.paintReceipt = receipt, !.status = "painted"]
                  ELSE IF l.visibility = "resident"
                  THEN [l EXCEPT !.residentReceipt = receipt, !.status = "resident"]
                  ELSE [l EXCEPT !.status = "ready", !.repaint = TRUE]
      committed == [received EXCEPT
        !.recovering = FALSE, !.mutation = NoMutation,
        !.awaitingExternalCommit = IF pending.mutation.defers THEN pending.mutation ELSE @]
  IN  resolvePaintWaiter(committed, receipt)

completePendingFence(l, fence) ==
  LET pending == l.pendingPaint
      done == [l EXCEPT !.pendingPaint = NoPaint]
  IN  IF pending = NoPaint THEN l
      ELSE CASE fence = "waiting" -> [l EXCEPT !.repaint = TRUE]
             [] fence = "failed" ->
                  fail(IF l.mutation = NoMutation THEN done
                       ELSE rollbackResidencyMutation(done, l.mutation))
             [] OTHER -> IF l.active = pending.observation THEN Settles(done, pending) ELSE done

Fenced(l, presented) ==
  [l EXCEPT !.pendingPaint = [observation |-> l.active, mutation |-> l.mutation,
                              presented |-> presented],
            !.repaint = TRUE]

(* Nothing is drawn by a hidden layer, but the GPU is waited for.           *)
fenceResidentPresentation(l) ==
  IF l.pendingPaint # NoPaint \/ l.residentReceipt # NoReceipt THEN l ELSE Fenced(l, FALSE)

draws(l, succeeds) ==
  LET rolledBack == IF l.pendingPaint # NoPaint
                    THEN rollbackResidencyMutation([l EXCEPT !.pendingPaint = NoPaint],
                                                   l.pendingPaint.mutation)
                    ELSE IF l.mutation # NoMutation
                    THEN rollbackResidencyMutation(l, l.mutation) ELSE l
  IN  IF l.active \notin l.textures THEN [l EXCEPT !.repaint = TRUE]
      ELSE IF ~succeeds THEN fail(rolledBack)
      ELSE IF l.visibility = "resident" THEN fenceResidentPresentation(l)
      ELSE IF l.pendingPaint # NoPaint \/ l.paintReceipt # NoReceipt THEN l
      ELSE Fenced(l, TRUE)

render(l, fence, succeeds) ==
  LET completed == completePendingFence([l EXCEPT !.repaint = FALSE], fence)
  IN  IF fence = "failed" /\ l.pendingPaint # NoPaint THEN completed
      ELSE draws(completed, succeeds)

-----------------------------------------------------------------------------
(* Losing the context, having it back, being removed.                       *)

(* Mutant: a change that is painted but not sealed is kept.                 *)
Interrupted_painted(l) ==
  IF l.pendingPaint.mutation # NoMutation THEN l.pendingPaint.mutation ELSE l.mutation

Interrupted(l) ==
  IF l.pendingPaint.mutation # NoMutation THEN l.pendingPaint.mutation
  ELSE IF l.mutation # NoMutation THEN l.mutation ELSE l.awaitingExternalCommit

beginRecovery(l) ==
  LET mutation == Interrupted(l)
      restored == IF mutation = NoMutation THEN l
                  ELSE rejectPaintWaiter(restoreResidencyState(l, mutation))
      dropped == [clearReceipts(restored) EXCEPT
        !.recovering = TRUE, !.pendingPaint = NoPaint, !.mutation = NoMutation,
        !.awaitingExternalCommit = NoMutation, !.contextEpoch = @ + 1, !.status = "recovering"]
  IN  IF l.recovering THEN l ELSE rollbackStaging(dropped)

(* The event of the loss and the removal of the layer by the map. Only the  *)
(* residents lose their handles: a selected frame that is none, or one that *)
(* a selection may go back to, keeps those of the lost context.             *)
handleContextLost(l) ==
  LET recovery == beginRecovery(l)
      forgotten == {recovery.active, recovery.mutation.active} \ (recovery.residents \cup {None})
  IN  [recovery EXCEPT !.contextLost = TRUE, !.added = FALSE, !.uploading = None,
                       !.uploads = {}, !.pendingPaint = NoPaint, !.repaint = FALSE,
                       !.textures = @ \cap forgotten, !.strays = forgotten]

handleContextRestored(l) == [l EXCEPT !.contextLost = FALSE]

(* startTimeSlicedRehydration: the presentations are listed once, the       *)
(* active one first.                                                        *)
onAdd(l) ==
  [clearReceipts(l) EXCEPT !.added = TRUE, !.status = "recovering", !.repaint = TRUE,
                           !.uploading = l.active, !.uploads = Filled(l) \ {l.active}]

(* The others follow in the order they were added.                          *)
FollowingUpload(l) == IF l.uploads = {} THEN {None} ELSE l.uploads

(* A presentation that was deleted meanwhile has a texture again.           *)
Rehydrates(l, following) ==
  [l EXCEPT !.textures = @ \cup {l.uploading}, !.uploading = following,
            !.uploads = @ \ {following}, !.repaint = TRUE]

onRemove(l) ==
  LET stopped == [l EXCEPT !.uploading = None, !.uploads = {}]
      kept == rejectPaintWaiter(rollbackStaging(stopped))
      uncommitted == kept.awaitingExternalCommit
      restored == IF uncommitted = NoMutation THEN kept
                  ELSE restoreResidencyState(kept, uncommitted)
  IN  [restored EXCEPT !.textures = @ \ restored.residents, !.mutation = NoMutation,
         !.awaitingExternalCommit = NoMutation, !.residents = {}, !.emptied = {},
         !.active = None, !.pendingPaint = NoPaint, !.added = FALSE, !.status = "removed"]
=============================================================================
