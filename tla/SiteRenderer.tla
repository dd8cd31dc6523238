---------------------------- MODULE SiteRenderer ----------------------------
(***************************************************************************)
(* RadarCustomLayer: the renderer of a Site's resident loop of scans. Its  *)
(* methods are called from the code of a callback, several in a row, so a  *)
(* method is an operator on the layer's record and the actions are those   *)
(* of the modules that extend this one.                                    *)
(*                                                                         *)
(* A scan is the number of its measurement: a loop is strictly             *)
(* chronological, so it is a set of scans. The textures of a scan carry    *)
(* its name; gpu is what is allocated on the GPU, which no code keeps.     *)
(* A promise is settled by what `told` says to the task that awaits it.    *)
(***************************************************************************)
EXTENDS Integers, FiniteSets, FiniteSetsExt

CONSTANTS
  Scan,   \* names of scans, numbered as they were measured
  Task,   \* the calls of the playback controller that await something
  None

VARIABLE layer

NoPaint == [scan |-> None, sequence |-> 0]
NoReplacement == [models |-> {}, resident |-> {}, selected |-> None, sequence |-> 0]
Nothing == [what |-> "nothing", scan |-> None, sequence |-> 0]
Failed == [Nothing EXCEPT !.what = "failed"]
Recovered == [Nothing EXCEPT !.what = "recovered"]
Painted(receipt) == [what |-> "painted", scan |-> receipt.scan, sequence |-> receipt.sequence]

(* A layer that has painted the one scan it was made with.                  *)
PaintedLayer(scan) ==
  [models |-> {scan}, resident |-> {scan}, selected |-> scan, sequence |-> 1,
   receipt |-> [scan |-> scan, sequence |-> 1], pendingPaint |-> NoPaint,
   replacement |-> NoReplacement, paintWaiter |-> None, recoveryWaiters |-> {},
   phase |-> "ready", contextLossActive |-> FALSE, added |-> TRUE, listening |-> TRUE,
   error |-> "none", mode |-> "smooth", repaint |-> FALSE, gpu |-> {scan},
   told |-> [t \in Task |-> Nothing]]

IsPainted(l) == l.receipt.sequence = l.sequence
IsReplacing(l) == l.replacement # NoReplacement
OwnedTextures(l) == l.resident \cup l.replacement.resident

-----------------------------------------------------------------------------
(* Promises of a paint and of a recovery.                                   *)

rejectPaintWaiter(l) ==
  IF l.paintWaiter = None THEN l
  ELSE [l EXCEPT !.paintWaiter = None, !.told[l.paintWaiter] = Failed]

resolvePaintWaiter(l) ==
  IF l.paintWaiter = None THEN l
  ELSE [l EXCEPT !.paintWaiter = None, !.told[l.paintWaiter] = Painted(l.receipt)]

settleRecovery(l, outcome) ==
  [l EXCEPT !.recoveryWaiters = {},
            !.told = [t \in Task |-> IF t \in l.recoveryWaiters THEN outcome ELSE @[t]]]

waitForPaint(l, t) ==
  IF IsPainted(l) THEN [l EXCEPT !.told[t] = Painted(l.receipt)]
  ELSE IF l.paintWaiter # None THEN [l EXCEPT !.told[t] = Failed]
  ELSE [l EXCEPT !.paintWaiter = t]

waitForRecovery(l, t) == [l EXCEPT !.recoveryWaiters = @ \cup {t}]

(* A wait for a paint is timed while the context is there, one for a        *)
(* recovery always is.                                                      *)
paintWaiterExpires(l) == rejectPaintWaiter(l)
recoveryWaiterExpires(l, t) ==
  [l EXCEPT !.recoveryWaiters = @ \ {t}, !.told[t] = Failed]

failRenderer(l) == settleRecovery(rejectPaintWaiter([l EXCEPT !.error = "fatal"]), Failed)

-----------------------------------------------------------------------------
(* Selecting a scan, and changing the resident loop.                        *)

MaySelect(l, scan) ==
  l.phase = "ready" /\ scan \in l.resident /\ l.pendingPaint = NoPaint /\ IsPainted(l)

selectFrame(l, scan) ==
  IF scan = l.selected THEN l
  ELSE [l EXCEPT !.selected = scan, !.sequence = @ + 1, !.repaint = TRUE]

selectAndWait(l, t, scan) ==
  IF MaySelect(l, scan) THEN waitForPaint(selectFrame(l, scan), t)
  ELSE [l EXCEPT !.told[t] = Failed]

MayReplace(l) ==
  /\ l.added /\ l.pendingPaint = NoPaint /\ IsPainted(l) /\ ~IsReplacing(l)

(* One scan more, at most one less, all others the resident ones.           *)
MayUpdate(l, scans, selected) ==
  /\ MayReplace(l) /\ l.phase = "ready"
  /\ selected \in scans
  /\ Cardinality(scans \ l.models) = 1
  /\ Cardinality(l.resident \ scans) <= 1

Uploads(l, scans, selected) ==
  [l EXCEPT !.replacement = [models |-> l.models, resident |-> l.resident,
                             selected |-> l.selected, sequence |-> l.sequence],
            !.gpu = @ \cup scans, !.models = scans, !.resident = scans,
            !.selected = selected, !.error = "none"]

replaceResidentFrames(l, scans) ==
  [Uploads(l, scans, Min(scans)) EXCEPT !.sequence = @ + 1, !.repaint = TRUE]

(* Mutant: another selection has the number of the last.                    *)
updateResidentHistory_unnumbered(l, scans, selected) ==
  [Uploads(l, scans, selected) EXCEPT !.repaint = TRUE]

updateResidentHistory(l, scans, selected) ==
  IF selected = l.selected THEN Uploads(l, scans, selected)
  ELSE [Uploads(l, scans, selected) EXCEPT !.sequence = @ + 1, !.repaint = TRUE]

MayCommit(l, sequence) ==
  /\ IsReplacing(l) /\ l.added
  /\ l.pendingPaint = NoPaint /\ IsPainted(l) /\ sequence = l.sequence

(* Mutant: the scan that fell out of the loop stays on the GPU.             *)
commitResidentFrameReplacement_leaks(l) == [l EXCEPT !.replacement = NoReplacement]

commitResidentFrameReplacement(l) ==
  [l EXCEPT !.gpu = @ \ (l.replacement.resident \ l.resident), !.replacement = NoReplacement]

(* The pixels of the rejected loop may be on the screen: its receipt goes,  *)
(* and the restored selection is drawn and waited for again.                *)
rollbackResidentFrameReplacement(l, t) ==
  LET previous == l.replacement
      restored == [rejectPaintWaiter(l) EXCEPT
        !.gpu = @ \ (l.resident \ previous.resident),
        !.models = previous.models, !.resident = previous.resident,
        !.selected = previous.selected, !.sequence = previous.sequence,
        !.pendingPaint = NoPaint, !.receipt = NoPaint, !.replacement = NoReplacement,
        !.error = "none", !.repaint = TRUE]
  IN  waitForPaint(restored, t)

setDisplayMode(l, mode) == [l EXCEPT !.mode = mode, !.repaint = TRUE]

MayRetryInNative(l) ==
  /\ l.mode = "smooth" /\ l.error = "smooth" /\ l.phase = "ready"
  /\ l.added /\ l.pendingPaint = NoPaint

retryFailedSmoothDrawInNative(l) ==
  [l EXCEPT !.mode = "native", !.error = "none", !.repaint = TRUE]

-----------------------------------------------------------------------------
(* Drawing. A fence is "signalled", "waiting" or "failed"; a draw "drawn",  *)
(* "refused" by the shading mode, or "failed" for another reason.           *)

AfterVisiblePaint(l) ==
  IF l.phase # "painting_visible_frame" THEN resolvePaintWaiter(l)
  ELSE [l EXCEPT !.repaint = TRUE,
                 !.phase = IF l.resident = l.models THEN "verifying_loop" ELSE "rehydrating_loop"]

completePendingFence(l, fence) ==
  IF l.pendingPaint = NoPaint THEN l
  ELSE CASE fence = "waiting" -> [l EXCEPT !.repaint = TRUE]
         [] fence = "failed" ->
              rejectPaintWaiter([l EXCEPT !.error = "fatal", !.pendingPaint = NoPaint])
         [] fence = "signalled" ->
              AfterVisiblePaint([l EXCEPT !.receipt = l.pendingPaint, !.pendingPaint = NoPaint])

completeRecoveryFence(l, fence) ==
  IF l.phase # "verifying_loop" THEN l
  ELSE CASE fence = "waiting" -> [l EXCEPT !.repaint = TRUE]
         [] fence = "failed" -> failRenderer(l)
         [] fence = "signalled" ->
              LET ready == [l EXCEPT !.phase = "ready"]
              IN  settleRecovery(IF l.receipt = NoPaint THEN ready ELSE resolvePaintWaiter(ready),
                                 Recovered)

(* One frame more in each drawing; an upload that fails fails the renderer. *)
rehydrateNextFrame(l, uploads) ==
  LET resident == l.resident \cup {Min(l.models \ l.resident)}
  IN  IF l.phase # "rehydrating_loop" THEN l
      ELSE IF ~uploads THEN failRenderer(l)
      ELSE [l EXCEPT !.resident = resident, !.gpu = @ \cup resident, !.repaint = TRUE,
                     !.phase = IF resident = l.models THEN "verifying_loop" ELSE @]

handleDrawFailure(l, draw) ==
  LET failed == [l EXCEPT !.error = IF draw = "refused" /\ l.mode = "smooth"
                                    THEN "smooth" ELSE "fatal"]
  IN  IF failed.paintWaiter = None /\ MayRetryInNative(failed)
      THEN retryFailedSmoothDrawInNative(failed)
      ELSE rejectPaintWaiter(failed)

draws(l, draw) ==
  IF draw # "drawn" THEN handleDrawFailure(l, draw)
  ELSE IF IsPainted(l) \/ l.pendingPaint # NoPaint THEN l
  ELSE [l EXCEPT !.pendingPaint = [scan |-> l.selected, sequence |-> l.sequence],
                 !.repaint = TRUE]

(* The fences of the selected scan and of the loop, the upload of a frame,  *)
(* then the draw: what happened to each is what the GPU answers.            *)
render(l, answer) ==
  LET painted == completePendingFence([l EXCEPT !.repaint = FALSE], answer.paint)
      verified == completeRecoveryFence(painted, answer.loop)
      uploaded == rehydrateNextFrame(verified, answer.uploads)
  IN  IF uploaded.error = "none" THEN draws(uploaded, answer.draw)
      ELSE IF uploaded.phase = "ready" THEN uploaded ELSE settleRecovery(uploaded, Failed)

-----------------------------------------------------------------------------
(* Losing the context, having it back, being removed.                       *)

deleteResources(l) ==
  [l EXCEPT !.gpu = {}, !.resident = {}, !.pendingPaint = NoPaint,
            !.replacement = NoReplacement, !.added = FALSE]

beginContextRecovery(l) ==
  LET abandoned == IF ~IsReplacing(l) THEN l
                   ELSE [rejectPaintWaiter(l) EXCEPT
                           !.models = l.replacement.models,
                           !.selected = l.replacement.selected,
                           !.sequence = l.replacement.sequence]
  IN  [abandoned EXCEPT !.contextLossActive = TRUE, !.phase = "context_lost",
                        !.receipt = NoPaint, !.error = "none"]

(* The event of the loss and the removal of the layer by the map.           *)
handleContextLost(l) == deleteResources(beginContextRecovery(l))

handleContextRestored(l) ==
  [l EXCEPT !.contextLossActive = FALSE,
            !.phase = IF l.phase = "ready" THEN @ ELSE "waiting_for_style"]

MayReadd(l) == l.listening /\ l.phase = "waiting_for_style"

(* Added again, the layer uploads the selected scan alone.                  *)
createResources(l) ==
  [l EXCEPT !.added = TRUE, !.resident = {l.selected}, !.gpu = {l.selected}, !.repaint = TRUE]

onAdd(l, uploads) ==
  LET painting == [l EXCEPT !.phase = "painting_visible_frame"]
  IN  IF uploads THEN createResources(painting) ELSE deleteResources(failRenderer(painting))

onRemove(l) ==
  settleRecovery(rejectPaintWaiter([deleteResources(l) EXCEPT !.listening = FALSE]), Failed)
=============================================================================
