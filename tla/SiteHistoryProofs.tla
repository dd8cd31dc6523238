-------------------------- MODULE SiteHistoryProofs --------------------------
(***************************************************************************)
(* What the renderer of a Site shows and owns, when its loop plays, whom   *)
(* the calls wait for, and that the histories of the sessions, of the      *)
(* controller and of the renderer stay together.                           *)
(***************************************************************************)
EXTENDS SiteHistory, TLAPS, WellFoundedInduction

LayerFields ==
  {"models", "resident", "selected", "sequence", "receipt", "pendingPaint", "replacement",
   "paintWaiter", "recoveryWaiters", "phase", "contextLossActive", "added", "listening",
   "error", "mode", "repaint", "gpu", "told"}

(* The numbers of what is selected, shown, drawn and may be gone back to.   *)
NumbersInv(l) ==
  /\ l.sequence \in Nat \ {0}
  /\ \A paint \in {l.receipt, l.pendingPaint} :
       /\ paint.sequence \in Nat
       /\ paint.sequence <= l.sequence
       /\ paint.sequence = l.sequence => paint.scan = l.selected

ReplacementInv(l) ==
  l.replacement # NoReplacement =>
    /\ l.added
    /\ l.replacement.sequence \in Nat \ {0}
    /\ l.replacement.sequence <= l.sequence
    /\ l.replacement.selected \in l.replacement.resident

ResourcesInv(l) ==
  /\ l.added => l.selected \in l.resident /\ l.gpu = OwnedTextures(l)
  /\ l.phase \in {"context_lost", "waiting_for_style"} => ~l.added
  /\ l.contextLossActive => l.phase = "context_lost"

LayerInv(l) ==
  /\ DOMAIN l = LayerFields
  /\ NumbersInv(l) /\ ReplacementInv(l) /\ ResourcesInv(l)

LEMMA PaintedLayerInv ==
  ASSUME NEW scan
  PROVE  LayerInv(PaintedLayer(scan))
<1> DEFINE l == PaintedLayer(scan)
<1>1. DOMAIN l = LayerFields
  BY DEF PaintedLayer, LayerFields
<1>2. QED
  BY <1>1 DEF PaintedLayer, LayerInv, NumbersInv, ReplacementInv, ResourcesInv, NoPaint,
     NoReplacement, OwnedTextures

(* The two differ in nothing the invariant is about.                        *)
LooksLike(m, l) ==
  /\ DOMAIN m = LayerFields
  /\ m.resident = l.resident /\ m.selected = l.selected /\ m.sequence = l.sequence
  /\ m.receipt = l.receipt /\ m.pendingPaint = l.pendingPaint
  /\ m.replacement = l.replacement /\ m.phase = l.phase
  /\ m.contextLossActive = l.contextLossActive /\ m.added = l.added /\ m.gpu = l.gpu

LEMMA Alike ==
  ASSUME NEW l, NEW m, LayerInv(l), LooksLike(m, l)
  PROVE  LayerInv(m)
BY DEF LooksLike, LayerInv, NumbersInv, ReplacementInv, ResourcesInv, OwnedTextures

LEMMA Promises ==
  ASSUME NEW l, DOMAIN l = LayerFields, NEW t, NEW outcome
  PROVE  /\ LooksLike(rejectPaintWaiter(l), l)
         /\ LooksLike(resolvePaintWaiter(l), l)
         /\ LooksLike(settleRecovery(l, outcome), l)
         /\ LooksLike(waitForPaint(l, t), l)
         /\ LooksLike(waitForRecovery(l, t), l)
         /\ LooksLike(recoveryWaiterExpires(l, t), l)
         /\ LooksLike(failRenderer(l), l)
<1>1. LooksLike(rejectPaintWaiter(l), l)
  BY DEF LooksLike, rejectPaintWaiter, LayerFields
<1>2. LooksLike(resolvePaintWaiter(l), l)
  BY DEF LooksLike, resolvePaintWaiter, LayerFields
<1>3. LooksLike(settleRecovery(l, outcome), l)
  BY DEF LooksLike, settleRecovery, LayerFields
<1>4. LooksLike(waitForPaint(l, t), l)
  BY DEF LooksLike, waitForPaint, LayerFields
<1>5. LooksLike(waitForRecovery(l, t), l)
  BY DEF LooksLike, waitForRecovery, LayerFields
<1>6. LooksLike(recoveryWaiterExpires(l, t), l)
  BY DEF LooksLike, recoveryWaiterExpires, LayerFields
<1>7. LooksLike(failRenderer(l), l)
  BY DEF LooksLike, failRenderer, rejectPaintWaiter, settleRecovery, LayerFields
<1>8. QED
  BY <1>1, <1>2, <1>3, <1>4, <1>5, <1>6, <1>7

LEMMA Answers ==
  ASSUME NEW l, DOMAIN l = LayerFields, NEW t, NEW answer, NEW mode
  PROVE  /\ LooksLike([l EXCEPT !.told[t] = answer], l)
         /\ LooksLike(setDisplayMode(l, mode), l)
         /\ LooksLike(retryFailedSmoothDrawInNative(l), l)
BY DEF LooksLike, LayerFields, setDisplayMode, retryFailedSmoothDrawInNative

(* Whatever a task is told or waits for, the screen is not changed by it.   *)
LEMMA Waiting ==
  ASSUME NEW l, LayerInv(l), NEW t, NEW answer
  PROVE  /\ LayerInv(waitForPaint(l, t))
         /\ LayerInv(waitForRecovery(l, t))
         /\ LayerInv(recoveryWaiterExpires(l, t))
         /\ LayerInv(rejectPaintWaiter(l))
         /\ LayerInv(resolvePaintWaiter(l))
         /\ LayerInv(settleRecovery(l, answer))
         /\ LayerInv(failRenderer(l))
         /\ LayerInv([l EXCEPT !.told[t] = answer])
<1>1. DOMAIN l = LayerFields
  BY DEF LayerInv
<1>2. QED
  BY <1>1, Promises, Answers, Alike

-----------------------------------------------------------------------------
(* The methods that change the loop.                                        *)

LEMMA SelectInv ==
  ASSUME NEW l, LayerInv(l), NEW t, NEW scan
  PROVE  LayerInv(selectAndWait(l, t, scan))
<1>1. CASE MaySelect(l, scan)
  <2>1. LayerInv(selectFrame(l, scan))
    BY <1>1 DEF selectFrame, MaySelect, LayerInv, LayerFields, NumbersInv, ReplacementInv,
       ResourcesInv, OwnedTextures, IsPainted, NoPaint
  <2>2. QED
    BY <1>1, <2>1, Waiting DEF selectAndWait
<1>2. QED
  BY <1>1, Waiting DEF selectAndWait

LEMMA UploadsInv ==
  ASSUME NEW l, LayerInv(l), MayReplace(l), NEW scans, NEW selected \in scans
  PROVE  /\ selected = l.selected => LayerInv(Uploads(l, scans, selected))
         /\ LayerInv([Uploads(l, scans, selected) EXCEPT !.sequence = @ + 1, !.repaint = TRUE])
<1> DEFINE m == Uploads(l, scans, selected)
           n == [m EXCEPT !.sequence = @ + 1, !.repaint = TRUE]
<1> USE DEF LayerFields
<1>1. DOMAIN l = LayerFields /\ l.added /\ l.selected \in l.resident
      /\ l.gpu = l.resident /\ l.replacement = NoReplacement
  BY DEF LayerInv, ResourcesInv, MayReplace, OwnedTextures, NoReplacement, IsReplacing
<1>2. /\ DOMAIN m = LayerFields
      /\ m.resident = scans /\ m.selected = selected /\ m.gpu = l.gpu \cup scans
      /\ m.sequence = l.sequence /\ m.receipt = l.receipt
      /\ m.pendingPaint = l.pendingPaint /\ m.added = l.added /\ m.phase = l.phase
      /\ m.contextLossActive = l.contextLossActive
      /\ m.replacement = [models |-> l.models, resident |-> l.resident,
                          selected |-> l.selected, sequence |-> l.sequence]
  BY <1>1 DEF Uploads
<1>3. /\ DOMAIN n = LayerFields
      /\ n.resident = scans /\ n.selected = selected /\ n.gpu = l.gpu \cup scans
      /\ n.sequence = l.sequence + 1 /\ n.receipt = l.receipt
      /\ n.pendingPaint = l.pendingPaint /\ n.added = l.added /\ n.phase = l.phase
      /\ n.contextLossActive = l.contextLossActive
      /\ n.replacement = m.replacement
  BY <1>2
<1> HIDE DEF m, n, LayerFields
<1>4. /\ ReplacementInv(m) /\ ReplacementInv(n)
      /\ ResourcesInv(m) /\ ResourcesInv(n)
  BY <1>1, <1>2, <1>3 DEF LayerInv, NumbersInv, ReplacementInv, ResourcesInv, OwnedTextures
<1>5. NumbersInv(n) /\ (selected = l.selected => NumbersInv(m))
  BY <1>2, <1>3 DEF LayerInv, NumbersInv
<1>6. LayerInv(n) /\ (selected = l.selected => LayerInv(m))
  BY <1>2, <1>3, <1>4, <1>5 DEF LayerInv
<1>7. QED
  BY <1>6 DEF m, n

LEMMA CommitInv ==
  ASSUME NEW l, LayerInv(l), IsReplacing(l)
  PROVE  LayerInv(commitResidentFrameReplacement(l))
<1> DEFINE m == commitResidentFrameReplacement(l)
<1>1. /\ DOMAIN m = LayerFields
      /\ m.gpu = l.gpu \ (l.replacement.resident \ l.resident)
      /\ m.replacement = NoReplacement
      /\ m.resident = l.resident /\ m.selected = l.selected
      /\ m.sequence = l.sequence /\ m.receipt = l.receipt
      /\ m.pendingPaint = l.pendingPaint /\ m.added = l.added /\ m.phase = l.phase
      /\ m.contextLossActive = l.contextLossActive
  BY DEF commitResidentFrameReplacement, LayerInv, LayerFields
<1> HIDE DEF m
<1>2. m.added => m.gpu = OwnedTextures(m)
  BY <1>1 DEF LayerInv, ResourcesInv, OwnedTextures, NoReplacement
<1>3. LayerInv(m)
  BY <1>1, <1>2 DEF LayerInv, NumbersInv, ReplacementInv, ResourcesInv
<1>4. QED
  BY <1>3 DEF m

LEMMA RollbackInv ==
  ASSUME NEW l, LayerInv(l), IsReplacing(l), NEW t
  PROVE  LayerInv(rollbackResidentFrameReplacement(l, t))
<1> DEFINE previous == l.replacement
           rejected == rejectPaintWaiter(l)
           m == [rejected EXCEPT
                   !.gpu = @ \ (l.resident \ previous.resident),
                   !.models = previous.models, !.resident = previous.resident,
                   !.selected = previous.selected, !.sequence = previous.sequence,
                   !.pendingPaint = NoPaint, !.receipt = NoPaint,
                   !.replacement = NoReplacement,
                   !.error = "none", !.repaint = TRUE]
<1>1. LooksLike(rejected, l)
  BY Promises DEF LayerInv
<1> HIDE DEF rejected
<1>2. /\ DOMAIN m = LayerFields
      /\ m.gpu = l.gpu \ (l.resident \ l.replacement.resident)
      /\ m.replacement = NoReplacement
      /\ m.resident = l.replacement.resident /\ m.selected = l.replacement.selected
      /\ m.sequence = l.replacement.sequence /\ m.receipt = NoPaint
      /\ m.pendingPaint = NoPaint /\ m.added = l.added /\ m.phase = l.phase
      /\ m.contextLossActive = l.contextLossActive
  BY <1>1 DEF LooksLike, LayerFields
<1> HIDE DEF m
<1>3. m.added => m.gpu = OwnedTextures(m)
  BY <1>2 DEF LayerInv, ResourcesInv, OwnedTextures, NoReplacement
<1>4. NumbersInv(m)
  BY <1>2 DEF LayerInv, NumbersInv, ReplacementInv, NoPaint, IsReplacing
<1>5. LayerInv(m)
  BY <1>2, <1>3, <1>4 DEF LayerInv, ReplacementInv, ResourcesInv, IsReplacing
<1>6. LayerInv(waitForPaint(m, t))
  BY <1>5, Waiting
<1>7. rollbackResidentFrameReplacement(l, t) = waitForPaint(m, t)
  BY DEF rollbackResidentFrameReplacement, m, rejected
<1>8. QED
  BY <1>6, <1>7

-----------------------------------------------------------------------------
(* A drawing, step by step: what it leaves is again a layer of the kind.    *)

(* Nothing of the loop is changed by a change of these fields.              *)
LEMMA PaintIsTaken ==
  ASSUME NEW l, LayerInv(l)
  PROVE  /\ LayerInv([l EXCEPT !.repaint = FALSE])
         /\ LayerInv([l EXCEPT !.repaint = TRUE])
         /\ LayerInv([l EXCEPT !.error = "fatal", !.pendingPaint = NoPaint])
         /\ LayerInv([l EXCEPT !.receipt = l.pendingPaint, !.pendingPaint = NoPaint])
         /\ LayerInv([l EXCEPT !.pendingPaint = [scan |-> l.selected, sequence |-> l.sequence],
                               !.repaint = TRUE])
BY DEF LayerInv, LayerFields, NumbersInv, ReplacementInv, ResourcesInv, OwnedTextures, NoPaint

(* The layer that draws is added, and recovers if it is not ready.          *)
Phases == {"ready", "painting_visible_frame", "rehydrating_loop", "verifying_loop"}

LEMMA PhaseAdvances ==
  ASSUME NEW l, LayerInv(l), l.added, NEW phase \in Phases
  PROVE  /\ LayerInv([l EXCEPT !.phase = phase])
         /\ LayerInv([l EXCEPT !.repaint = TRUE, !.phase = phase])
BY DEF LayerInv, LayerFields, NumbersInv, ReplacementInv, ResourcesInv, OwnedTextures, Phases

LEMMA StillAdded ==
  ASSUME NEW l, LayerInv(l), l.added
  PROVE  /\ LayerInv(rejectPaintWaiter(l)) /\ rejectPaintWaiter(l).added
         /\ LayerInv(resolvePaintWaiter(l)) /\ resolvePaintWaiter(l).added
         /\ LayerInv(failRenderer(l)) /\ failRenderer(l).added
         /\ LayerInv(settleRecovery(l, Recovered)) /\ settleRecovery(l, Recovered).added
<1>1. DOMAIN l = LayerFields
  BY DEF LayerInv
<1>2. \A m : LooksLike(m, l) => LayerInv(m) /\ m.added
  BY Alike DEF LooksLike
<1>3. /\ LooksLike(rejectPaintWaiter(l), l)
      /\ LooksLike(resolvePaintWaiter(l), l)
      /\ LooksLike(settleRecovery(l, Recovered), l)
      /\ LooksLike(failRenderer(l), l)
  BY <1>1, Promises
<1>4. QED
  BY <1>2, <1>3

LEMMA FenceInv ==
  ASSUME NEW l, LayerInv(l), l.added, NEW fence \in {"signalled", "waiting", "failed"}
  PROVE  LET m == completePendingFence(l, fence) IN LayerInv(m) /\ m.added
<1>1. DOMAIN l = LayerFields
  BY DEF LayerInv
<1> DEFINE taken == [l EXCEPT !.receipt = l.pendingPaint, !.pendingPaint = NoPaint]
           dropped == [l EXCEPT !.error = "fatal", !.pendingPaint = NoPaint]
<1>2. LayerInv(taken) /\ taken.added /\ DOMAIN taken = LayerFields
  BY <1>1, PaintIsTaken DEF LayerFields
<1>3. LayerInv(dropped) /\ dropped.added /\ DOMAIN dropped = LayerFields
  BY <1>1, PaintIsTaken DEF LayerFields
<1>4. LayerInv(rejectPaintWaiter(dropped)) /\ rejectPaintWaiter(dropped).added
  BY <1>3, StillAdded
<1>5. LayerInv([l EXCEPT !.repaint = TRUE]) /\ [l EXCEPT !.repaint = TRUE].added
  BY <1>1, PaintIsTaken DEF LayerFields
<1>6. LayerInv(AfterVisiblePaint(taken)) /\ AfterVisiblePaint(taken).added
  <2> HIDE DEF taken
  <2>1. CASE taken.phase # "painting_visible_frame"
    <3>1. AfterVisiblePaint(taken) = resolvePaintWaiter(taken)
      BY <2>1 DEF AfterVisiblePaint
    <3>2. QED
      BY <1>2, <3>1, StillAdded
  <2>2. CASE taken.phase = "painting_visible_frame"
    <3> DEFINE phase == IF taken.resident = taken.models THEN "verifying_loop"
                        ELSE "rehydrating_loop"
    <3>1. phase \in Phases
      BY DEF Phases
    <3>2. AfterVisiblePaint(taken) = [taken EXCEPT !.repaint = TRUE, !.phase = phase]
      BY <2>2 DEF AfterVisiblePaint
    <3> HIDE DEF phase
    <3>3. [taken EXCEPT !.repaint = TRUE, !.phase = phase].added
      BY <1>2 DEF LayerFields
    <3>4. LayerInv([taken EXCEPT !.repaint = TRUE, !.phase = phase])
      BY <1>2, <3>1, PhaseAdvances
    <3>5. QED
      BY <3>2, <3>3, <3>4
  <2>3. QED
    BY <2>1, <2>2
<1> HIDE DEF taken, dropped
<1>7. CASE l.pendingPaint = NoPaint
  BY <1>7 DEF completePendingFence
<1>8. CASE l.pendingPaint # NoPaint /\ fence = "waiting"
  BY <1>5, <1>8 DEF completePendingFence
<1>9. CASE l.pendingPaint # NoPaint /\ fence = "failed"
  <2>1. completePendingFence(l, fence) = rejectPaintWaiter(dropped)
    BY <1>9 DEF completePendingFence, dropped
  <2>2. QED
    BY <1>4, <2>1
<1>10. CASE l.pendingPaint # NoPaint /\ fence = "signalled"
  <2>1. completePendingFence(l, fence) = AfterVisiblePaint(taken)
    BY <1>10 DEF completePendingFence, taken
  <2>2. QED
    BY <1>6, <2>1
<1>11. QED
  BY <1>7, <1>8, <1>9, <1>10

LEMMA RecoveryFenceInv ==
  ASSUME NEW l, LayerInv(l), l.added, NEW fence \in {"signalled", "waiting", "failed"}
  PROVE  LET m == completeRecoveryFence(l, fence) IN LayerInv(m) /\ m.added
<1>1. DOMAIN l = LayerFields
  BY DEF LayerInv
<1> DEFINE ready == [l EXCEPT !.phase = "ready"]
           told == IF l.receipt = NoPaint THEN ready ELSE resolvePaintWaiter(ready)
<1>2. LayerInv(ready) /\ ready.added /\ DOMAIN ready = LayerFields
  BY <1>1, PhaseAdvances DEF LayerFields, Phases
<1> HIDE DEF ready
<1>3. LayerInv(told) /\ told.added
  BY <1>2, StillAdded
<1> HIDE DEF told
<1>4. LayerInv(settleRecovery(told, Recovered)) /\ settleRecovery(told, Recovered).added
  BY <1>3, StillAdded
<1>5. LayerInv(failRenderer(l)) /\ failRenderer(l).added
  BY StillAdded
<1>6. LayerInv([l EXCEPT !.repaint = TRUE]) /\ [l EXCEPT !.repaint = TRUE].added
  BY <1>1, PaintIsTaken DEF LayerFields
<1>7. CASE l.phase # "verifying_loop"
  BY <1>7 DEF completeRecoveryFence
<1>8. CASE l.phase = "verifying_loop" /\ fence = "waiting"
  BY <1>6, <1>8 DEF completeRecoveryFence
<1>9. CASE l.phase = "verifying_loop" /\ fence = "failed"
  BY <1>5, <1>9 DEF completeRecoveryFence
<1>10. CASE l.phase = "verifying_loop" /\ fence = "signalled"
  <2>1. completeRecoveryFence(l, fence) = settleRecovery(told, Recovered)
    BY <1>10 DEF completeRecoveryFence, told, ready
  <2>2. QED
    BY <1>4, <2>1
<1>11. QED
  BY <1>7, <1>8, <1>9, <1>10

LEMMA RehydrateInv ==
  ASSUME NEW l, LayerInv(l), l.added, NEW uploads \in BOOLEAN
  PROVE  LET m == rehydrateNextFrame(l, uploads) IN LayerInv(m) /\ m.added
<1>1. DOMAIN l = LayerFields
  BY DEF LayerInv
<1> DEFINE resident == l.resident \cup {Min(l.models \ l.resident)}
           phase == IF resident = l.models THEN "verifying_loop" ELSE l.phase
           m == [l EXCEPT !.resident = resident, !.gpu = @ \cup resident, !.repaint = TRUE,
                          !.phase = phase]
<1>2. CASE l.phase # "rehydrating_loop"
  BY <1>2 DEF rehydrateNextFrame
<1>3. CASE l.phase = "rehydrating_loop" /\ ~uploads
  <2>1. rehydrateNextFrame(l, uploads) = failRenderer(l)
    BY <1>3 DEF rehydrateNextFrame
  <2>2. QED
    BY <2>1, StillAdded
<1>4. CASE l.phase = "rehydrating_loop" /\ uploads
  <2>1. rehydrateNextFrame(l, uploads) = m
    BY <1>4 DEF rehydrateNextFrame
  <2>2. phase \in Phases /\ l.resident \subseteq resident
    BY <1>4 DEF Phases
  <2> HIDE DEF resident, phase
  <2>3. /\ DOMAIN m = LayerFields
        /\ m.gpu = l.gpu \cup resident /\ m.resident = resident /\ m.phase = phase
        /\ m.replacement = l.replacement /\ m.selected = l.selected
        /\ m.sequence = l.sequence /\ m.receipt = l.receipt
        /\ m.pendingPaint = l.pendingPaint /\ m.added = l.added
        /\ m.contextLossActive = l.contextLossActive
    BY <1>1 DEF LayerFields
  <2> HIDE DEF m
  <2>4. ResourcesInv(m)
    BY <1>4, <2>2, <2>3 DEF LayerInv, ResourcesInv, OwnedTextures, Phases
  <2>5. LayerInv(m) /\ m.added
    BY <2>3, <2>4 DEF LayerInv, NumbersInv, ReplacementInv
  <2>6. QED
    BY <2>1, <2>5
<1>5. QED
  BY <1>2, <1>3, <1>4

LEMMA DrawInv ==
  ASSUME NEW l, LayerInv(l), l.added, NEW draw
  PROVE  LayerInv(draws(l, draw))
<1>1. DOMAIN l = LayerFields
  BY DEF LayerInv
<1>2. CASE draw # "drawn"
  <2> DEFINE failed == [l EXCEPT !.error = IF draw = "refused" /\ l.mode = "smooth"
                                           THEN "smooth" ELSE "fatal"]
  <2>1. LooksLike(failed, l)
    BY <1>1 DEF LooksLike, LayerFields
  <2>2. LayerInv(failed) /\ DOMAIN failed = LayerFields
    BY <2>1, Alike DEF LooksLike
  <2>3. \/ draws(l, draw) = retryFailedSmoothDrawInNative(failed)
        \/ draws(l, draw) = rejectPaintWaiter(failed)
    BY <1>2 DEF draws, handleDrawFailure
  <2> HIDE DEF failed
  <2>4. LayerInv(retryFailedSmoothDrawInNative(failed)) /\ LayerInv(rejectPaintWaiter(failed))
    BY <2>2, Answers, Alike, Waiting
  <2>5. QED
    BY <2>3, <2>4
<1>3. CASE draw = "drawn"
  BY <1>3, PaintIsTaken DEF draws
<1>4. QED
  BY <1>2, <1>3

LEMMA RenderInv ==
  ASSUME NEW l, LayerInv(l), l.added,
         NEW answer \in [paint : {"signalled", "waiting", "failed"},
                         loop : {"signalled", "waiting", "failed"}, uploads : BOOLEAN,
                         draw : {"drawn", "refused", "failed"}]
  PROVE  LayerInv(render(l, answer))
<1> DEFINE begun == [l EXCEPT !.repaint = FALSE]
           painted == completePendingFence(begun, answer.paint)
           verified == completeRecoveryFence(painted, answer.loop)
           uploaded == rehydrateNextFrame(verified, answer.uploads)
<1>1. LayerInv(begun) /\ begun.added
  BY PaintIsTaken DEF LayerInv, LayerFields
<1> HIDE DEF begun
<1>2. LayerInv(painted) /\ painted.added
  BY <1>1, FenceInv
<1> HIDE DEF painted
<1>3. LayerInv(verified) /\ verified.added
  BY <1>2, RecoveryFenceInv
<1> HIDE DEF verified
<1>4. LayerInv(uploaded) /\ uploaded.added
  BY <1>3, RehydrateInv
<1> HIDE DEF uploaded
<1>5. /\ LayerInv(draws(uploaded, answer.draw))
      /\ LayerInv(settleRecovery(uploaded, Failed))
  BY <1>4, DrawInv, Waiting
<1>6. \/ render(l, answer) = draws(uploaded, answer.draw)
      \/ render(l, answer) = uploaded
      \/ render(l, answer) = settleRecovery(uploaded, Failed)
  BY DEF render, uploaded, verified, painted, begun
<1>7. QED
  BY <1>4, <1>5, <1>6

-----------------------------------------------------------------------------
(* The loss of the context, its return, and the removal of the layer.       *)

LEMMA DeletedInv ==
  ASSUME NEW l, DOMAIN l = LayerFields, NumbersInv(l),
         l.contextLossActive => l.phase = "context_lost"
  PROVE  /\ LayerInv(deleteResources(l))
         /\ LayerInv([deleteResources(l) EXCEPT !.listening = FALSE])
BY DEF deleteResources, LayerInv, LayerFields, NumbersInv, ReplacementInv, ResourcesInv, NoPaint

LEMMA LostInv ==
  ASSUME NEW l, LayerInv(l)
  PROVE  LayerInv(handleContextLost(l))
<1> DEFINE rejected == rejectPaintWaiter(l)
           abandoned == IF ~IsReplacing(l) THEN l
                        ELSE [rejected EXCEPT !.models = l.replacement.models,
                                              !.selected = l.replacement.selected,
                                              !.sequence = l.replacement.sequence]
           m == beginContextRecovery(l)
<1>1. LooksLike(rejected, l)
  BY Promises DEF LayerInv
<1> HIDE DEF rejected
<1>2. /\ DOMAIN abandoned = LayerFields
      /\ abandoned.sequence \in Nat \ {0}
      /\ abandoned.pendingPaint = l.pendingPaint
  BY <1>1 DEF LooksLike, LayerInv, LayerFields, NumbersInv, ReplacementInv, IsReplacing
<1>3. m = [abandoned EXCEPT !.contextLossActive = TRUE, !.phase = "context_lost",
                            !.receipt = NoPaint, !.error = "none"]
  BY DEF beginContextRecovery, rejected
<1> HIDE DEF abandoned, m
<1>4. /\ DOMAIN m = LayerFields
      /\ m.phase = "context_lost" /\ m.receipt = NoPaint
      /\ m.sequence \in Nat \ {0}
  BY <1>2, <1>3 DEF LayerFields
<1> DEFINE n == deleteResources(m)
<1>5. /\ DOMAIN n = LayerFields
      /\ n.phase = "context_lost" /\ n.receipt = NoPaint /\ n.pendingPaint = NoPaint
      /\ n.sequence \in Nat \ {0} /\ n.added = FALSE /\ n.replacement = NoReplacement
  BY <1>4 DEF deleteResources, LayerFields
<1> HIDE DEF n
<1>6. LayerInv(n)
  BY <1>5 DEF LayerInv, NumbersInv, ReplacementInv, ResourcesInv, NoPaint
<1>7. QED
  BY <1>6 DEF handleContextLost, n, m

LEMMA RestoredInv ==
  ASSUME NEW l, LayerInv(l), l.contextLossActive
  PROVE  LayerInv(handleContextRestored(l))
BY DEF handleContextRestored, LayerInv, LayerFields, NumbersInv, ReplacementInv,
       ResourcesInv, OwnedTextures

LEMMA AddedInv ==
  ASSUME NEW l, LayerInv(l), MayReadd(l), NEW uploads \in BOOLEAN
  PROVE  LayerInv(onAdd(l, uploads))
<1> DEFINE painting == [l EXCEPT !.phase = "painting_visible_frame"]
<1>1. /\ l.phase = "waiting_for_style" /\ ~l.added /\ l.replacement = NoReplacement
      /\ ~l.contextLossActive /\ DOMAIN l = LayerFields
  BY DEF MayReadd, LayerInv, ReplacementInv, ResourcesInv
<1>2. /\ DOMAIN painting = LayerFields /\ NumbersInv(painting)
      /\ painting.replacement = NoReplacement
      /\ painting.phase = "painting_visible_frame" /\ ~painting.contextLossActive
  BY <1>1 DEF LayerInv, LayerFields, NumbersInv
<1> HIDE DEF painting
<1>3. LayerInv(createResources(painting))
  BY <1>2 DEF createResources, LayerInv, LayerFields, NumbersInv, ReplacementInv,
     ResourcesInv, OwnedTextures, NoReplacement
<1>4. LayerInv(deleteResources(failRenderer(painting)))
  <2>1. LooksLike(failRenderer(painting), painting)
    BY <1>2, Promises
  <2>2. QED
    BY <1>2, <2>1, DeletedInv DEF LooksLike, NumbersInv
<1>5. QED
  BY <1>3, <1>4 DEF onAdd, painting

LEMMA RemovedInv ==
  ASSUME NEW l, LayerInv(l)
  PROVE  LayerInv(onRemove(l))
<1>1. LayerInv([deleteResources(l) EXCEPT !.listening = FALSE])
  BY DeletedInv DEF LayerInv, ResourcesInv
<1>2. QED
  BY <1>1, Waiting DEF onRemove

-----------------------------------------------------------------------------
(* The controller: what its loop does, and what its calls remember.         *)

PlayerFields ==
  {"playing", "timer", "operation", "frames", "lastReceipt", "wantsPlaying", "replacements",
   "resumes", "scheduling", "disposed"}
TaskFields ==
  {"pc", "native", "awaits", "scan", "prior", "frames", "previous", "appends", "atNewest",
   "resume", "acted"}

(* It plays only if that is wanted, and never once it is disposed of.       *)
PlayerInv(p) ==
  /\ DOMAIN p = PlayerFields
  /\ p.playing => p.wantsPlaying /\ ~p.disposed

(* An update that found the loop playing may start it again, unless the     *)
(* operator has acted since; a loop that it begins anew is of one scan.     *)
TaskInv(t, k, wanted) ==
  /\ DOMAIN k = TaskFields
  /\ k.awaits # None => k.pc \in {"holding", "awaiting"}
  /\ t \in Session =>
       /\ k.resume /\ ~k.acted => wanted
       /\ k.pc # "selecting"
       /\ k.pc = "idle" \/ k.appends \/ \E scan \in Scan : k.frames = {scan}
  /\ t \notin Session => k.pc # "queued"

TasksInv(tasks, wanted) ==
  /\ DOMAIN tasks = Task
  /\ \A t \in Task : TaskInv(t, tasks[t], wanted)

SiteInv ==
  /\ LayerInv(layer)
  /\ PlayerInv(player)
  /\ TasksInv(task, player.wantsPlaying)

LEMMA LoopOf ==
  ASSUME NEW p, PlayerInv(p)
  PROVE  /\ PlayerInv(scheduleNext(p))
         /\ scheduleNext(p).wantsPlaying = p.wantsPlaying
         /\ PlayerInv(stopPlaying(p))
         /\ stopPlaying(p).wantsPlaying = p.wantsPlaying
         /\ p.wantsPlaying => PlayerInv(startPlaying(p))
         /\ startPlaying(p).wantsPlaying = p.wantsPlaying
         /\ PlayerInv(stopPlaying([p EXCEPT !.wantsPlaying = FALSE]))
         /\ stopPlaying([p EXCEPT !.wantsPlaying = FALSE]).wantsPlaying = FALSE
         /\ PlayerInv([p EXCEPT !.playing = FALSE])
         /\ [p EXCEPT !.playing = FALSE].wantsPlaying = p.wantsPlaying
<1> USE DEF PlayerInv, PlayerFields
<1>1. /\ PlayerInv(scheduleNext(p))
      /\ scheduleNext(p).wantsPlaying = p.wantsPlaying
  BY DEF scheduleNext
<1>2. /\ PlayerInv(stopPlaying(p))
      /\ stopPlaying(p).wantsPlaying = p.wantsPlaying
  BY DEF stopPlaying
<1>3. /\ p.wantsPlaying => PlayerInv(startPlaying(p))
      /\ startPlaying(p).wantsPlaying = p.wantsPlaying
  BY DEF startPlaying, scheduleNext
<1>4. /\ PlayerInv(stopPlaying([p EXCEPT !.wantsPlaying = FALSE]))
      /\ stopPlaying([p EXCEPT !.wantsPlaying = FALSE]).wantsPlaying = FALSE
  BY DEF stopPlaying
<1>5. /\ PlayerInv([p EXCEPT !.playing = FALSE])
      /\ [p EXCEPT !.playing = FALSE].wantsPlaying = p.wantsPlaying
  OBVIOUS
<1>6. QED
  BY <1>1, <1>2, <1>3, <1>4, <1>5

LEMMA Bookkeeping ==
  ASSUME NEW p, PlayerInv(p), NEW value
  PROVE  /\ PlayerInv([p EXCEPT !.operation = value])
         /\ [p EXCEPT !.operation = value].wantsPlaying = p.wantsPlaying
         /\ PlayerInv([p EXCEPT !.lastReceipt = value])
         /\ [p EXCEPT !.lastReceipt = value].wantsPlaying = p.wantsPlaying
         /\ PlayerInv([p EXCEPT !.replacements = value])
         /\ [p EXCEPT !.replacements = value].wantsPlaying = p.wantsPlaying
         /\ PlayerInv([p EXCEPT !.timer = value])
         /\ [p EXCEPT !.timer = value].wantsPlaying = p.wantsPlaying
         /\ PlayerInv([p EXCEPT !.scheduling = value])
         /\ [p EXCEPT !.scheduling = value].wantsPlaying = p.wantsPlaying
BY DEF PlayerInv, PlayerFields

LEMMA OperationSettles ==
  ASSUME NEW p, PlayerInv(p), NEW t, NEW paints
  PROVE  /\ PlayerInv(SettlesOperation(p, t, paints))
         /\ SettlesOperation(p, t, paints).wantsPlaying = p.wantsPlaying
BY DEF SettlesOperation, PlayerInv, PlayerFields

LEMMA Returning ==
  ASSUME NEW p, PlayerInv(p), NEW t, NEW ok
  PROVE  /\ PlayerInv(Returned(t, p, ok))
         /\ Returned(t, p, ok).wantsPlaying = p.wantsPlaying
BY LoopOf DEF Returned

-----------------------------------------------------------------------------
(* The calls, as they are given new records.                                *)

LEMMA IdleTask == \A t, wanted : TaskInv(t, NoTask, wanted)
BY DEF TaskInv, TaskFields, NoTask

LEMMA TaskGets ==
  ASSUME NEW tasks, NEW wanted, TasksInv(tasks, wanted), NEW t \in Task, NEW k,
         TaskInv(t, k, wanted)
  PROVE  TasksInv([tasks EXCEPT ![t] = k], wanted)
BY DEF TasksInv

LEMMA OperatorActed ==
  ASSUME NEW tasks, NEW before, TasksInv(tasks, before), NEW wanted
  PROVE  TasksInv(OperatorActs(tasks), wanted)
<1>1. DOMAIN OperatorActs(tasks) = Task
  BY DEF OperatorActs
<1>2. ASSUME NEW t \in Task
      PROVE  TaskInv(t, OperatorActs(tasks)[t], wanted)
  <2> DEFINE k == tasks[t]
             m == OperatorActs(tasks)[t]
  <2>1. TaskInv(t, k, before)
    BY DEF TasksInv
  <2>2. m = IF t \in Session \cup {Carry} THEN [k EXCEPT !.acted = TRUE] ELSE k
    BY DEF OperatorActs
  <2> HIDE DEF k, m
  <2>3. TaskInv(t, m, wanted)
    BY <2>1, <2>2 DEF TaskInv, TaskFields
  <2>4. QED
    BY <2>3 DEF m
<1>3. QED
  BY <1>1, <1>2 DEF TasksInv

LEMMA SettledFor ==
  ASSUME NEW tasks, NEW wanted, TasksInv(tasks, wanted), NEW t \in Task, NEW paints
  PROVE  /\ TasksInv(SettlesFor(tasks, t, paints), wanted)
         /\ \A u \in Task : tasks[u].awaits # t => SettlesFor(tasks, t, paints)[u] = tasks[u]
<1> DEFINE after == SettlesFor(tasks, t, paints)
<1>1. DOMAIN after = Task
  BY DEF SettlesFor
<1>2. ASSUME NEW u \in Task, tasks[u].awaits # t
      PROVE  after[u] = tasks[u]
  BY <1>2 DEF SettlesFor
<1>3. ASSUME NEW u \in Task, tasks[u].awaits = t
      PROVE  TaskInv(u, after[u], wanted)
  <2> DEFINE k == tasks[u]
  <2>1. TaskInv(u, k, wanted) /\ k.awaits = t
    BY <1>3 DEF TasksInv
  <2>2. k.pc \in {"holding", "awaiting"}
    BY <2>1, TasksAreDistinct DEF TaskInv
  <2>3. PICK pc \in {"held", "failed", "awaited"} :
           after[u] = [k EXCEPT !.awaits = None, !.pc = pc]
    <3> DEFINE pc == CASE k.pc = "awaiting" -> "awaited"
                       [] k.pc = "holding" -> IF paints THEN "held" ELSE "failed"
    <3>1. pc \in {"held", "failed", "awaited"}
      BY <2>2
    <3>2. [k EXCEPT !.awaits = None].pc = k.pc
      BY <2>1 DEF TaskInv, TaskFields
    <3>3. after[u] = [k EXCEPT !.awaits = None, !.pc = pc]
      BY <1>3, <3>2 DEF SettlesFor
    <3> HIDE DEF pc, after, k
    <3>4. QED
      BY <3>1, <3>3
  <2> HIDE DEF k, after
  <2>4. QED
    BY <2>1, <2>2, <2>3 DEF TaskInv, TaskFields
<1>4. \A u \in Task : TaskInv(u, after[u], wanted)
  BY <1>2, <1>3 DEF TasksInv
<1>5. QED
  BY <1>1, <1>2, <1>4 DEF TasksInv

LEMMA Ending ==
  ASSUME NEW tasks, NEW wanted, TasksInv(tasks, wanted), NEW t \in Task \ Session, NEW ok,
         t = Carry => tasks[t].awaits = None
  PROVE  TasksInv(Ended(t, tasks, ok), wanted)
<1>1. CASE t # Carry
  BY <1>1, TaskGets, IdleTask DEF Ended
<1>2. CASE t = Carry
  <2> DEFINE k == tasks[t]
             m == [k EXCEPT !.pc = IF ok THEN "done" ELSE "failed"]
  <2>1. TaskInv(t, k, wanted)
    BY DEF TasksInv
  <2>2. TaskInv(t, m, wanted)
    BY <1>2, <2>1 DEF TaskInv, TaskFields
  <2>3. Ended(t, tasks, ok) = [tasks EXCEPT ![t] = m]
    BY <1>2 DEF Ended
  <2> HIDE DEF m
  <2>4. TasksInv([tasks EXCEPT ![t] = m], wanted)
    BY <2>2, TaskGets
  <2>5. QED
    BY <2>3, <2>4
<1>3. QED
  BY <1>1, <1>2

LEMMA TaskMoves ==
  ASSUME NEW tasks, NEW wanted, TasksInv(tasks, wanted), NEW t \in Task, NEW pc, NEW value,
         pc \notin {"selecting", "queued"}, tasks[t].awaits = None, tasks[t].pc # "idle"
  PROVE  /\ TasksInv([tasks EXCEPT ![t].pc = pc], wanted)
         /\ TasksInv([tasks EXCEPT ![t].pc = pc, ![t].native = FALSE], wanted)
         /\ TasksInv([tasks EXCEPT ![t].pc = pc, ![t].scan = value], wanted)
         /\ TasksInv([tasks EXCEPT ![t].native = TRUE], wanted)
<1> DEFINE k == tasks[t]
<1>1. TaskInv(t, k, wanted) /\ k.awaits = None /\ k.pc # "idle"
  BY DEF TasksInv
<1> HIDE DEF k
<1>2. /\ TaskInv(t, [k EXCEPT !.pc = pc], wanted)
      /\ TaskInv(t, [k EXCEPT !.pc = pc, !.native = FALSE], wanted)
      /\ TaskInv(t, [k EXCEPT !.pc = pc, !.scan = value], wanted)
      /\ TaskInv(t, [k EXCEPT !.native = TRUE], wanted)
  BY <1>1 DEF TaskInv, TaskFields
<1>3. /\ TasksInv([tasks EXCEPT ![t] = [k EXCEPT !.pc = pc]], wanted)
      /\ TasksInv([tasks EXCEPT ![t] = [k EXCEPT !.pc = pc, !.native = FALSE]], wanted)
      /\ TasksInv([tasks EXCEPT ![t] = [k EXCEPT !.pc = pc, !.scan = value]], wanted)
      /\ TasksInv([tasks EXCEPT ![t] = [k EXCEPT !.native = TRUE]], wanted)
  BY <1>2, TaskGets
<1>4. DOMAIN tasks = Task
  BY DEF TasksInv
<1>5. /\ [tasks EXCEPT ![t].pc = pc] = [tasks EXCEPT ![t] = [k EXCEPT !.pc = pc]]
      /\ [tasks EXCEPT ![t].native = TRUE] = [tasks EXCEPT ![t] = [k EXCEPT !.native = TRUE]]
  BY DEF k
<1>6. [tasks EXCEPT ![t].pc = pc, ![t].native = FALSE]
        = [tasks EXCEPT ![t] = [k EXCEPT !.pc = pc, !.native = FALSE]]
  BY <1>4 DEF k
<1>7. [tasks EXCEPT ![t].pc = pc, ![t].scan = value]
        = [tasks EXCEPT ![t] = [k EXCEPT !.pc = pc, !.scan = value]]
  BY <1>4 DEF k
<1>8. QED
  BY <1>3, <1>5, <1>6, <1>7

-----------------------------------------------------------------------------
(* Every action keeps the invariant.                                        *)

LEMMA SelectingInv ==
  ASSUME NEW l, LayerInv(l), NEW p, PlayerInv(p),
         NEW tasks, TasksInv(tasks, p.wantsPlaying),
         NEW t \in Task \ Session, NEW scan, Selecting(t, scan, l, p, tasks)
  PROVE  SiteInv'
<1> DEFINE k == [NoTask EXCEPT !.pc = "selecting", !.prior = l.sequence,
                               !.acted = tasks[t].acted]
<1>1. LayerInv(layer')
  BY SelectInv DEF Selecting
<1>2. PlayerInv(player') /\ player'.wantsPlaying = p.wantsPlaying
  BY Bookkeeping DEF Selecting
<1>3. TaskInv(t, k, p.wantsPlaying)
  BY DEF TaskInv, TaskFields, NoTask
<1>4. task' = [tasks EXCEPT ![t] = k]
  BY DEF Selecting
<1> HIDE DEF k
<1>5. TasksInv(task', p.wantsPlaying)
  BY <1>3, <1>4, TaskGets
<1>6. QED
  BY <1>1, <1>2, <1>5 DEF SiteInv

LEMMA SelectStep ==
  ASSUME LayerInv(layer), NEW p, PlayerInv(p),
         NEW tasks, TasksInv(tasks, p.wantsPlaying),
         NEW t \in Task \ Session, t = Carry => tasks[t].awaits = None,
         NEW scan, select(t, scan, p, tasks)
  PROVE  SiteInv'
<1>1. CASE p.operation # None
  BY <1>1, Returning, Ending DEF select, SiteInv
<1>2. CASE p.operation = None /\ layer.phase = "ready"
  BY <1>2, SelectingInv DEF select
<1>3. CASE p.operation = None /\ layer.phase # "ready"
  <2> DEFINE k == [NoTask EXCEPT !.pc = "recovering", !.scan = scan, !.acted = tasks[t].acted]
  <2>1. /\ layer' = waitForRecovery(layer, t)
        /\ player' = p /\ task' = [tasks EXCEPT ![t] = k]
    BY <1>3 DEF select
  <2>2. TaskInv(t, k, p.wantsPlaying)
    BY DEF TaskInv, TaskFields, NoTask
  <2> HIDE DEF k
  <2>3. TasksInv(task', p.wantsPlaying)
    BY <2>1, <2>2, TaskGets
  <2>4. LayerInv(layer')
    BY <2>1, Waiting
  <2>5. QED
    BY <2>1, <2>3, <2>4 DEF SiteInv
<1>4. QED
  BY <1>1, <1>2, <1>3

LEMMA ScrubStep ==
  ASSUME SiteInv, NEW t \in Task \ Session, NEW scan, scrub(t, scan)
  PROVE  SiteInv'
<1> DEFINE p == stopPlaying([player EXCEPT !.wantsPlaying = FALSE])
           acted == [OperatorActs(task) EXCEPT ![t] = NoTask]
<1>1. PlayerInv(p) /\ p.wantsPlaying = FALSE
  BY LoopOf DEF SiteInv
<1>2. TasksInv(OperatorActs(task), FALSE)
  BY OperatorActed DEF SiteInv
<1>3. TasksInv(acted, FALSE) /\ acted[t].awaits = None
  BY <1>2, TaskGets, IdleTask DEF TasksInv, NoTask
<1>4. LayerInv(layer)
  BY DEF SiteInv
<1>5. \/ \E pc \in {"settling", "awaiting"} :
           /\ task' = [acted EXCEPT ![t] = [NoTask EXCEPT
                         !.pc = pc, !.scan = scan,
                         !.awaits = IF pc = "awaiting" THEN p.operation ELSE None]]
           /\ player' = p /\ UNCHANGED layer
      \/ select(t, scan, p, acted)
  BY DEF scrub
<1> HIDE DEF p, acted
<1>6. ASSUME NEW pc \in {"settling", "awaiting"},
             task' = [acted EXCEPT ![t] = [NoTask EXCEPT
                         !.pc = pc, !.scan = scan,
                         !.awaits = IF pc = "awaiting" THEN p.operation ELSE None]],
             player' = p, UNCHANGED layer
      PROVE  SiteInv'
  <2> DEFINE k == [NoTask EXCEPT !.pc = pc, !.scan = scan,
                     !.awaits = IF pc = "awaiting" THEN p.operation ELSE None]
  <2>1. TaskInv(t, k, FALSE)
    BY <1>6 DEF TaskInv, TaskFields, NoTask
  <2>2. task' = [acted EXCEPT ![t] = k]
    BY <1>6
  <2> HIDE DEF k
  <2>3. TasksInv(task', FALSE)
    BY <1>3, <2>1, <2>2, TaskGets
  <2>4. QED
    BY <1>1, <1>4, <1>6, <2>3 DEF SiteInv
<1>7. ASSUME select(t, scan, p, acted)
      PROVE  SiteInv'
  BY <1>1, <1>3, <1>4, <1>7, SelectStep
<1>8. QED
  BY <1>5, <1>6, <1>7

LEMMA ScrubSettles ==
  ASSUME SiteInv, NEW t \in Task \ Session, scrubSettles(t)
  PROVE  SiteInv'
<1> DEFINE wanted == player.wantsPlaying
           k == task[t]
<1>1. /\ LayerInv(layer) /\ PlayerInv(player) /\ TasksInv(task, wanted)
      /\ TaskInv(t, k, wanted)
      /\ k.pc \in {"settling", "settlingAgain", "awaited"} /\ k.awaits = None
  BY DEF SiteInv, TasksInv, TaskInv, scrubSettles
<1>2. \/ \E next \in {"awaiting", "settlingAgain"} :
           /\ task' = [task EXCEPT ![t].pc = next,
                         ![t].awaits = IF next = "awaiting" THEN player.operation ELSE None]
           /\ UNCHANGED <<layer, player>>
      \/ task' = Ended(t, task, FALSE) /\ UNCHANGED <<layer, player>>
      \/ select(t, nearestFrameIndex(player.frames, task[t].scan), player, task)
  BY DEF scrubSettles
<1>3. ASSUME NEW next \in {"awaiting", "settlingAgain"},
             task' = [task EXCEPT ![t].pc = next,
                         ![t].awaits = IF next = "awaiting" THEN player.operation ELSE None],
             UNCHANGED <<layer, player>>
      PROVE  SiteInv'
  <2> DEFINE owner == IF next = "awaiting" THEN player.operation ELSE None
             m == [k EXCEPT !.pc = next, !.awaits = owner]
  <2>1. TaskInv(t, m, wanted)
    BY <1>1 DEF TaskInv, TaskFields
  <2> HIDE DEF owner
  <2>2. task' = [task EXCEPT ![t] = m]
    BY <1>1, <1>3 DEF TasksInv, owner
  <2> HIDE DEF m
  <2>3. TasksInv(task', wanted)
    BY <1>1, <2>1, <2>2, TaskGets
  <2>4. QED
    BY <1>1, <1>3, <2>3 DEF SiteInv
<1>4. CASE task' = Ended(t, task, FALSE) /\ UNCHANGED <<layer, player>>
  BY <1>1, <1>4, Ending DEF SiteInv
<1>5. CASE select(t, nearestFrameIndex(player.frames, task[t].scan), player, task)
  BY <1>1, <1>5, SelectStep
<1>6. QED
  BY <1>2, <1>3, <1>4, <1>5

LEMMA ResumedInv ==
  ASSUME SiteInv, NEW s \in Session, NEW p, PlayerInv(p),
         p.wantsPlaying = player.wantsPlaying
  PROVE  /\ PlayerInv(ResumedBy(s, p))
         /\ ResumedBy(s, p).wantsPlaying = player.wantsPlaying
<1>1. shouldResumeAfterMutation(s) => p.wantsPlaying
  BY TasksAreDistinct DEF SiteInv, TasksInv, TaskInv, shouldResumeAfterMutation
<1>2. QED
  BY <1>1, LoopOf DEF ResumedBy

LEMMA RestoresInv ==
  ASSUME NEW l, LayerInv(l), NEW p, PlayerInv(p), NEW tasks, TasksInv(tasks, p.wantsPlaying),
         NEW t \in Task, tasks[t].awaits = None, tasks[t].pc # "idle",
         Restores(t, l, p, tasks)
  PROVE  SiteInv'
<1>1. PlayerInv(player') /\ player'.wantsPlaying = p.wantsPlaying
  BY DEF Restores, PlayerInv, PlayerFields
<1>2. TasksInv(task', p.wantsPlaying)
  BY TaskMoves DEF Restores
<1>3. LayerInv(layer')
  <2>1. CASE IsReplacing(l)
    <3>1. layer' = rollbackResidentFrameReplacement(l, t)
      BY <2>1 DEF Restores
    <3>2. LayerInv(rollbackResidentFrameReplacement(l, t))
      BY <2>1, RollbackInv
    <3>3. QED
      BY <3>1, <3>2
  <2>2. CASE ~IsReplacing(l)
    BY <2>2, Waiting DEF Restores
  <2>3. QED
    BY <2>1, <2>2
<1>4. QED
  BY <1>1, <1>2, <1>3 DEF SiteInv

LEMMA HoldStep ==
  ASSUME SiteInv, NEW s \in Session, holdPlayback(s)
  PROVE  SiteInv'
<1> DEFINE wanted == player.wantsPlaying
           m == [task[s] EXCEPT
                   !.pc = IF player.operation = None THEN "held" ELSE "holding",
                   !.awaits = player.operation,
                   !.scan = layer.selected, !.previous = player.frames,
                   !.atNewest = ~player.playing /\ layer.selected = Max(player.frames),
                   !.resume = player.playing, !.acted = FALSE]
<1>1. /\ LayerInv(layer) /\ PlayerInv(player) /\ TasksInv(task, wanted)
      /\ s \in Task /\ TaskInv(s, task[s], wanted) /\ task[s].pc = "queued"
  BY TasksAreDistinct DEF SiteInv, TasksInv, holdPlayback
<1>2. CASE player.disposed
  <2>1. task[s].awaits = None
    BY <1>1 DEF TaskInv
  <2> HIDE DEF m
  <2>2. TasksInv([task EXCEPT ![s].pc = "failed"], wanted)
    BY <1>1, <2>1, TaskMoves
  <2>3. TasksInv(task', wanted)
    BY <1>2, <2>2 DEF holdPlayback, Fails
  <2>4. QED
    BY <1>1, <1>2, <2>3 DEF holdPlayback, SiteInv
<1>3. CASE ~player.disposed
  <2>1. task' = [task EXCEPT ![s] = m] /\ player' = stopPlaying(player) /\ UNCHANGED layer
    BY <1>3 DEF holdPlayback
  <2>2. TaskInv(s, m, wanted)
    BY <1>1 DEF TaskInv, TaskFields, PlayerInv
  <2> HIDE DEF m
  <2>3. TasksInv(task', wanted)
    BY <1>1, <2>1, <2>2, TaskGets
  <2>4. QED
    BY <1>1, <2>1, <2>3, LoopOf DEF SiteInv
<1>4. QED
  BY <1>2, <1>3

LEMMA AwaitRecoveryStep ==
  ASSUME SiteInv, NEW s \in Session, awaitRecovery(s)
  PROVE  SiteInv'
<1>1. s \in Task /\ task[s].awaits = None /\ task[s].pc # "idle"
  BY TasksAreDistinct DEF SiteInv, TasksInv, TaskInv, awaitRecovery
<1>2. TasksInv(task', player.wantsPlaying)
  BY <1>1, TaskMoves DEF SiteInv, awaitRecovery
<1>3. QED
  BY <1>2, Waiting DEF SiteInv, awaitRecovery

LEMMA NativeFallbackStep ==
  ASSUME SiteInv, NEW t \in Task, withNativeFallback(t)
  PROVE  SiteInv'
<1> DEFINE heard == [layer EXCEPT !.told[t] = Nothing]
<1>1. task[t].awaits = None /\ task[t].pc # "idle"
  BY DEF SiteInv, TasksInv, TaskInv, withNativeFallback
<1>2. TasksInv(task', player.wantsPlaying)
  BY <1>1, TaskMoves DEF SiteInv, withNativeFallback
<1>3. LayerInv(heard)
  BY Waiting DEF SiteInv
<1>4. layer' = waitForPaint(retryFailedSmoothDrawInNative(heard), t)
  BY DEF withNativeFallback
<1> HIDE DEF heard
<1>5. LayerInv(retryFailedSmoothDrawInNative(heard))
  BY <1>3, Answers, Alike DEF LayerInv
<1>6. LayerInv(layer')
  BY <1>4, <1>5, Waiting
<1>7. QED
  BY <1>2, <1>6 DEF SiteInv, withNativeFallback

LEMMA SwappedInv ==
  ASSUME NEW l, LayerInv(l), NEW t \in Session, MayReplace(l), NEW selected,
         task[t].appends => selected \in task[t].frames,
         ~task[t].appends => \E scan \in Scan : task[t].frames = {scan}
  PROVE  LayerInv(Swapped(t, l, selected))
<1> DEFINE frames == task[t].frames
<1>1. CASE task[t].appends
  <2> HIDE DEF frames
  <2>1. \/ selected = l.selected /\ Swapped(t, l, selected) = Uploads(l, frames, selected)
        \/ Swapped(t, l, selected)
             = [Uploads(l, frames, selected) EXCEPT !.sequence = @ + 1, !.repaint = TRUE]
    BY <1>1 DEF Swapped, updateResidentHistory, frames
  <2>2. selected \in frames
    BY <1>1 DEF frames
  <2> DEFINE moved == [Uploads(l, frames, selected) EXCEPT !.sequence = @ + 1, !.repaint = TRUE]
  <2>3. LayerInv(moved) /\ (selected = l.selected => LayerInv(Uploads(l, frames, selected)))
    BY <2>2, UploadsInv
  <2> HIDE DEF moved
  <2>4. QED
    BY <2>1, <2>3 DEF moved
<1>2. CASE ~task[t].appends
  <2>1. PICK scan \in Scan : frames = {scan}
    BY <1>2
  <2>2. scan \in Nat
    BY HistoryAssumption
  <2>3. Min(frames) = scan
    BY <2>1, <2>2 DEF Min
  <2>4. Swapped(t, l, selected)
          = [Uploads(l, frames, scan) EXCEPT !.sequence = @ + 1, !.repaint = TRUE]
    BY <1>2, <2>3 DEF Swapped, replaceResidentFrames
  <2> HIDE DEF frames
  <2>5. scan \in frames
    BY <2>1
  <2> DEFINE moved == [Uploads(l, frames, scan) EXCEPT !.sequence = @ + 1, !.repaint = TRUE]
  <2>6. LayerInv(moved)
    BY <2>5, UploadsInv
  <2>7. QED
    BY <2>4, <2>6
<1>3. QED
  BY <1>1, <1>2

LEMMA SwapStep ==
  ASSUME SiteInv, NEW s \in Session, NEW owned, NEW uploads, swaps(s, owned, uploads)
  PROVE  SiteInv'
<1> DEFINE wanted == player.wantsPlaying
           selected == SelectionAfter(task[s])
           heard == [layer EXCEPT !.told[s] = Nothing]
           swapped == [player EXCEPT !.frames = task[s].frames,
                                     !.lastReceipt = IF task[s].appends THEN @ ELSE None]
           l == Swapped(s, heard, selected)
<1>1. /\ LayerInv(layer) /\ PlayerInv(player) /\ TasksInv(task, wanted)
      /\ s \in Task /\ TaskInv(s, task[s], wanted)
  BY TasksAreDistinct DEF SiteInv, TasksInv
<1>2. task[s].pc \in {"held", "recovering"} /\ task[s].awaits = None
  BY <1>1 DEF swaps, TaskInv
<1>3. LayerInv(heard)
  BY <1>1, Waiting
<1>4. PlayerInv(swapped) /\ swapped.wantsPlaying = wanted
  BY <1>1 DEF PlayerInv, PlayerFields
<1>5. \/ Fails(s) /\ layer' = heard /\ UNCHANGED player
      \/ MaySwap(s, selected) /\ Restores(s, l, swapped, task)
      \/ /\ MaySwap(s, selected)
         /\ layer' = waitForPaint(l, s)
         /\ player' = [swapped EXCEPT !.operation = s]
         /\ task' = [task EXCEPT ![s].pc = "painting", ![s].native = FALSE]
  BY DEF swaps
<1>6. ASSUME MaySwap(s, selected)
      PROVE  LayerInv(l)
  <2>1. MayReplace(layer) /\ (task[s].appends => selected \in task[s].frames)
    BY <1>6 DEF MaySwap, MayUpdate
  <2>2. MayReplace(heard)
    BY <1>1, <2>1 DEF MayReplace, IsPainted, IsReplacing, LayerInv, LayerFields
  <2>3. ~task[s].appends => \E scan \in Scan : task[s].frames = {scan}
    BY <1>1, <1>2 DEF TaskInv
  <2> HIDE DEF heard, selected
  <2>4. QED
    BY <1>3, <2>1, <2>2, <2>3, SwappedInv
<1> HIDE DEF l, swapped, heard, selected
<1>7. CASE Fails(s) /\ layer' = heard /\ UNCHANGED player
  <2>1. TasksInv(task', wanted)
    BY <1>1, <1>2, <1>7, TaskMoves DEF Fails
  <2>2. QED
    BY <1>1, <1>3, <1>7, <2>1 DEF SiteInv
<1>8. CASE MaySwap(s, selected) /\ Restores(s, l, swapped, task)
  BY <1>1, <1>2, <1>4, <1>6, <1>8, RestoresInv
<1>9. CASE /\ MaySwap(s, selected)
           /\ layer' = waitForPaint(l, s)
           /\ player' = [swapped EXCEPT !.operation = s]
           /\ task' = [task EXCEPT ![s].pc = "painting", ![s].native = FALSE]
  <2>1. TasksInv(task', wanted)
    BY <1>1, <1>2, <1>9, TaskMoves
  <2>2. LayerInv(layer')
    BY <1>6, <1>9, Waiting
  <2>3. PlayerInv(player') /\ player'.wantsPlaying = wanted
    BY <1>4, <1>9, Bookkeeping
  <2>4. QED
    BY <2>1, <2>2, <2>3 DEF SiteInv
<1>10. QED
  BY <1>5, <1>7, <1>8, <1>9

LEMMA CommitStep ==
  ASSUME SiteInv, NEW s \in Session, NEW owned, commits(s, owned)
  PROVE  SiteInv'
<1> DEFINE wanted == player.wantsPlaying
           told == layer.told[s]
           heard == [layer EXCEPT !.told[s] = Nothing]
           paints == told # Failed
           settled == SettlesOperation(player, s, paints)
           accepted == [settled EXCEPT !.lastReceipt = told.scan]
           tasks == SettlesFor(task, s, paints)
<1>1. /\ LayerInv(layer) /\ PlayerInv(player) /\ TasksInv(task, wanted)
      /\ s \in Task /\ task[s].pc = "painting" /\ task[s].awaits = None
  BY TasksAreDistinct DEF SiteInv, TasksInv, TaskInv, commits
<1>2. LayerInv(heard)
  BY <1>1, Waiting
<1>3. PlayerInv(settled) /\ settled.wantsPlaying = wanted
  BY <1>1, OperationSettles
<1>4. TasksInv(tasks, wanted) /\ tasks[s] = task[s]
  BY <1>1, SettledFor, TasksAreDistinct
<1>5. \/ /\ paints /\ MayCommit(layer, told.sequence)
         /\ layer' = commitResidentFrameReplacement(heard)
         /\ player' = ResumedBy(s, accepted)
         /\ task' = [SettlesFor(task, s, TRUE) EXCEPT ![s].pc = "done", ![s].scan = told.scan]
      \/ Restores(s, heard, settled, tasks)
  BY DEF commits
<1>6. CASE /\ paints /\ MayCommit(layer, told.sequence)
           /\ layer' = commitResidentFrameReplacement(heard)
           /\ player' = ResumedBy(s, accepted)
           /\ task' = [SettlesFor(task, s, TRUE) EXCEPT ![s].pc = "done", ![s].scan = told.scan]
  <2>1. TasksInv(SettlesFor(task, s, TRUE), wanted) /\ SettlesFor(task, s, TRUE)[s] = task[s]
    <3> HIDE DEF wanted
    <3>1. task[s].awaits # s
      BY <1>1, TasksAreDistinct
    <3>2. PICK yes : yes = TRUE
      OBVIOUS
    <3>3. TasksInv(SettlesFor(task, s, yes), wanted) /\ SettlesFor(task, s, yes)[s] = task[s]
      BY <1>1, <3>1, SettledFor
    <3>4. QED
      BY <3>2, <3>3
  <2>2. IsReplacing(heard)
    BY <1>1, <1>6 DEF MayCommit, IsReplacing, LayerInv, LayerFields
  <2> HIDE DEF heard, settled, tasks, paints, told
  <2>3. LayerInv(layer')
    BY <1>2, <1>6, <2>2, CommitInv
  <2>4. PlayerInv(accepted) /\ accepted.wantsPlaying = wanted
    BY <1>3, Bookkeeping
  <2> HIDE DEF accepted
  <2>5. PlayerInv(player') /\ player'.wantsPlaying = wanted
    BY <1>6, <2>4, ResumedInv
  <2>6. TasksInv(task', wanted)
    BY <1>1, <1>6, <2>1, TaskMoves
  <2>7. QED
    BY <2>3, <2>5, <2>6 DEF SiteInv
<1>7. CASE Restores(s, heard, settled, tasks)
  <2> HIDE DEF heard, settled, tasks
  <2>1. tasks[s].awaits = None /\ tasks[s].pc # "idle"
    BY <1>1, <1>4
  <2>2. QED
    BY <1>1, <1>2, <1>3, <1>4, <1>7, <2>1, RestoresInv
<1>8. QED
  BY <1>5, <1>6, <1>7

LEMMA RestoreStep ==
  ASSUME SiteInv, NEW s \in Session, restores(s)
  PROVE  SiteInv'
<1> DEFINE wanted == player.wantsPlaying
           told == layer.told[s]
           receipt == IF told = Recovered THEN Painted(layer.receipt) ELSE told
           paints == told # Failed /\ receipt.scan # None
           settled == SettlesOperation(player, s, paints)
           p == IF paints /\ assertReceipt(layer, receipt)
                THEN [settled EXCEPT !.lastReceipt = receipt.scan] ELSE settled
           tasks == SettlesFor(task, s, paints)
<1>1. /\ LayerInv(layer) /\ PlayerInv(player) /\ TasksInv(task, wanted)
      /\ s \in Task /\ task[s].pc = "restoring" /\ task[s].awaits = None
  BY TasksAreDistinct DEF SiteInv, TasksInv, TaskInv, restores
<1>2. PlayerInv(settled) /\ settled.wantsPlaying = wanted
  BY <1>1, OperationSettles
<1>3. TasksInv(tasks, wanted) /\ tasks[s] = task[s]
  BY <1>1, SettledFor, TasksAreDistinct
<1>4. /\ layer' = [layer EXCEPT !.told[s] = Nothing]
      /\ player' = ResumedBy(s, p)
      /\ task' = [tasks EXCEPT ![s].pc = "failed"]
  BY DEF restores
<1> HIDE DEF tasks, settled, paints, receipt, told
<1>5. PlayerInv(p) /\ p.wantsPlaying = wanted
  BY <1>2, Bookkeeping
<1> HIDE DEF p
<1>6. PlayerInv(player') /\ player'.wantsPlaying = wanted
  BY <1>4, <1>5, ResumedInv
<1>7. TasksInv(task', wanted)
  BY <1>1, <1>3, <1>4, TaskMoves
<1>8. LayerInv(layer')
  BY <1>1, <1>4, Waiting
<1>9. QED
  BY <1>6, <1>7, <1>8 DEF SiteInv

LEMMA SelectRecoveredStep ==
  ASSUME SiteInv, NEW t \in Task, selectRecovered(t)
  PROVE  SiteInv'
<1> DEFINE wanted == player.wantsPlaying
           heard == [layer EXCEPT !.told[t] = Nothing]
<1>1. /\ LayerInv(layer) /\ PlayerInv(player) /\ TasksInv(task, wanted)
      /\ t \in Task \ Session /\ task[t].awaits = None
  BY DEF SiteInv, TasksInv, TaskInv, selectRecovered
<1>2. LayerInv(heard)
  BY <1>1, Waiting
<1>3. \/ /\ player' = Returned(t, player, FALSE)
         /\ task' = Ended(t, task, FALSE) /\ layer' = heard
      \/ Selecting(t, task[t].scan, heard, player, task)
  BY DEF selectRecovered
<1> HIDE DEF heard
<1>4. CASE /\ player' = Returned(t, player, FALSE)
           /\ task' = Ended(t, task, FALSE) /\ layer' = heard
  BY <1>1, <1>2, <1>4, Returning, Ending DEF SiteInv
<1>5. CASE Selecting(t, task[t].scan, heard, player, task)
  BY <1>1, <1>2, <1>5, SelectingInv
<1>6. QED
  BY <1>3, <1>4, <1>5

LEMMA AcceptStep ==
  ASSUME SiteInv, NEW t \in Task \ Session, acceptReceipt(t)
  PROVE  SiteInv'
<1> DEFINE wanted == player.wantsPlaying
           told == layer.told[t]
           paints == told # Failed
           accepted == /\ paints /\ told.sequence <= task[t].prior + 1
                       /\ assertReceipt(layer, told)
           settled == SettlesOperation(player, t, paints)
           p == IF accepted THEN [settled EXCEPT !.lastReceipt = told.scan] ELSE settled
           tasks == SettlesFor(task, t, paints)
<1>1. /\ LayerInv(layer) /\ PlayerInv(player) /\ TasksInv(task, wanted)
      /\ task[t].awaits = None
  BY DEF SiteInv, TasksInv, TaskInv, acceptReceipt
<1>2. PlayerInv(settled) /\ settled.wantsPlaying = wanted
  BY <1>1, OperationSettles
<1>3. TasksInv(tasks, wanted) /\ tasks[t].awaits = None
  BY <1>1, SettledFor, TasksAreDistinct
<1>4. /\ layer' = [layer EXCEPT !.told[t] = Nothing]
      /\ player' = Returned(t, p, accepted)
      /\ task' = Ended(t, tasks, accepted)
  BY DEF acceptReceipt
<1> HIDE DEF tasks, settled, accepted, paints, told
<1>5. PlayerInv(p) /\ p.wantsPlaying = wanted
  BY <1>2, Bookkeeping
<1> HIDE DEF p
<1>6. PlayerInv(player') /\ player'.wantsPlaying = wanted
  BY <1>4, <1>5, Returning
<1>7. TasksInv(task', wanted)
  BY <1>3, <1>4, Ending
<1>8. LayerInv(layer')
  BY <1>1, <1>4, Waiting
<1>9. QED
  BY <1>6, <1>7, <1>8 DEF SiteInv

LEMMA AdvanceStep ==
  ASSUME SiteInv, NEW t \in Advance, advanceOnce(t)
  PROVE  SiteInv'
<1> DEFINE p == [player EXCEPT !.timer = FALSE]
           later == {s \in p.frames : s > layer.selected}
           scan == IF later = {} THEN Min(p.frames) ELSE Min(later)
<1>1. /\ LayerInv(layer) /\ PlayerInv(player) /\ TasksInv(task, player.wantsPlaying)
      /\ t \in Task \ Session /\ t # Carry
  BY TasksAreDistinct DEF SiteInv
<1>2. PlayerInv(p) /\ p.wantsPlaying = player.wantsPlaying
  BY <1>1, Bookkeeping
<1>3. \/ player' = Returned(t, p, FALSE) /\ UNCHANGED <<layer, task>>
      \/ select(t, scan, p, task)
  BY DEF advanceOnce
<1> HIDE DEF p, scan
<1>4. CASE player' = Returned(t, p, FALSE) /\ UNCHANGED <<layer, task>>
  BY <1>1, <1>2, <1>4, Returning DEF SiteInv
<1>5. CASE select(t, scan, p, task)
  BY <1>1, <1>2, <1>5, SelectStep
<1>6. QED
  BY <1>3, <1>4, <1>5

LEMMA SchedulesStep ==
  ASSUME SiteInv, schedulesLater
  PROVE  SiteInv'
<1> DEFINE p == [player EXCEPT !.scheduling = FALSE]
<1>1. PlayerInv(p) /\ p.wantsPlaying = player.wantsPlaying
  BY Bookkeeping DEF SiteInv
<1>2. player' = (IF p.operation = None THEN scheduleNext(p) ELSE p) /\ UNCHANGED <<layer, task>>
  BY DEF schedulesLater
<1> HIDE DEF p
<1>3. PlayerInv(player') /\ player'.wantsPlaying = player.wantsPlaying
  BY <1>1, <1>2, LoopOf
<1>4. QED
  BY <1>2, <1>3 DEF SiteInv

(* The operator, or the carried time, has the loop play.                    *)
LEMMA PlayingInv ==
  ASSUME PlayerInv(player)
  PROVE  LET p == startPlaying([player EXCEPT !.wantsPlaying = TRUE])
         IN  PlayerInv(p) /\ p.wantsPlaying = TRUE
<1> DEFINE wanting == [player EXCEPT !.wantsPlaying = TRUE]
<1>1. PlayerInv(wanting) /\ wanting.wantsPlaying = TRUE
  BY DEF PlayerInv, PlayerFields
<1> HIDE DEF wanting
<1>2. PlayerInv(startPlaying(wanting)) /\ startPlaying(wanting).wantsPlaying = TRUE
  BY <1>1, LoopOf
<1>3. QED
  BY <1>2 DEF wanting

LEMMA OperatorStep ==
  ASSUME SiteInv, operatorPlays \/ operatorPauses \/ operatorScrubs
  PROVE  SiteInv'
<1>1. CASE operatorPlays
  <2>1. PlayerInv(player') /\ task' = OperatorActs(task) /\ UNCHANGED layer
    BY <1>1, PlayingInv DEF operatorPlays, play, SiteInv
  <2>2. TasksInv(task', player'.wantsPlaying)
    BY <2>1, OperatorActed DEF SiteInv
  <2>3. QED
    BY <2>1, <2>2 DEF SiteInv
<1>2. CASE operatorPauses
  <2>1. PlayerInv(player') /\ task' = OperatorActs(task) /\ UNCHANGED layer
    BY <1>2, LoopOf DEF operatorPauses, pause, SiteInv
  <2>2. TasksInv(task', player'.wantsPlaying)
    BY <2>1, OperatorActed DEF SiteInv
  <2>3. QED
    BY <2>1, <2>2 DEF SiteInv
<1>3. CASE operatorScrubs
  <2>1. PICK scan : scrub(Scrub, scan)
    BY <1>3 DEF operatorScrubs
  <2>2. Scrub \in Task \ Session
    BY TasksAreDistinct
  <2>3. QED
    BY <2>1, <2>2, ScrubStep
<1>4. QED
  BY <1>1, <1>2, <1>3

LEMMA RemovalStep ==
  ASSUME SiteInv, removeSiteAfterNationalPaint
  PROVE  SiteInv'
<1> DEFINE p == stopPlaying([player EXCEPT !.wantsPlaying = FALSE])
<1>1. PlayerInv(p)
  BY LoopOf DEF SiteInv
<1>2. p.playing => FALSE
  BY DEF SiteInv, PlayerInv, PlayerFields, stopPlaying
<1>3. /\ player' = [p EXCEPT !.disposed = TRUE]
      /\ task' = OperatorActs(task)
      /\ layer' = IF layer.added THEN onRemove(layer) ELSE layer
  BY DEF removeSiteAfterNationalPaint, dispose
<1> HIDE DEF p
<1>4. PlayerInv(player')
  BY <1>1, <1>2, <1>3 DEF PlayerInv, PlayerFields
<1>5. TasksInv(task', player'.wantsPlaying)
  BY <1>3, OperatorActed DEF SiteInv
<1>6. LayerInv(layer')
  BY <1>3, RemovedInv DEF SiteInv
<1>7. QED
  BY <1>4, <1>5, <1>6 DEF SiteInv

LEMMA ArrivalStep ==
  ASSUME SiteInv, NEW s \in Session, Arrives(s)
  PROVE  SiteInv'
<1> DEFINE p == poll[s]
<1>1. PICK scan \in MayArrive(p.purpose) : scanArrives(s, scan)
  BY DEF Arrives
<1> DEFINE history == HistoryWith(p.purpose, scan)
           k == [NoTask EXCEPT !.pc = "queued", !.frames = history,
                               !.appends = p.purpose # "start"]
<1>2. \/ UNCHANGED <<layer, player, task>>
      \/ /\ UNCHANGED layer
         /\ updateResidentHistory_queued(s, history, p.purpose # "start")
  BY <1>1 DEF scanArrives
<1>3. CASE UNCHANGED <<layer, player, task>>
  BY <1>3 DEF SiteInv
<1>4. CASE /\ UNCHANGED layer
           /\ updateResidentHistory_queued(s, history, p.purpose # "start")
  <2>1. p.purpose = "start" => scan \in Scan /\ history = {scan}
    BY <1>1, HistoryAssumption DEF MayArrive, HistoryWith
  <2>2. /\ player' = [player EXCEPT !.replacements = Append(@, s)]
        /\ task' = [task EXCEPT ![s] = k]
    BY <1>4 DEF updateResidentHistory_queued
  <2> HIDE DEF history, p
  <2>3. TaskInv(s, k, player.wantsPlaying)
    BY <2>1 DEF TaskInv, TaskFields, NoTask
  <2> HIDE DEF k
  <2>4. TasksInv(task', player.wantsPlaying)
    BY <2>2, <2>3, TaskGets, TasksAreDistinct DEF SiteInv
  <2>5. PlayerInv(player') /\ player'.wantsPlaying = player.wantsPlaying
    BY <2>2, Bookkeeping DEF SiteInv
  <2>6. QED
    BY <1>4, <2>4, <2>5 DEF SiteInv
<1>5. QED
  BY <1>2, <1>3, <1>4

LEMMA UpdatedStep ==
  ASSUME SiteInv, NEW s \in Session, historyUpdated(s)
  PROVE  SiteInv'
<1>1. /\ player' = [player EXCEPT !.replacements = Tail(@)]
      /\ task' = [task EXCEPT ![s] = NoTask] /\ UNCHANGED layer
  BY DEF historyUpdated
<1>2. PlayerInv(player') /\ player'.wantsPlaying = player.wantsPlaying
  BY <1>1, Bookkeeping DEF SiteInv
<1>3. TasksInv(task', player.wantsPlaying)
  BY <1>1, TaskGets, IdleTask, TasksAreDistinct DEF SiteInv
<1>4. QED
  BY <1>1, <1>2, <1>3 DEF SiteInv

LEMMA CarriedStep ==
  ASSUME SiteInv, siteCarried
  PROVE  SiteInv'
<1>1. Carry \in Task
  BY TasksAreDistinct
<1>2. \/ /\ player' = startPlaying([player EXCEPT !.wantsPlaying = TRUE])
         /\ task' = [OperatorActs(task) EXCEPT ![Carry] = NoTask]
         /\ UNCHANGED layer
      \/ task' = [task EXCEPT ![Carry] = NoTask] /\ UNCHANGED <<layer, player>>
  BY DEF siteCarried
<1>3. CASE /\ player' = startPlaying([player EXCEPT !.wantsPlaying = TRUE])
           /\ task' = [OperatorActs(task) EXCEPT ![Carry] = NoTask]
           /\ UNCHANGED layer
  <2>1. PlayerInv(player')
    BY <1>3, PlayingInv DEF SiteInv
  <2>2. TasksInv(OperatorActs(task), player'.wantsPlaying)
    BY OperatorActed DEF SiteInv
  <2>3. TasksInv(task', player'.wantsPlaying)
    BY <1>1, <1>3, <2>2, TaskGets, IdleTask
  <2>4. QED
    BY <1>3, <2>1, <2>3 DEF SiteInv
<1>4. CASE task' = [task EXCEPT ![Carry] = NoTask] /\ UNCHANGED <<layer, player>>
  <2>1. TasksInv(task', player.wantsPlaying)
    BY <1>1, <1>4, TaskGets, IdleTask DEF SiteInv
  <2>2. QED
    BY <1>4, <2>1 DEF SiteInv
<1>5. QED
  BY <1>2, <1>3, <1>4

LEMMA CarryStep ==
  ASSUME SiteInv, applySitePlayheadCarry
  PROVE  SiteInv'
<1> DEFINE target == nearestFrameIndex(live.history, live.carry.scan)
           k == [NoTask EXCEPT !.pc = "done"]
<1>1. Carry \in Task \ Session
  BY TasksAreDistinct
<1>2. \/ UNCHANGED <<layer, player, task>>
      \/ scrub(Carry, target)
      \/ task' = [task EXCEPT ![Carry] = k] /\ UNCHANGED <<layer, player>>
  BY DEF applySitePlayheadCarry, site
<1>3. CASE UNCHANGED <<layer, player, task>>
  BY <1>3 DEF SiteInv
<1>4. CASE scrub(Carry, target)
  BY <1>1, <1>4, ScrubStep
<1>5. CASE task' = [task EXCEPT ![Carry] = k] /\ UNCHANGED <<layer, player>>
  <2>1. TaskInv(Carry, k, player.wantsPlaying)
    BY <1>1 DEF TaskInv, TaskFields, NoTask
  <2> HIDE DEF k
  <2>2. TasksInv(task', player.wantsPlaying)
    BY <1>1, <1>5, <2>1, TaskGets DEF SiteInv
  <2>3. QED
    BY <1>5, <2>2 DEF SiteInv
<1>6. QED
  BY <1>2, <1>3, <1>4, <1>5

(* What the map, the GPU and the clocks do to the layer.                    *)
LEMMA LayerStep ==
  ASSUME SiteInv,
         \/ operatorSetsMode \/ mapRenders \/ contextLost \/ contextRestored
         \/ styleLoaded \/ paintTimesOut \/ recoveryTimesOut
  PROVE  SiteInv'
<1>1. LayerInv(layer) /\ DOMAIN layer = LayerFields
  BY DEF SiteInv, LayerInv
<1>2. LayerInv(layer')
  <2>1. CASE operatorSetsMode
    <3>1. PICK mode : layer' = setDisplayMode(layer, mode)
      BY <2>1 DEF operatorSetsMode
    <3>2. LooksLike(setDisplayMode(layer, mode), layer)
      BY <1>1, Answers
    <3>3. QED
      BY <1>1, <3>1, <3>2, Alike
  <2>2. CASE mapRenders
    BY <1>1, <2>2, RenderInv DEF mapRenders
  <2>3. CASE contextLost
    BY <1>1, <2>3, LostInv DEF contextLost
  <2>4. CASE contextRestored
    BY <1>1, <2>4, RestoredInv DEF contextRestored
  <2>5. CASE styleLoaded
    BY <1>1, <2>5, AddedInv DEF styleLoaded
  <2>6. CASE paintTimesOut
    BY <1>1, <2>6, Waiting DEF paintTimesOut, paintWaiterExpires
  <2>7. CASE recoveryTimesOut
    BY <1>1, <2>7, Waiting DEF recoveryTimesOut
  <2>8. QED
    BY <2>1, <2>2, <2>3, <2>4, <2>5, <2>6, <2>7
<1>3. UNCHANGED <<player, task>>
  BY DEF operatorSetsMode, mapRenders, contextLost, contextRestored, styleLoaded,
     paintTimesOut, recoveryTimesOut
<1>4. QED
  BY <1>2, <1>3 DEF SiteInv

(* The loops of the sessions touch neither renderer nor controller.         *)
LEMMA SessionStep ==
  ASSUME SiteInv,
         \/ \E s \in Session : \/ runLiveBackfill(s) \/ runLivePolling(s) \/ FetchFails(s)
                               \/ retries(s) \/ startLiveSession(s)
                               \/ continueLiveBackfillAndPolling(s)
         \/ anotherSourceBegins \/ UNCHANGED vars
  PROVE  SiteInv'
<1>1. UNCHANGED <<layer, player, task>>
  BY DEF runLiveBackfill, runLivePolling, FetchFails, fetchFails, retries, startLiveSession,
     continueLiveBackfillAndPolling, anotherSourceBegins, vars, site
<1>2. QED
  BY <1>1 DEF SiteInv

LEMMA ContinuesStep ==
  ASSUME SiteInv, Continues
  PROVE  SiteInv'
<1>1. ASSUME NEW s \in Session, holdPlayback(s) \/ awaitRecovery(s) \/ commits(s, Owns(s))
                                  \/ restores(s)
      PROVE  SiteInv'
  BY <1>1, HoldStep, AwaitRecoveryStep, CommitStep, RestoreStep
<1>2. ASSUME NEW s \in Session, SwapsHistory(s)
      PROVE  SiteInv'
  BY <1>2, SwapStep DEF SwapsHistory
<1>3. ASSUME NEW s \in Session, historyUpdated(s)
      PROVE  SiteInv'
  BY <1>3, UpdatedStep
<1>4. ASSUME NEW s \in Session, runLiveBackfill(s) \/ runLivePolling(s)
      PROVE  SiteInv'
  BY <1>4, SessionStep
<1>5. ASSUME NEW t \in Task, withNativeFallback(t) \/ selectRecovered(t) \/ acceptReceipt(t)
      PROVE  SiteInv'
  <2>1. acceptReceipt(t) => t \notin Session
    BY DEF SiteInv, TasksInv, TaskInv, acceptReceipt
  <2>2. QED
    BY <1>5, <2>1, NativeFallbackStep, SelectRecoveredStep, AcceptStep
<1>6. CASE scrubSettles(Scrub) \/ scrubSettles(Carry)
  <2>1. {Scrub, Carry} \subseteq Task \ Session
    BY TasksAreDistinct
  <2>2. QED
    BY <1>6, <2>1, ScrubSettles
<1>7. QED
  BY <1>1, <1>2, <1>3, <1>4, <1>5, <1>6, CarriedStep, SchedulesStep DEF Continues

LEMMA SiteInvInit == Init => SiteInv
<1> SUFFICES ASSUME Init PROVE SiteInv
  OBVIOUS
<1>1. LayerInv(layer)
  BY PaintedLayerInv DEF Init
<1>2. PlayerInv(player)
  <2>1. PICK scan : player = PlayerOf(scan)
    BY DEF Init
  <2>2. QED
    BY <2>1 DEF PlayerOf, PlayerInv, PlayerFields
<1>3. TasksInv(task, player.wantsPlaying)
  BY IdleTask DEF Init, TasksInv
<1>4. QED
  BY <1>1, <1>2, <1>3 DEF SiteInv

LEMMA SiteInvariant == Spec => []SiteInv
<1>1. SiteInv /\ [Next]_vars => SiteInv'
  <2> SUFFICES ASSUME SiteInv, [Next]_vars PROVE SiteInv'
    OBVIOUS
  <2>1. ASSUME NEW s \in Session,
               \/ Arrives(s) \/ FetchFails(s) \/ retries(s) \/ startLiveSession(s)
               \/ continueLiveBackfillAndPolling(s)
        PROVE  SiteInv'
    BY <2>1, ArrivalStep, SessionStep
  <2>2. ASSUME NEW t \in Advance, loopTimer(t)
        PROVE  SiteInv'
    BY <2>2, AdvanceStep DEF loopTimer
  <2>3. CASE anotherSourceBegins \/ UNCHANGED vars
    BY <2>3, SessionStep
  <2>4. CASE \/ operatorSetsMode \/ mapRenders \/ contextLost \/ contextRestored
             \/ styleLoaded \/ paintTimesOut \/ recoveryTimesOut
    BY <2>4, LayerStep
  <2>5. QED
    BY <2>1, <2>2, <2>3, <2>4, CarryStep, ContinuesStep, RemovalStep, OperatorStep DEF Next
<1>2. QED
  BY <1>1, SiteInvInit, PTL DEF Spec

-----------------------------------------------------------------------------
(* The calls that wait, and what they wait for.                             *)

LayerPhases == Phases \cup {"context_lost", "waiting_for_style"}

(* What the renderer shows is of its loop, and so is what it may go back    *)
(* to, unless it recovers; then it uploads what of the loop is missing.     *)
LoopInv(l) ==
  /\ DOMAIN l.told = Task /\ l.phase \in LayerPhases
  /\ l.models \subseteq Scan /\ l.resident \subseteq l.models /\ l.selected \in l.models
  /\ l.phase = "rehydrating_loop" => l.resident # l.models
  /\ IsReplacing(l) =>
       /\ l.phase = "ready"
       /\ l.replacement.models \subseteq Scan
       /\ l.replacement.resident \subseteq l.replacement.models
       /\ l.replacement.selected \in l.replacement.models

(* Nobody waits for a paint that is there, nor for a recovery that is over. *)
PaintInv(l) ==
  /\ l.recoveryWaiters # {} => l.phase # "ready"
  /\ l.paintWaiter # None /\ IsPainted(l) => l.phase # "ready"
  /\ l.phase \in {"context_lost", "waiting_for_style", "painting_visible_frame"} => ~IsPainted(l)
  /\ l.pendingPaint # NoPaint => ~IsPainted(l)

(* A drawing is asked for while somebody waits, or the loop recovers.       *)
AskedInv(l) ==
  (l.paintWaiter # None \/ l.phase # "ready") /\ l.added /\ l.error = "none" => l.repaint

PaintPcs == {"painting", "selecting", "restoring"}

(* A call that waits is known to the renderer until it is told.             *)
WaitInv(l, t, pc) ==
  /\ t = l.paintWaiter =>
       l.told[t] = Nothing /\ t \notin l.recoveryWaiters /\ pc \in PaintPcs
  /\ t \in l.recoveryWaiters => l.told[t] = Nothing /\ pc \in {"recovering", "restoring"}
  /\ l.told[t] # Nothing => pc \in PaintPcs \cup {"recovering"}
  /\ pc \in PaintPcs \cup {"recovering"} =>
       l.told[t] # Nothing \/ t = l.paintWaiter \/ t \in l.recoveryWaiters
  /\ pc = "recovering" => l.told[t] \in {Nothing, Failed, Recovered}
  /\ l.told[t] = Recovered => l.phase = "ready"

WaitsInv(l, tasks) == \A t \in Task : WaitInv(l, t, tasks[t].pc)

(* What is awaited is under way.                                            *)
OperationInv(p, tasks) ==
  /\ p.operation # None => p.operation \in Task /\ tasks[p.operation].pc \in PaintPcs
  /\ \A t \in Task :
       /\ tasks[t].pc \in {"holding", "awaiting"} => tasks[t].awaits # None
       /\ tasks[t].awaits # None =>
            tasks[t].awaits \in Task /\ tasks[tasks[t].awaits].pc \in PaintPcs

Waits(r, s) == \E i \in 1 .. Len(r) : r[i] = s

PollFields == {"pc", "purpose", "attempt", "scan", "known"}
UpdatePcs ==
  {"queued", "holding", "held", "recovering", "painting", "restoring", "done", "failed"}

(* The updates wait in a queue, each session's once, and only the first of  *)
(* them is under way.                                                       *)
QueueInv(r, tasks, polls) ==
  /\ r \in Seq(Session) /\ \A i, j \in 1 .. Len(r) : r[i] = r[j] => i = j
  /\ DOMAIN polls = Session
  /\ \A s \in Session :
       /\ DOMAIN polls[s] = PollFields
       /\ polls[s].pc # "updating" => polls[s].scan = None
       /\ Waits(r, s) <=> polls[s].pc = "updating"
       /\ tasks[s].pc \in (IF Waits(r, s) THEN UpdatePcs ELSE {"idle"})
       /\ tasks[s].pc \notin {"idle", "queued"} => s = Head(r)
       /\ tasks[s].frames \subseteq Scan

LiveFields ==
  {"history", "modelsById", "timeline", "generation", "session", "display", "status",
   "carry", "carried", "applies", "removed"}

(* A time is carried by one call at a time.                                 *)
CarryInv(lv, tasks) == lv.carry # None => tasks[Carry].pc = "idle"

CallsInv ==
  /\ LoopInv(layer) /\ PaintInv(layer) /\ AskedInv(layer)
  /\ WaitsInv(layer, task) /\ OperationInv(player, task)
  /\ QueueInv(player.replacements, task, poll)
  /\ DOMAIN live = LiveFields /\ live.history \subseteq Scan /\ CarryInv(live, task)

(* A session goes on while it is the current one; its update is the last of *)
(* the queue as long as nothing else was asked for.                         *)
OwnerInv(lv, r, tasks, polls) ==
  /\ lv.generation = None \/ lv.generation = lv.session
  /\ \A s \in Session :
       /\ polls[s].pc \in {"backfilling", "probing", "polling"} => lv.session = s
       /\ polls[s].pc = "updating" /\ lv.generation = s => s = r[Len(r)]
       /\ tasks[s].pc = "done" => lv.generation = s

(* Where an update is under way, the loop of the renderer and that of the   *)
(* controller are the old one or the new one.                               *)
WindowInv(l, p, k, timeline, t) ==
  /\ k.pc = "painting" =>
       /\ p.frames = k.frames /\ k.previous = timeline
       /\ IF IsReplacing(l)
          THEN l.models = k.frames /\ l.replacement.models = timeline
          ELSE l.models = timeline /\ l.told[t] = Failed /\ l.phase # "ready"
  /\ k.pc = "done" =>
       /\ p.frames = k.frames /\ l.models = k.frames /\ k.scan \in k.frames
  /\ k.pc \in {"holding", "held", "recovering"} => k.previous = timeline

FramesInv(l, p, tasks, timeline) ==
  /\ \A s \in Session : WindowInv(l, p, tasks[s], timeline, s)
  /\ (\A s \in Session : tasks[s].pc # "painting") => ~IsReplacing(l)
  /\ (\A s \in Session : tasks[s].pc \notin {"painting", "done"}) =>
       p.frames = timeline /\ l.models = timeline

(* What the sessions hold is the loop, and what an update under way brought.*)
StoredInv(lv, polls) ==
  /\ lv.timeline \subseteq Scan
  /\ lv.history = {} \/ lv.history = lv.timeline
  /\ lv.timeline \subseteq lv.modelsById
  /\ \A m \in lv.modelsById : m \in lv.timeline \/ \E s \in Session : m \in StagedBy(polls[s])
  /\ \A s \in Session : StagedBy(polls[s]) \cap lv.timeline = {}

HistoryInv ==
  ~live.removed =>
    /\ OwnerInv(live, player.replacements, task, poll)
    /\ FramesInv(layer, player, task, live.timeline)
    /\ StoredInv(live, poll)

-----------------------------------------------------------------------------
(* The promises of the renderer.                                            *)

(* Nothing but promises has been settled, and perhaps an error noted.       *)
Fewer(m, l) ==
  /\ LooksLike(m, l) /\ m.models = l.models /\ DOMAIN m.told = Task
  /\ m.paintWaiter \in {None, l.paintWaiter} /\ m.recoveryWaiters \subseteq l.recoveryWaiters
  /\ m.repaint = l.repaint /\ m.error \in {l.error, "fatal"}

WaitsKept(l, m) == \A t \in Task : \A pc : WaitInv(l, t, pc) => WaitInv(m, t, pc)

LEMMA FewerWait ==
  ASSUME NEW l, NEW m, Fewer(m, l)
  PROVE  /\ LoopInv(l) => LoopInv(m)
         /\ PaintInv(l) => PaintInv(m)
         /\ AskedInv(l) => AskedInv(m)
<1>1. LoopInv(l) => LoopInv(m)
  BY DEF Fewer, LooksLike, LoopInv, IsReplacing
<1>2. PaintInv(l) => PaintInv(m)
  BY DEF Fewer, LooksLike, PaintInv, IsPainted
<1>3. AskedInv(l) => AskedInv(m)
  BY DEF Fewer, LooksLike, AskedInv
<1>4. QED
  BY <1>1, <1>2, <1>3

LEMMA Settling ==
  ASSUME NEW l, DOMAIN l = LayerFields, DOMAIN l.told = Task, NEW t, NEW outcome
  PROVE  /\ Fewer(rejectPaintWaiter(l), l)
         /\ Fewer(resolvePaintWaiter(l), l)
         /\ Fewer(settleRecovery(l, outcome), l)
         /\ Fewer(recoveryWaiterExpires(l, t), l)
         /\ Fewer(failRenderer(l), l)
<1> USE DEF Fewer, LooksLike
<1>1. Fewer(rejectPaintWaiter(l), l)
  BY DEF rejectPaintWaiter, LayerFields
<1>2. Fewer(resolvePaintWaiter(l), l)
  BY DEF resolvePaintWaiter, LayerFields
<1>3. Fewer(settleRecovery(l, outcome), l)
  BY DEF settleRecovery, LayerFields
<1>4. Fewer(recoveryWaiterExpires(l, t), l)
  BY DEF recoveryWaiterExpires, LayerFields
<1>5. Fewer(failRenderer(l), l)
  BY DEF failRenderer, rejectPaintWaiter, settleRecovery, LayerFields
<1>6. QED
  BY <1>1, <1>2, <1>3, <1>4, <1>5

LEMMA ToldOf ==
  /\ Failed # Nothing /\ Recovered # Nothing /\ Failed # Recovered
  /\ \A receipt : /\ Painted(receipt) # Nothing /\ Painted(receipt) # Failed
                  /\ Painted(receipt) # Recovered
BY DEF Failed, Recovered, Nothing, Painted

LEMMA SettlingKeeps ==
  ASSUME NEW l, DOMAIN l = LayerFields, DOMAIN l.told = Task
  PROVE  /\ WaitsKept(l, rejectPaintWaiter(l))
         /\ WaitsKept(l, resolvePaintWaiter(l))
         /\ WaitsKept(l, settleRecovery(l, Failed))
         /\ l.phase = "ready" => WaitsKept(l, settleRecovery(l, Recovered))
         /\ WaitsKept(l, failRenderer(l))
         /\ \A u \in l.recoveryWaiters : WaitsKept(l, recoveryWaiterExpires(l, u))
<1> USE ToldOf
<1>1. WaitsKept(l, rejectPaintWaiter(l))
  <2> DEFINE m == rejectPaintWaiter(l)
  <2>1. /\ m.phase = l.phase /\ m.recoveryWaiters = l.recoveryWaiters /\ m.paintWaiter = None
        /\ \A t \in Task : m.told[t] = IF t = l.paintWaiter THEN Failed ELSE l.told[t]
    BY TasksAreDistinct DEF rejectPaintWaiter, LayerFields
  <2> HIDE DEF m
  <2>2. WaitsKept(l, m)
    BY <2>1, TasksAreDistinct DEF WaitsKept, WaitInv, PaintPcs
  <2>3. QED
    BY <2>2 DEF m
<1>2. WaitsKept(l, resolvePaintWaiter(l))
  <2> DEFINE m == resolvePaintWaiter(l)
             seen == Painted(l.receipt)
  <2>1. /\ m.phase = l.phase /\ m.recoveryWaiters = l.recoveryWaiters /\ m.paintWaiter = None
        /\ \A t \in Task : m.told[t] = IF t = l.paintWaiter THEN seen ELSE l.told[t]
    BY TasksAreDistinct DEF resolvePaintWaiter, LayerFields
  <2>2. seen \notin {Nothing, Failed, Recovered}
    OBVIOUS
  <2> HIDE DEF m, seen
  <2>3. WaitsKept(l, m)
    BY <2>1, <2>2, TasksAreDistinct DEF WaitsKept, WaitInv, PaintPcs
  <2>4. QED
    BY <2>3 DEF m
<1>3. ASSUME NEW outcome \in {Failed, Recovered}, outcome = Recovered => l.phase = "ready"
      PROVE  WaitsKept(l, settleRecovery(l, outcome))
  <2> DEFINE m == settleRecovery(l, outcome)
  <2>1. /\ m.phase = l.phase /\ m.recoveryWaiters = {} /\ m.paintWaiter = l.paintWaiter
        /\ \A t \in Task :
             m.told[t] = IF t \in l.recoveryWaiters THEN outcome ELSE l.told[t]
    BY DEF settleRecovery, LayerFields
  <2> HIDE DEF m
  <2>2. WaitsKept(l, m)
    BY <1>3, <2>1 DEF WaitsKept, WaitInv, PaintPcs
  <2>3. QED
    BY <2>2 DEF m
<1>4. WaitsKept(l, failRenderer(l))
  <2> DEFINE noted == [l EXCEPT !.error = "fatal"]
             m == failRenderer(l)
  <2>1. /\ m.phase = l.phase /\ m.recoveryWaiters = {} /\ m.paintWaiter = None
        /\ \A t \in Task :
             m.told[t] = IF t \in l.recoveryWaiters \/ t = l.paintWaiter THEN Failed
                         ELSE l.told[t]
    BY TasksAreDistinct DEF failRenderer, settleRecovery, rejectPaintWaiter, LayerFields
  <2> HIDE DEF m
  <2>2. WaitsKept(l, m)
    BY <2>1, TasksAreDistinct DEF WaitsKept, WaitInv, PaintPcs
  <2>3. QED
    BY <2>2 DEF m
<1>5. ASSUME NEW u \in l.recoveryWaiters
      PROVE  WaitsKept(l, recoveryWaiterExpires(l, u))
  <2> DEFINE m == recoveryWaiterExpires(l, u)
  <2>1. /\ m.phase = l.phase /\ m.recoveryWaiters = l.recoveryWaiters \ {u}
        /\ m.paintWaiter = l.paintWaiter
        /\ \A t \in Task : m.told[t] = IF t = u THEN Failed ELSE l.told[t]
    BY DEF recoveryWaiterExpires, LayerFields
  <2> HIDE DEF m
  <2>2. WaitsKept(l, m)
    BY <1>5, <2>1 DEF WaitsKept, WaitInv, PaintPcs
  <2>3. QED
    BY <2>2 DEF m
<1>6. QED
  BY <1>1, <1>2, <1>3, <1>4, <1>5

-----------------------------------------------------------------------------
(* What the calls ask of the renderer.                                      *)

RendererInv(l) == LoopInv(l) /\ PaintInv(l) /\ AskedInv(l)

(* The call waits for nothing.                                              *)
Clean(l, t) == l.told[t] = Nothing /\ t # l.paintWaiter /\ t \notin l.recoveryWaiters

Others(l, m, t) == \A u \in Task \ {t} : \A pc : WaitInv(l, u, pc) => WaitInv(m, u, pc)

(* The call has changed neither the loop nor what the others are told.      *)
Aside(m, l, t) ==
  /\ m.models = l.models /\ m.replacement = l.replacement /\ m.phase = l.phase
  /\ \A u \in Task \ {t} : m.told[u] = l.told[u]

LEMMA CleanOf ==
  ASSUME NEW l, NEW t, NEW pc, WaitInv(l, t, pc)
  PROVE  /\ pc \notin PaintPcs \cup {"recovering"} => Clean(l, t)
         /\ l.told[t] # Nothing => t # l.paintWaiter /\ t \notin l.recoveryWaiters
BY DEF WaitInv, Clean, PaintPcs

LEMMA CleanWait ==
  ASSUME NEW l, NEW t, Clean(l, t), NEW pc, pc \notin PaintPcs \cup {"recovering"}
  PROVE  WaitInv(l, t, pc)
BY ToldOf DEF WaitInv, Clean

LEMMA WaitsForPaint ==
  ASSUME NEW l, DOMAIN l = LayerFields, RendererInv(l), NEW t \in Task, Clean(l, t),
         IsPainted(l) \/ l.repaint
  PROVE  LET m == waitForPaint(l, t)
         IN  /\ RendererInv(m) /\ DOMAIN m = LayerFields /\ Others(l, m, t) /\ Aside(m, l, t)
             /\ \A pc \in PaintPcs : WaitInv(m, t, pc)
             /\ LooksLike(m, l)
<1> DEFINE m == waitForPaint(l, t)
           seen == Painted(l.receipt)
<1>0. LooksLike(m, l)
  BY Promises
<1>1. PICK answer : 
        /\ answer \in {Nothing, Failed, seen}
        /\ DOMAIN m.told = Task /\ m.models = l.models
        /\ m.recoveryWaiters = l.recoveryWaiters
        /\ \A u \in Task : m.told[u] = IF u = t THEN answer ELSE l.told[u]
        /\ answer # Nothing => m.paintWaiter = l.paintWaiter
        /\ answer = Nothing => m.paintWaiter = t /\ l.paintWaiter = None /\ ~IsPainted(l)
        /\ m.repaint = l.repaint /\ m.error = l.error
  <2>1. DOMAIN l.told = Task /\ l.told[t] = Nothing
    BY DEF RendererInv, LoopInv, Clean
  <2>2. CASE IsPainted(l)
    <3> WITNESS seen
    <3>1. m = [l EXCEPT !.told[t] = seen]
      BY <2>2 DEF waitForPaint
    <3> HIDE DEF m
    <3>2. seen # Nothing
      BY ToldOf
    <3> HIDE DEF seen
    <3>3. QED
      BY <2>1, <2>2, <3>1, <3>2 DEF LayerFields
  <2>3. CASE ~IsPainted(l) /\ l.paintWaiter # None
    <3> WITNESS Failed
    <3>1. m = [l EXCEPT !.told[t] = Failed]
      BY <2>3 DEF waitForPaint
    <3> HIDE DEF m
    <3>2. QED
      BY <2>1, <2>3, <3>1, ToldOf DEF LayerFields
  <2>4. CASE ~IsPainted(l) /\ l.paintWaiter = None
    <3> WITNESS Nothing
    <3>1. m = [l EXCEPT !.paintWaiter = t]
      BY <2>4 DEF waitForPaint
    <3> HIDE DEF m
    <3>2. QED
      BY <2>1, <2>4, <3>1, ToldOf DEF LayerFields
  <2>5. QED
    BY <2>2, <2>3, <2>4
<1>2. seen \notin {Nothing, Failed, Recovered}
  BY ToldOf
<1> HIDE DEF m, seen
<1>3. LoopInv(m)
  BY <1>0, <1>1 DEF RendererInv, LoopInv, LooksLike, IsReplacing
<1>4. PaintInv(m)
  BY <1>0, <1>1 DEF RendererInv, PaintInv, LooksLike, IsPainted
<1>5. AskedInv(m)
  <2>1. m.paintWaiter # None => l.paintWaiter # None \/ ~IsPainted(l)
    BY <1>1
  <2>2. QED
    BY <1>0, <1>1, <2>1 DEF RendererInv, AskedInv, LooksLike
<1>6. Others(l, m, t)
  BY <1>0, <1>1, ToldOf, TasksAreDistinct DEF Others, WaitInv, LooksLike
<1>7. \A pc \in PaintPcs : WaitInv(m, t, pc)
  BY <1>0, <1>1, <1>2, ToldOf DEF Clean, WaitInv, LooksLike, PaintPcs
<1>8. Aside(m, l, t) /\ DOMAIN m = LayerFields
  BY <1>0, <1>1 DEF Aside, LooksLike
<1>9. QED
  BY <1>0, <1>3, <1>4, <1>5, <1>6, <1>7, <1>8 DEF RendererInv, m

LEMMA WaitsForRecovery ==
  ASSUME NEW l, DOMAIN l = LayerFields, RendererInv(l), NEW t \in Task, Clean(l, t),
         l.phase # "ready"
  PROVE  LET m == waitForRecovery(l, t)
         IN  /\ RendererInv(m) /\ DOMAIN m = LayerFields /\ Others(l, m, t) /\ Aside(m, l, t)
             /\ \A pc \in {"recovering", "restoring"} : WaitInv(m, t, pc)
             /\ LooksLike(m, l)
<1> DEFINE m == waitForRecovery(l, t)
<1>1. LooksLike(m, l)
  BY Promises
<1>2. /\ m.told = l.told /\ m.models = l.models /\ m.paintWaiter = l.paintWaiter
      /\ m.recoveryWaiters = l.recoveryWaiters \cup {t}
      /\ m.repaint = l.repaint /\ m.error = l.error
  BY DEF waitForRecovery, LayerFields
<1> HIDE DEF m
<1>3. LoopInv(m)
  BY <1>1, <1>2 DEF RendererInv, LoopInv, LooksLike, IsReplacing
<1>4. PaintInv(m)
  BY <1>1, <1>2 DEF RendererInv, PaintInv, LooksLike, IsPainted
<1>5. AskedInv(m)
  BY <1>1, <1>2 DEF RendererInv, AskedInv, LooksLike
<1>6. Others(l, m, t)
  BY <1>1, <1>2 DEF Others, WaitInv, LooksLike
<1>7. \A pc \in {"recovering", "restoring"} : WaitInv(m, t, pc)
  BY <1>1, <1>2, ToldOf DEF Clean, WaitInv, LooksLike, PaintPcs
<1>8. Aside(m, l, t) /\ DOMAIN m = LayerFields
  BY <1>1, <1>2 DEF Aside, LooksLike
<1>9. QED
  BY <1>1, <1>3, <1>4, <1>5, <1>6, <1>7, <1>8 DEF RendererInv, m

(* It is told at once, or what it was told has been heard.                  *)
LEMMA IsTold ==
  ASSUME NEW l, DOMAIN l = LayerFields, RendererInv(l), NEW t \in Task, NEW answer,
         t # l.paintWaiter, t \notin l.recoveryWaiters
  PROVE  LET m == [l EXCEPT !.told[t] = answer]
         IN  /\ RendererInv(m) /\ DOMAIN m = LayerFields /\ Others(l, m, t) /\ Aside(m, l, t)
             /\ answer = Nothing => Clean(m, t)
             /\ answer \notin {Nothing, Recovered} => \A pc \in PaintPcs : WaitInv(m, t, pc)
             /\ LooksLike(m, l)
             /\ m.models = l.models /\ m.repaint = l.repaint
<1> DEFINE m == [l EXCEPT !.told[t] = answer]
<1>1. LooksLike(m, l)
  BY Answers
<1>2. DOMAIN l.told = Task
  BY DEF RendererInv, LoopInv
<1>3. /\ DOMAIN m.told = Task /\ m.models = l.models /\ m.paintWaiter = l.paintWaiter
      /\ m.recoveryWaiters = l.recoveryWaiters
      /\ \A u \in Task : m.told[u] = IF u = t THEN answer ELSE l.told[u]
      /\ m.repaint = l.repaint /\ m.error = l.error
  BY <1>2 DEF LayerFields
<1> HIDE DEF m
<1>4. LoopInv(m)
  BY <1>1, <1>3 DEF RendererInv, LoopInv, LooksLike, IsReplacing
<1>5. PaintInv(m)
  BY <1>1, <1>3 DEF RendererInv, PaintInv, LooksLike, IsPainted
<1>6. AskedInv(m)
  BY <1>1, <1>3 DEF RendererInv, AskedInv, LooksLike
<1>7. Others(l, m, t)
  BY <1>1, <1>3 DEF Others, WaitInv, LooksLike
<1>8. /\ answer = Nothing => Clean(m, t)
      /\ answer \notin {Nothing, Recovered} => \A pc \in PaintPcs : WaitInv(m, t, pc)
  BY <1>1, <1>3 DEF Clean, WaitInv, LooksLike, PaintPcs
<1>9. Aside(m, l, t) /\ DOMAIN m = LayerFields
  BY <1>1, <1>3 DEF Aside, LooksLike
<1>10. QED
  BY <1>1, <1>3, <1>4, <1>5, <1>6, <1>7, <1>8, <1>9 DEF RendererInv, m

(* A selection is of the loop, asked for again unless it is on the screen.  *)
LEMMA SelectsAFrame ==
  ASSUME NEW l, LayerInv(l), RendererInv(l), NEW t \in Task, Clean(l, t), NEW scan
  PROVE  LET m == selectAndWait(l, t, scan)
         IN  /\ RendererInv(m) /\ Others(l, m, t) /\ Aside(m, l, t)
             /\ WaitInv(m, t, "selecting")
<1>1. DOMAIN l = LayerFields /\ "selecting" \in PaintPcs
  BY DEF LayerInv, PaintPcs
<1>2. CASE ~MaySelect(l, scan)
  <2>1. selectAndWait(l, t, scan) = [l EXCEPT !.told[t] = Failed]
    BY <1>2 DEF selectAndWait
  <2>2. t # l.paintWaiter /\ t \notin l.recoveryWaiters /\ Failed \notin {Nothing, Recovered}
    BY ToldOf DEF Clean
  <2>3. QED
    BY <1>1, <2>1, <2>2, IsTold
<1>3. CASE MaySelect(l, scan)
  <2> DEFINE m == selectFrame(l, scan)
  <2>1. selectAndWait(l, t, scan) = waitForPaint(m, t)
    BY <1>3 DEF selectAndWait
  <2>2. /\ DOMAIN m = LayerFields /\ m.told = l.told /\ m.models = l.models
        /\ m.resident = l.resident /\ m.replacement = l.replacement /\ m.phase = l.phase
        /\ m.paintWaiter = l.paintWaiter /\ m.recoveryWaiters = l.recoveryWaiters
        /\ m.pendingPaint = l.pendingPaint /\ m.receipt = l.receipt
        /\ m.added = l.added /\ m.error = l.error
        /\ \/ m = l
           \/ m.selected = scan /\ m.sequence = l.sequence + 1 /\ m.repaint = TRUE
    BY <1>1 DEF selectFrame, LayerFields
  <2> HIDE DEF m
  <2>3. /\ scan \in l.resident /\ l.pendingPaint = NoPaint /\ IsPainted(l)
        /\ l.sequence \in Nat /\ l.receipt.sequence = l.sequence
    BY <1>3 DEF MaySelect, LayerInv, NumbersInv, IsPainted
  <2>4. CASE m = l
    BY <1>1, <2>1, <2>3, <2>4, WaitsForPaint
  <2>5. CASE m.selected = scan /\ m.sequence = l.sequence + 1 /\ m.repaint = TRUE
    <3>1. ~IsPainted(m)
      BY <2>2, <2>3, <2>5 DEF IsPainted
    <3>2. LoopInv(m)
      BY <2>2, <2>3, <2>5 DEF RendererInv, LoopInv, IsReplacing
    <3>3. PaintInv(m)
      BY <2>2, <3>1 DEF RendererInv, PaintInv
    <3>4. AskedInv(m)
      BY <2>5 DEF AskedInv
    <3>5. Clean(m, t)
      BY <2>2 DEF Clean
    <3>6. RendererInv(m)
      BY <3>2, <3>3, <3>4 DEF RendererInv
    <3> DEFINE n == waitForPaint(m, t)
    <3>7. /\ RendererInv(n) /\ Others(m, n, t) /\ Aside(n, m, t)
          /\ WaitInv(n, t, "selecting")
      BY <1>1, <2>2, <2>5, <3>5, <3>6, WaitsForPaint
    <3> HIDE DEF n
    <3>8. Others(l, m, t)
      BY <2>2 DEF Others, WaitInv
    <3>9. Others(l, n, t)
      BY <3>7, <3>8 DEF Others
    <3>10. Aside(n, l, t)
      BY <2>2, <3>7 DEF Aside
    <3>11. QED
      BY <2>1, <3>7, <3>9, <3>10 DEF n
  <2>6. QED
    BY <2>2, <2>4, <2>5
<1>4. QED
  BY <1>2, <1>3

-----------------------------------------------------------------------------
(* Updates of the loop.                                                     *)

Renumbered(l) == [l EXCEPT !.sequence = @ + 1, !.repaint = TRUE]

LEMMA UploadsKeep ==
  ASSUME NEW l, LayerInv(l), RendererInv(l), MayReplace(l), l.phase = "ready",
         NEW scans \in SUBSET Scan, NEW selected \in scans,
         NEW m, \/ selected = l.selected /\ m = Uploads(l, scans, selected)
                \/ m = Renumbered(Uploads(l, scans, selected))
  PROVE  /\ RendererInv(m) /\ DOMAIN m = LayerFields
         /\ IsPainted(m) \/ m.repaint
         /\ IsReplacing(m) /\ m.models = scans /\ m.replacement.models = l.models
         /\ m.told = l.told /\ m.paintWaiter = l.paintWaiter
         /\ m.recoveryWaiters = l.recoveryWaiters /\ m.phase = l.phase
<1>1. /\ DOMAIN l = LayerFields /\ l.sequence \in Nat
      /\ l.pendingPaint = NoPaint /\ IsPainted(l)
      /\ l.receipt.sequence = l.sequence /\ l.paintWaiter = None
  BY DEF LayerInv, NumbersInv, MayReplace, IsPainted, RendererInv, PaintInv
<1>2. /\ DOMAIN m = LayerFields /\ m.told = l.told /\ m.models = scans
      /\ m.resident = scans /\ m.phase = l.phase /\ m.selected = selected
      /\ m.paintWaiter = l.paintWaiter /\ m.recoveryWaiters = l.recoveryWaiters
      /\ m.pendingPaint = l.pendingPaint /\ m.receipt = l.receipt
      /\ m.replacement = [models |-> l.models, resident |-> l.resident,
                          selected |-> l.selected, sequence |-> l.sequence]
      /\ \/ m.sequence = l.sequence
         \/ m.sequence = l.sequence + 1 /\ m.repaint = TRUE
  <2> DEFINE u == Uploads(l, scans, selected)
  <2>1. /\ DOMAIN u = LayerFields /\ u.told = l.told /\ u.models = scans
        /\ u.resident = scans /\ u.phase = l.phase /\ u.selected = selected
        /\ u.paintWaiter = l.paintWaiter /\ u.recoveryWaiters = l.recoveryWaiters
        /\ u.pendingPaint = l.pendingPaint /\ u.receipt = l.receipt
        /\ u.replacement = [models |-> l.models, resident |-> l.resident,
                            selected |-> l.selected, sequence |-> l.sequence]
        /\ u.sequence = l.sequence
    BY <1>1 DEF Uploads, LayerFields
  <2> HIDE DEF u
  <2>2. \/ m = u
        \/ m = [u EXCEPT !.sequence = @ + 1, !.repaint = TRUE]
    BY DEF u, Renumbered
  <2>3. CASE m = u
    BY <2>1, <2>3
  <2>4. CASE m = [u EXCEPT !.sequence = @ + 1, !.repaint = TRUE]
    BY <2>1, <2>4 DEF LayerFields
  <2>5. QED
    BY <2>2, <2>3, <2>4
<1>3. l.selected \in l.models /\ l.resident \subseteq l.models /\ l.models \subseteq Scan
      /\ DOMAIN l.told = Task
  BY DEF RendererInv, LoopInv
<1>4. LoopInv(m)
  BY <1>2, <1>3 DEF LoopInv, LayerPhases, Phases
<1>5. PaintInv(m)
  BY <1>1, <1>2 DEF RendererInv, PaintInv
<1>6. AskedInv(m)
  BY <1>1, <1>2 DEF AskedInv
<1>7. IsPainted(m) \/ m.repaint
  BY <1>1, <1>2 DEF IsPainted
<1>8. IsReplacing(m)
  BY <1>2, <1>3 DEF IsReplacing, NoReplacement
<1>9. QED
  BY <1>2, <1>4, <1>5, <1>6, <1>7, <1>8 DEF RendererInv

LEMMA SwappedKeeps ==
  ASSUME NEW l, LayerInv(l), RendererInv(l), NEW t \in Session, MayReplace(l),
         l.phase = "ready", NEW selected, task[t].frames \subseteq Scan,
         task[t].appends => selected \in task[t].frames,
         ~task[t].appends => \E scan \in Scan : task[t].frames = {scan}
  PROVE  LET m == Swapped(t, l, selected)
         IN  /\ RendererInv(m) /\ DOMAIN m = LayerFields
             /\ IsPainted(m) \/ m.repaint
             /\ IsReplacing(m) /\ m.models = task[t].frames /\ m.replacement.models = l.models
             /\ m.told = l.told /\ m.paintWaiter = l.paintWaiter
             /\ m.recoveryWaiters = l.recoveryWaiters /\ m.phase = l.phase
<1> DEFINE frames == task[t].frames
           m == Swapped(t, l, selected)
<1>1. PICK scan \in frames :
        \/ scan = l.selected /\ m = Uploads(l, frames, scan)
        \/ m = Renumbered(Uploads(l, frames, scan))
  <2>1. CASE task[t].appends
    <3>1. m = updateResidentHistory(l, frames, selected)
      BY <2>1 DEF Swapped
    <3>2. QED
      BY <2>1, <3>1 DEF updateResidentHistory, Renumbered
  <2>2. CASE ~task[t].appends
    <3>1. PICK scan \in Scan : frames = {scan}
      BY <2>2
    <3>2. scan \in Nat
      BY HistoryAssumption
    <3>3. Min(frames) = scan
      BY <3>1, <3>2 DEF Min
    <3>4. m = Renumbered(Uploads(l, frames, scan))
      BY <2>2, <3>3 DEF Swapped, replaceResidentFrames, Renumbered
    <3> HIDE DEF m, frames
    <3>5. QED
      BY <3>1, <3>4
  <2>3. QED
    BY <2>1, <2>2
<1>2. frames \in SUBSET Scan
  OBVIOUS
<1> HIDE DEF m, frames
<1>3. /\ RendererInv(m) /\ DOMAIN m = LayerFields
      /\ IsPainted(m) \/ m.repaint
      /\ IsReplacing(m) /\ m.models = frames /\ m.replacement.models = l.models
      /\ m.told = l.told /\ m.paintWaiter = l.paintWaiter
      /\ m.recoveryWaiters = l.recoveryWaiters /\ m.phase = l.phase
  BY <1>1, <1>2, UploadsKeep
<1>4. QED
  BY <1>3 DEF m, frames

LEMMA CommitKeeps ==
  ASSUME NEW l, DOMAIN l = LayerFields, RendererInv(l)
  PROVE  LET m == commitResidentFrameReplacement(l)
         IN  /\ RendererInv(m) /\ m.models = l.models /\ ~IsReplacing(m)
             /\ \A t, pc : WaitInv(l, t, pc) => WaitInv(m, t, pc)
             /\ m.selected = l.selected
<1> DEFINE m == commitResidentFrameReplacement(l)
<1>1. /\ DOMAIN m = LayerFields /\ m.replacement = NoReplacement
      /\ m.told = l.told /\ m.phase = l.phase /\ m.models = l.models
      /\ m.resident = l.resident /\ m.selected = l.selected
      /\ m.paintWaiter = l.paintWaiter /\ m.recoveryWaiters = l.recoveryWaiters
      /\ m.pendingPaint = l.pendingPaint /\ m.receipt = l.receipt
      /\ m.sequence = l.sequence /\ m.repaint = l.repaint /\ m.error = l.error
      /\ m.added = l.added
  BY DEF commitResidentFrameReplacement, LayerFields
<1> HIDE DEF m
<1>2. LoopInv(m) /\ ~IsReplacing(m)
  BY <1>1 DEF RendererInv, LoopInv, IsReplacing
<1>3. PaintInv(m) /\ AskedInv(m)
  BY <1>1 DEF RendererInv, PaintInv, AskedInv, IsPainted
<1>4. \A t, pc : WaitInv(l, t, pc) => WaitInv(m, t, pc)
  BY <1>1 DEF WaitInv
<1>5. QED
  BY <1>1, <1>2, <1>3, <1>4 DEF RendererInv, m

LEMMA RollbackKeeps ==
  ASSUME NEW l, LayerInv(l), RendererInv(l), IsReplacing(l), NEW t \in Task, Clean(l, t)
  PROVE  LET m == rollbackResidentFrameReplacement(l, t)
         IN  /\ RendererInv(m) /\ Others(l, m, t) /\ WaitInv(m, t, "restoring")
             /\ m.models = l.replacement.models /\ ~IsReplacing(m)
<1> DEFINE previous == l.replacement
           rejected == rejectPaintWaiter(l)
           m == [rejected EXCEPT
                   !.gpu = @ \ (l.resident \ previous.resident),
                   !.models = previous.models, !.resident = previous.resident,
                   !.selected = previous.selected, !.sequence = previous.sequence,
                   !.pendingPaint = NoPaint, !.receipt = NoPaint,
                   !.replacement = NoReplacement,
                   !.error = "none", !.repaint = TRUE]
           n == waitForPaint(m, t)
<1>1. /\ DOMAIN l = LayerFields /\ DOMAIN l.told = Task
      /\ l.replacement.sequence \in Nat \ {0} /\ l.phase = "ready"
  BY DEF LayerInv, ReplacementInv, RendererInv, LoopInv, IsReplacing
<1>2. Fewer(rejected, l) /\ WaitsKept(l, rejected)
  BY <1>1, Settling, SettlingKeeps
<1>3. Clean(rejected, t)
  <2>1. /\ rejected.recoveryWaiters = l.recoveryWaiters /\ rejected.paintWaiter = None
        /\ \A u \in Task : rejected.told[u] = IF u = l.paintWaiter THEN Failed ELSE l.told[u]
    BY <1>1, TasksAreDistinct DEF rejectPaintWaiter, LayerFields
  <2> HIDE DEF rejected
  <2>2. QED
    BY <2>1, TasksAreDistinct DEF Clean
<1> HIDE DEF rejected
<1>4. /\ DOMAIN m = LayerFields /\ m.told = rejected.told /\ m.phase = l.phase
      /\ m.models = previous.models /\ m.resident = previous.resident
      /\ m.selected = previous.selected /\ m.sequence = previous.sequence
      /\ m.receipt = NoPaint /\ m.pendingPaint = NoPaint /\ m.replacement = NoReplacement
      /\ m.paintWaiter = rejected.paintWaiter
      /\ m.recoveryWaiters = rejected.recoveryWaiters /\ m.repaint = TRUE
  BY <1>2 DEF Fewer, LooksLike, LayerFields
<1> HIDE DEF m
<1>5. ~IsPainted(m)
  BY <1>1, <1>4 DEF IsPainted, NoPaint
<1>6. LoopInv(m)
  BY <1>1, <1>2, <1>4 DEF Fewer, RendererInv, LoopInv, IsReplacing
<1>7. PaintInv(m) /\ AskedInv(m)
  BY <1>1, <1>2, <1>4, <1>5 DEF Fewer, RendererInv, PaintInv, AskedInv
<1>8. Clean(m, t)
  BY <1>3, <1>4 DEF Clean
<1>9. \A u \in Task : \A pc : WaitInv(l, u, pc) => WaitInv(m, u, pc)
  <2>1. rejected.phase = l.phase
    BY <1>2 DEF Fewer, LooksLike
  <2>2. \A u \in Task : \A pc : WaitInv(rejected, u, pc) => WaitInv(m, u, pc)
    BY <1>4, <2>1 DEF WaitInv
  <2>3. QED
    BY <1>2, <2>2 DEF WaitsKept
<1>10. RendererInv(m)
  BY <1>6, <1>7 DEF RendererInv
<1>11. /\ RendererInv(n) /\ Others(m, n, t) /\ Aside(n, m, t)
       /\ \A pc \in PaintPcs : WaitInv(n, t, pc)
  BY <1>4, <1>8, <1>10, WaitsForPaint
<1>12. rollbackResidentFrameReplacement(l, t) = n
  BY DEF rollbackResidentFrameReplacement, m, rejected
<1> HIDE DEF n
<1>13. Others(l, n, t)
  BY <1>9, <1>11 DEF Others
<1>14. WaitInv(n, t, "restoring")
  BY <1>11 DEF PaintPcs
<1>15. n.models = previous.models /\ ~IsReplacing(n)
  BY <1>4, <1>11 DEF Aside, IsReplacing
<1>16. QED
  BY <1>11, <1>12, <1>13, <1>14, <1>15

-----------------------------------------------------------------------------
(* What the map and the GPU do to the renderer.                             *)

LEMMA DeletedKeeps ==
  ASSUME NEW l, DOMAIN l = LayerFields, LoopInv(l)
  PROVE  LET m == deleteResources(l)
         IN  /\ LoopInv(m) /\ AskedInv(m) /\ WaitsKept(l, m)
             /\ DOMAIN m = LayerFields /\ m.models = l.models /\ m.told = l.told
             /\ m.paintWaiter = l.paintWaiter /\ m.recoveryWaiters = l.recoveryWaiters
             /\ m.phase = l.phase /\ m.receipt = l.receipt /\ m.sequence = l.sequence
             /\ m.pendingPaint = NoPaint /\ ~IsReplacing(m)
<1> DEFINE m == deleteResources(l)
<1>1. /\ DOMAIN m = LayerFields /\ m.models = l.models /\ m.told = l.told
      /\ m.paintWaiter = l.paintWaiter /\ m.recoveryWaiters = l.recoveryWaiters
      /\ m.phase = l.phase /\ m.receipt = l.receipt /\ m.sequence = l.sequence
      /\ m.selected = l.selected /\ m.resident = {} /\ m.added = FALSE
      /\ m.pendingPaint = NoPaint /\ m.replacement = NoReplacement
  BY DEF deleteResources, LayerFields
<1> HIDE DEF m
<1>2. ~IsReplacing(m)
  BY <1>1 DEF IsReplacing
<1>3. LoopInv(m)
  BY <1>1, <1>2 DEF LoopInv
<1>4. AskedInv(m)
  BY <1>1 DEF AskedInv
<1>5. WaitsKept(l, m)
  BY <1>1 DEF WaitsKept, WaitInv
<1>6. QED
  BY <1>1, <1>2, <1>3, <1>4, <1>5 DEF m

(* An update that the context takes with it fails, if it waits.             *)
LEMMA LostKeeps ==
  ASSUME NEW l, LayerInv(l), RendererInv(l), \A t \in Task : l.told[t] = Nothing
  PROVE  LET m == handleContextLost(l)
         IN  /\ RendererInv(m) /\ WaitsKept(l, m)
             /\ ~IsReplacing(m) /\ m.phase = "context_lost"
             /\ m.models = IF IsReplacing(l) THEN l.replacement.models ELSE l.models
             /\ \A t \in Task : IsReplacing(l) /\ l.paintWaiter = t => m.told[t] = Failed
<1> DEFINE rejected == rejectPaintWaiter(l)
           abandoned == IF ~IsReplacing(l) THEN l
                        ELSE [rejected EXCEPT
                                !.models = l.replacement.models,
                                !.selected = l.replacement.selected,
                                !.sequence = l.replacement.sequence]
           lost == [abandoned EXCEPT !.contextLossActive = TRUE, !.phase = "context_lost",
                                     !.receipt = NoPaint, !.error = "none"]
           n == deleteResources(lost)
<1>1. DOMAIN l = LayerFields /\ DOMAIN l.told = Task /\ l.sequence \in Nat \ {0}
  BY DEF LayerInv, NumbersInv, RendererInv, LoopInv
<1>2. Fewer(rejected, l) /\ WaitsKept(l, rejected)
  BY <1>1, Settling, SettlingKeeps
<1>3. \A t \in Task : l.paintWaiter = t => rejected.told[t] = Failed
  BY <1>1, TasksAreDistinct DEF rejectPaintWaiter, LayerFields
<1> HIDE DEF rejected
<1>4. /\ DOMAIN abandoned = LayerFields /\ DOMAIN abandoned.told = Task
      /\ WaitsKept(l, abandoned)
      /\ abandoned.models = IF IsReplacing(l) THEN l.replacement.models ELSE l.models
      /\ abandoned.selected = IF IsReplacing(l) THEN l.replacement.selected ELSE l.selected
      /\ abandoned.sequence \in Nat \ {0}
      /\ abandoned.resident = l.resident
      /\ \A t \in Task : IsReplacing(l) /\ l.paintWaiter = t => abandoned.told[t] = Failed
      /\ \A t \in Task : abandoned.told[t] \in {Nothing, Failed}
  <2>1. CASE ~IsReplacing(l)
    BY <1>1, <2>1 DEF WaitsKept
  <2>2. CASE IsReplacing(l)
    <3>1. /\ DOMAIN abandoned = LayerFields /\ abandoned.told = rejected.told
          /\ abandoned.models = l.replacement.models
          /\ abandoned.selected = l.replacement.selected
          /\ abandoned.sequence = l.replacement.sequence
          /\ abandoned.resident = l.resident
          /\ abandoned.paintWaiter = rejected.paintWaiter
          /\ abandoned.recoveryWaiters = rejected.recoveryWaiters
          /\ abandoned.phase = rejected.phase
      BY <1>2, <2>2 DEF Fewer, LooksLike, LayerFields
    <3> HIDE DEF abandoned
    <3>2. WaitsKept(l, abandoned)
      BY <1>2, <3>1 DEF WaitsKept, WaitInv
    <3>3. abandoned.sequence \in Nat \ {0}
      BY <2>2, <3>1 DEF LayerInv, ReplacementInv, IsReplacing
    <3>4. \A t \in Task : rejected.told[t] \in {Nothing, Failed}
      BY <1>1, TasksAreDistinct DEF rejected, rejectPaintWaiter, LayerFields
    <3>5. QED
      BY <1>2, <1>3, <2>2, <3>1, <3>2, <3>3, <3>4 DEF Fewer
  <2>3. QED
    BY <2>1, <2>2
<1> HIDE DEF abandoned
<1>5. /\ DOMAIN lost = LayerFields /\ lost.told = abandoned.told /\ lost.phase = "context_lost"
      /\ lost.models = abandoned.models /\ lost.selected = abandoned.selected
      /\ lost.sequence = abandoned.sequence /\ lost.receipt = NoPaint
      /\ lost.paintWaiter = abandoned.paintWaiter
      /\ lost.recoveryWaiters = abandoned.recoveryWaiters
  BY <1>4 DEF LayerFields
<1>6. /\ DOMAIN n = LayerFields /\ n.told = abandoned.told /\ n.phase = "context_lost"
      /\ n.models = abandoned.models /\ n.selected = abandoned.selected
      /\ n.sequence = abandoned.sequence /\ n.receipt = NoPaint /\ n.resident = {}
      /\ n.paintWaiter = abandoned.paintWaiter
      /\ n.recoveryWaiters = abandoned.recoveryWaiters
      /\ n.pendingPaint = NoPaint /\ n.replacement = NoReplacement /\ n.added = FALSE
  BY <1>5 DEF deleteResources, LayerFields
<1>7. handleContextLost(l) = n
  BY DEF handleContextLost, beginContextRecovery, lost, abandoned, rejected
<1> HIDE DEF n, lost
<1>8. ~IsReplacing(n) /\ ~IsPainted(n)
  BY <1>4, <1>6 DEF IsReplacing, IsPainted, NoPaint
<1>9. LoopInv(n)
  BY <1>4, <1>6, <1>8 DEF RendererInv, LoopInv, LayerPhases
<1>10. PaintInv(n) /\ AskedInv(n)
  BY <1>6, <1>8 DEF PaintInv, AskedInv
<1>11. WaitsKept(l, n)
  <2>1. \A t \in Task : n.told[t] # Recovered
    BY <1>4, <1>6, ToldOf
  <2>2. WaitsKept(abandoned, n)
    BY <1>6, <2>1 DEF WaitsKept, WaitInv
  <2>3. QED
    BY <1>4, <2>2 DEF WaitsKept
<1>12. QED
  BY <1>4, <1>6, <1>7, <1>8, <1>9, <1>10, <1>11 DEF RendererInv

LEMMA RestoredKeeps ==
  ASSUME NEW l, LayerInv(l), RendererInv(l), l.contextLossActive
  PROVE  LET m == handleContextRestored(l)
         IN  /\ RendererInv(m) /\ WaitsKept(l, m)
             /\ m.replacement = l.replacement /\ m.models = l.models
<1> DEFINE m == handleContextRestored(l)
<1>1. DOMAIN l = LayerFields /\ l.phase = "context_lost" /\ ~l.added /\ ~IsReplacing(l)
  BY DEF LayerInv, ResourcesInv, ReplacementInv, IsReplacing
<1>2. /\ m.models = l.models /\ m.told = l.told /\ m.selected = l.selected
      /\ m.resident = l.resident /\ m.replacement = l.replacement
      /\ m.paintWaiter = l.paintWaiter /\ m.recoveryWaiters = l.recoveryWaiters
      /\ m.receipt = l.receipt /\ m.sequence = l.sequence /\ m.pendingPaint = l.pendingPaint
      /\ m.added = l.added /\ m.phase = "waiting_for_style"
  BY <1>1 DEF handleContextRestored, LayerFields
<1> HIDE DEF m
<1>3. LoopInv(m)
  BY <1>1, <1>2 DEF RendererInv, LoopInv, LayerPhases, IsReplacing
<1>4. PaintInv(m) /\ AskedInv(m)
  BY <1>1, <1>2 DEF RendererInv, PaintInv, AskedInv, IsPainted
<1>5. WaitsKept(l, m)
  BY <1>1, <1>2 DEF WaitsKept, WaitInv
<1>6. QED
  BY <1>2, <1>3, <1>4, <1>5 DEF RendererInv, m

LEMMA AddedKeeps ==
  ASSUME NEW l, LayerInv(l), RendererInv(l), MayReadd(l), NEW uploads \in BOOLEAN
  PROVE  LET m == onAdd(l, uploads)
         IN  /\ RendererInv(m) /\ WaitsKept(l, m)
             /\ IsReplacing(l) = FALSE /\ IsReplacing(m) = FALSE /\ m.models = l.models
<1> DEFINE painting == [l EXCEPT !.phase = "painting_visible_frame"]
           created == createResources(painting)
           failed == failRenderer(painting)
           deleted == deleteResources(failed)
<1>1. /\ DOMAIN l = LayerFields /\ DOMAIN l.told = Task /\ l.phase = "waiting_for_style"
      /\ ~l.added /\ l.replacement = NoReplacement
  BY DEF MayReadd, LayerInv, ResourcesInv, ReplacementInv, RendererInv, LoopInv
<1>2. /\ DOMAIN painting = LayerFields /\ painting.phase = "painting_visible_frame"
      /\ painting.models = l.models /\ painting.told = l.told
      /\ painting.selected = l.selected /\ painting.resident = l.resident
      /\ painting.replacement = NoReplacement /\ painting.receipt = l.receipt
      /\ painting.sequence = l.sequence /\ painting.pendingPaint = l.pendingPaint
      /\ painting.paintWaiter = l.paintWaiter
      /\ painting.recoveryWaiters = l.recoveryWaiters
  BY <1>1 DEF LayerFields
<1> HIDE DEF painting
<1>3. LoopInv(painting) /\ PaintInv(painting) /\ ~IsPainted(painting)
  BY <1>1, <1>2 DEF RendererInv, LoopInv, PaintInv, IsPainted, IsReplacing, LayerPhases, Phases
<1>4. WaitsKept(l, painting)
  BY <1>1, <1>2 DEF WaitsKept, WaitInv
<1>5. CASE uploads
  <2>1. onAdd(l, uploads) = created
    BY <1>5 DEF onAdd, painting
  <2>2. /\ created.models = l.models /\ created.told = l.told
        /\ created.selected = l.selected /\ created.resident = {l.selected}
        /\ created.replacement = NoReplacement /\ created.repaint = TRUE
        /\ created.phase = painting.phase /\ created.receipt = l.receipt
        /\ created.sequence = l.sequence /\ created.pendingPaint = l.pendingPaint
        /\ created.paintWaiter = l.paintWaiter
        /\ created.recoveryWaiters = l.recoveryWaiters
    BY <1>2 DEF createResources, LayerFields
  <2> HIDE DEF created
  <2>3. LoopInv(created)
    BY <1>1, <1>2, <2>2 DEF RendererInv, LoopInv, IsReplacing, LayerPhases, Phases
  <2>4. PaintInv(created) /\ AskedInv(created)
    BY <1>2, <1>3, <2>2 DEF PaintInv, AskedInv, IsPainted
  <2>5. WaitsKept(l, created)
    BY <1>1, <1>2, <2>2 DEF WaitsKept, WaitInv
  <2>6. IsReplacing(created) = FALSE /\ IsReplacing(l) = FALSE
    BY <1>1, <2>2 DEF IsReplacing
  <2>7. QED
    BY <2>1, <2>2, <2>3, <2>4, <2>5, <2>6 DEF RendererInv
<1>6. CASE ~uploads
  <2>1. onAdd(l, uploads) = deleted
    BY <1>6 DEF onAdd, painting
  <2>2. Fewer(failed, painting) /\ WaitsKept(painting, failed)
    BY <1>1, <1>2, Settling, SettlingKeeps
  <2>3. LoopInv(failed) /\ PaintInv(failed)
    BY <1>3, <2>2, FewerWait
  <2>4. DOMAIN failed = LayerFields /\ failed.models = l.models
    BY <1>2, <2>2 DEF Fewer, LooksLike
  <2> HIDE DEF failed
  <2>5. /\ LoopInv(deleted) /\ AskedInv(deleted) /\ WaitsKept(failed, deleted)
        /\ deleted.models = failed.models
        /\ deleted.paintWaiter = failed.paintWaiter
        /\ deleted.recoveryWaiters = failed.recoveryWaiters
        /\ deleted.phase = failed.phase /\ deleted.receipt = failed.receipt
        /\ deleted.sequence = failed.sequence /\ deleted.pendingPaint = NoPaint
        /\ ~IsReplacing(deleted)
    BY <2>3, <2>4, DeletedKeeps
  <2> HIDE DEF deleted
  <2>6. PaintInv(deleted)
    BY <2>3, <2>5 DEF PaintInv, IsPainted
  <2>7. WaitsKept(l, deleted)
    BY <1>4, <2>2, <2>5 DEF WaitsKept
  <2>8. IsReplacing(l) = FALSE /\ IsReplacing(deleted) = FALSE
    BY <1>1, <2>5 DEF IsReplacing
  <2>9. QED
    BY <2>1, <2>4, <2>5, <2>6, <2>7, <2>8 DEF RendererInv
<1>7. QED
  BY <1>5, <1>6

LEMMA RemovedKeeps ==
  ASSUME NEW l, LayerInv(l), RendererInv(l)
  PROVE  RendererInv(onRemove(l)) /\ WaitsKept(l, onRemove(l))
<1> DEFINE deleted == deleteResources(l)
           deaf == [deleted EXCEPT !.listening = FALSE]
           rejected == rejectPaintWaiter(deaf)
           m == settleRecovery(rejected, Failed)
<1>1. DOMAIN l = LayerFields
  BY DEF LayerInv
<1>2. /\ LoopInv(deleted) /\ AskedInv(deleted) /\ WaitsKept(l, deleted)
      /\ DOMAIN deleted = LayerFields
      /\ deleted.paintWaiter = l.paintWaiter /\ deleted.recoveryWaiters = l.recoveryWaiters
      /\ deleted.phase = l.phase /\ deleted.receipt = l.receipt
      /\ deleted.sequence = l.sequence /\ deleted.pendingPaint = NoPaint
  BY <1>1, DeletedKeeps DEF RendererInv
<1> HIDE DEF deleted
<1>3. /\ DOMAIN deaf = LayerFields /\ LoopInv(deaf) /\ AskedInv(deaf)
      /\ WaitsKept(deleted, deaf)
  BY <1>2 DEF LayerFields, LoopInv, AskedInv, WaitsKept, WaitInv, IsReplacing
<1>4. PaintInv(deaf)
  BY <1>2 DEF LayerFields, RendererInv, PaintInv, IsPainted
<1>5. DOMAIN deaf.told = Task
  BY <1>3 DEF LoopInv
<1> HIDE DEF deaf
<1>6. Fewer(rejected, deaf) /\ WaitsKept(deaf, rejected)
  BY <1>3, <1>5, Settling, SettlingKeeps
<1>7. /\ LoopInv(rejected) /\ PaintInv(rejected) /\ AskedInv(rejected)
      /\ DOMAIN rejected = LayerFields /\ DOMAIN rejected.told = Task
  BY <1>3, <1>4, <1>6, FewerWait DEF Fewer, LooksLike
<1> HIDE DEF rejected
<1>8. Fewer(m, rejected) /\ WaitsKept(rejected, m)
  BY <1>7, Settling, SettlingKeeps
<1>9. RendererInv(m)
  BY <1>7, <1>8, FewerWait DEF RendererInv
<1>10. WaitsKept(l, m)
  BY <1>2, <1>3, <1>6, <1>8 DEF WaitsKept
<1>11. onRemove(l) = m
  BY DEF onRemove, deleted, deaf, rejected
<1>12. QED
  BY <1>9, <1>10, <1>11

-----------------------------------------------------------------------------
(* A drawing: what it leaves undone, it asks to be drawn again.             *)

LEMMA FirstScan ==
  ASSUME NEW S \in SUBSET Scan, S # {}
  PROVE  Min(S) \in S
<1> DEFINE Less == {ss \in Nat \X Nat : ss[1] < ss[2]}
<1>1. IsWellFoundedOn(Less, Nat)
  BY NatLessThanWellFounded DEF OpToRel
<1>2. S \in SUBSET Nat
  BY HistoryAssumption
<1>3. PICK m \in S : \A y \in S : ~ (<<y, m>> \in Less)
  <2> HIDE DEF Less
  <2> QED BY <1>1, <1>2, WFMin
<1>4. ASSUME NEW y \in S PROVE m <= y
  <2>1. y \in Nat /\ m \in Nat
    BY <1>2
  <2>2. y < m => <<y, m>> \in Less
    BY <2>1
  <2>3. QED
    BY <1>3, <2>1, <2>2
<1>5. \E x \in S : \A y \in S : x <= y
  BY <1>4
<1>6. QED
  BY <1>5 DEF Min

DrawingInv(l) ==
  /\ LoopInv(l) /\ PaintInv(l)
  /\ l.pendingPaint # NoPaint => l.repaint

SameLoop(m, l) == DOMAIN m = LayerFields /\ m.models = l.models /\ m.replacement = l.replacement

LEMMA FewerDrawn ==
  ASSUME NEW l, NEW m, Fewer(m, l)
  PROVE  /\ DrawingInv(l) => DrawingInv(m)
         /\ SameLoop(m, l) /\ m.phase = l.phase /\ m.repaint = l.repaint
         /\ l.error # "none" => m.error # "none"
         /\ l.error = "fatal" => m.error = "fatal"
<1>1. SameLoop(m, l) /\ m.phase = l.phase /\ m.repaint = l.repaint
      /\ m.pendingPaint = l.pendingPaint /\ m.error \in {l.error, "fatal"}
  BY DEF Fewer, LooksLike, SameLoop
<1>2. QED
  BY <1>1, FewerWait DEF DrawingInv

LEMMA FenceKeeps ==
  ASSUME NEW l, LayerInv(l), l.added, LoopInv(l), PaintInv(l),
         NEW fence \in {"signalled", "waiting", "failed"}
  PROVE  LET m == completePendingFence(l, fence)
         IN  DrawingInv(m) /\ SameLoop(m, l) /\ WaitsKept(l, m)
<1> DEFINE taken == [l EXCEPT !.receipt = l.pendingPaint, !.pendingPaint = NoPaint]
           dropped == [l EXCEPT !.error = "fatal", !.pendingPaint = NoPaint]
           asked == [l EXCEPT !.repaint = TRUE]
           m == completePendingFence(l, fence)
<1>1. /\ DOMAIN l = LayerFields /\ DOMAIN l.told = Task
      /\ l.phase \notin {"context_lost", "waiting_for_style"}
  BY DEF LayerInv, ResourcesInv, LoopInv
<1>2. CASE l.pendingPaint = NoPaint
  <2>1. m = l
    BY <1>2 DEF completePendingFence
  <2>2. QED
    BY <1>1, <1>2, <2>1 DEF DrawingInv, SameLoop, WaitsKept
<1>3. CASE l.pendingPaint # NoPaint /\ fence = "waiting"
  <2>1. m = asked
    BY <1>3 DEF completePendingFence
  <2>2. /\ DOMAIN asked = LayerFields /\ asked.told = l.told /\ asked.models = l.models
        /\ asked.replacement = l.replacement /\ asked.resident = l.resident
        /\ asked.selected = l.selected /\ asked.phase = l.phase
        /\ asked.paintWaiter = l.paintWaiter /\ asked.recoveryWaiters = l.recoveryWaiters
        /\ asked.receipt = l.receipt /\ asked.pendingPaint = l.pendingPaint
        /\ asked.sequence = l.sequence /\ asked.repaint = TRUE
    BY <1>1 DEF LayerFields
  <2> HIDE DEF asked, m
  <2>3. LoopInv(asked) /\ PaintInv(asked)
    BY <2>2 DEF LoopInv, PaintInv, IsPainted, IsReplacing
  <2>4. WaitsKept(l, asked)
    BY <2>2 DEF WaitsKept, WaitInv
  <2>5. QED
    BY <2>1, <2>2, <2>3, <2>4 DEF DrawingInv, SameLoop, m
<1>4. CASE l.pendingPaint # NoPaint /\ fence = "failed"
  <2> DEFINE rejected == rejectPaintWaiter(dropped)
  <2>1. m = rejected
    BY <1>4 DEF completePendingFence
  <2>2. /\ DOMAIN dropped = LayerFields /\ dropped.told = l.told /\ dropped.models = l.models
        /\ dropped.replacement = l.replacement /\ dropped.resident = l.resident
        /\ dropped.selected = l.selected /\ dropped.phase = l.phase
        /\ dropped.paintWaiter = l.paintWaiter /\ dropped.recoveryWaiters = l.recoveryWaiters
        /\ dropped.receipt = l.receipt /\ dropped.pendingPaint = NoPaint
        /\ dropped.sequence = l.sequence
    BY <1>1 DEF LayerFields
  <2> HIDE DEF dropped, m
  <2>3. LoopInv(dropped) /\ PaintInv(dropped)
    BY <2>2 DEF LoopInv, PaintInv, IsPainted, IsReplacing
  <2>4. WaitsKept(l, dropped)
    BY <2>2 DEF WaitsKept, WaitInv
  <2>5. Fewer(rejected, dropped) /\ WaitsKept(dropped, rejected)
    BY <1>1, <2>2, Settling, SettlingKeeps
  <2> HIDE DEF rejected
  <2>6. DrawingInv(rejected) /\ SameLoop(rejected, dropped)
    BY <2>2, <2>3, <2>5, FewerDrawn DEF DrawingInv
  <2>7. WaitsKept(l, rejected) /\ SameLoop(rejected, l)
    BY <2>2, <2>4, <2>5, <2>6 DEF WaitsKept, SameLoop
  <2>8. QED
    BY <2>1, <2>6, <2>7 DEF m
<1>5. CASE l.pendingPaint # NoPaint /\ fence = "signalled"
  <2>1. m = AfterVisiblePaint(taken)
    BY <1>5 DEF completePendingFence
  <2>2. /\ DOMAIN taken = LayerFields /\ taken.told = l.told /\ taken.models = l.models
        /\ taken.replacement = l.replacement /\ taken.resident = l.resident
        /\ taken.selected = l.selected /\ taken.phase = l.phase
        /\ taken.paintWaiter = l.paintWaiter /\ taken.recoveryWaiters = l.recoveryWaiters
        /\ taken.pendingPaint = NoPaint
    BY <1>1 DEF LayerFields
  <2> HIDE DEF taken, m
  <2>3. LoopInv(taken)
    BY <2>2 DEF LoopInv, IsReplacing
  <2>4. WaitsKept(l, taken)
    BY <2>2 DEF WaitsKept, WaitInv
  <2>5. CASE l.phase # "painting_visible_frame"
    <3> DEFINE resolved == resolvePaintWaiter(taken)
    <3>1. m = resolved
      BY <2>1, <2>2, <2>5 DEF AfterVisiblePaint
    <3>2. Fewer(resolved, taken) /\ WaitsKept(taken, resolved)
      BY <1>1, <2>2, Settling, SettlingKeeps
    <3>3. resolved.paintWaiter = None
      BY <2>2 DEF resolvePaintWaiter, LayerFields
    <3> HIDE DEF resolved
    <3>4. /\ LoopInv(resolved) /\ SameLoop(resolved, taken) /\ resolved.phase = l.phase
          /\ resolved.pendingPaint = NoPaint /\ resolved.recoveryWaiters \subseteq l.recoveryWaiters
      BY <2>2, <2>3, <3>2, FewerWait, FewerDrawn DEF Fewer, LooksLike
    <3>5. PaintInv(resolved)
      BY <1>1, <2>5, <3>3, <3>4 DEF PaintInv
    <3>6. WaitsKept(l, resolved) /\ SameLoop(resolved, l)
      BY <2>2, <2>4, <3>2, <3>4 DEF WaitsKept, SameLoop
    <3>7. QED
      BY <3>1, <3>4, <3>5, <3>6 DEF DrawingInv, m
  <2>6. CASE l.phase = "painting_visible_frame"
    <3>1. /\ DOMAIN m = LayerFields /\ m.told = l.told /\ m.models = l.models
          /\ m.replacement = l.replacement /\ m.resident = l.resident
          /\ m.selected = l.selected /\ m.repaint = TRUE
          /\ m.paintWaiter = l.paintWaiter /\ m.recoveryWaiters = l.recoveryWaiters
          /\ m.pendingPaint = NoPaint
          /\ m.phase \in {"verifying_loop", "rehydrating_loop"}
          /\ m.phase = "rehydrating_loop" => m.resident # m.models
      BY <2>1, <2>2, <2>6 DEF AfterVisiblePaint, LayerFields
    <3>2. LoopInv(m)
      BY <2>6, <3>1 DEF LoopInv, IsReplacing, LayerPhases, Phases
    <3>3. PaintInv(m)
      BY <3>1 DEF PaintInv
    <3>4. WaitsKept(l, m)
      BY <2>6, <3>1 DEF WaitsKept, WaitInv
    <3>5. QED
      BY <3>1, <3>2, <3>3, <3>4 DEF DrawingInv, SameLoop, m
  <2>7. QED
    BY <2>5, <2>6
<1>6. QED
  BY <1>2, <1>3, <1>4, <1>5

LEMMA RecoveryFenceKeeps ==
  ASSUME NEW l, LayerInv(l), l.added, DrawingInv(l),
         NEW fence \in {"signalled", "waiting", "failed"}
  PROVE  LET m == completeRecoveryFence(l, fence)
         IN  /\ DrawingInv(m) /\ SameLoop(m, l) /\ WaitsKept(l, m)
             /\ m.phase = "verifying_loop" => m.repaint \/ m.error # "none"
<1> DEFINE asked == [l EXCEPT !.repaint = TRUE]
           ready == [l EXCEPT !.phase = "ready"]
           told == IF l.receipt = NoPaint THEN ready ELSE resolvePaintWaiter(ready)
           n == settleRecovery(told, Recovered)
           m == completeRecoveryFence(l, fence)
<1>1. DOMAIN l = LayerFields /\ DOMAIN l.told = Task
  BY DEF LayerInv, DrawingInv, LoopInv
<1>2. CASE l.phase # "verifying_loop"
  <2>1. m = l
    BY <1>2 DEF completeRecoveryFence
  <2>2. QED
    BY <1>1, <1>2, <2>1 DEF SameLoop, WaitsKept
<1>3. CASE l.phase = "verifying_loop" /\ fence = "waiting"
  <2>1. m = asked
    BY <1>3 DEF completeRecoveryFence
  <2>2. /\ DOMAIN asked = LayerFields /\ asked.told = l.told /\ asked.models = l.models
        /\ asked.replacement = l.replacement /\ asked.resident = l.resident
        /\ asked.selected = l.selected /\ asked.phase = l.phase
        /\ asked.paintWaiter = l.paintWaiter /\ asked.recoveryWaiters = l.recoveryWaiters
        /\ asked.receipt = l.receipt /\ asked.pendingPaint = l.pendingPaint
        /\ asked.sequence = l.sequence /\ asked.repaint = TRUE
    BY <1>1 DEF LayerFields
  <2> HIDE DEF asked, m
  <2>3. LoopInv(asked) /\ PaintInv(asked)
    BY <2>2 DEF DrawingInv, LoopInv, PaintInv, IsPainted, IsReplacing
  <2>4. WaitsKept(l, asked)
    BY <2>2 DEF WaitsKept, WaitInv
  <2>5. QED
    BY <2>1, <2>2, <2>3, <2>4 DEF DrawingInv, SameLoop, m
<1>4. CASE l.phase = "verifying_loop" /\ fence = "failed"
  <2> DEFINE failed == failRenderer(l)
  <2>1. m = failed
    BY <1>4 DEF completeRecoveryFence
  <2>2. Fewer(failed, l) /\ WaitsKept(l, failed)
    BY <1>1, Settling, SettlingKeeps
  <2>3. failed.error = "fatal"
    BY <1>1 DEF failRenderer, rejectPaintWaiter, settleRecovery, LayerFields
  <2> HIDE DEF failed, m
  <2>4. QED
    BY <2>1, <2>2, <2>3, FewerDrawn DEF m
<1>5. CASE l.phase = "verifying_loop" /\ fence = "signalled"
  <2>1. m = n
    BY <1>5 DEF completeRecoveryFence
  <2>2. /\ DOMAIN ready = LayerFields /\ ready.told = l.told /\ ready.models = l.models
        /\ ready.replacement = l.replacement /\ ready.resident = l.resident
        /\ ready.selected = l.selected /\ ready.phase = "ready"
        /\ ready.paintWaiter = l.paintWaiter /\ ready.recoveryWaiters = l.recoveryWaiters
        /\ ready.receipt = l.receipt /\ ready.pendingPaint = l.pendingPaint
        /\ ready.sequence = l.sequence /\ ready.repaint = l.repaint
    BY <1>1 DEF LayerFields
  <2> HIDE DEF ready, m
  <2>3. LoopInv(ready) /\ WaitsKept(l, ready)
    BY <1>5, <2>2 DEF DrawingInv, LoopInv, IsReplacing, WaitsKept, WaitInv, LayerPhases, Phases
  <2>4. /\ Fewer(told, ready) /\ WaitsKept(ready, told)
        /\ told.paintWaiter = None \/ l.receipt = NoPaint
    <3>1. CASE l.receipt = NoPaint
      BY <1>1, <2>2, <3>1 DEF Fewer, LooksLike, WaitsKept
    <3>2. CASE l.receipt # NoPaint
      <4>1. told = resolvePaintWaiter(ready)
        BY <3>2
      <4>2. /\ Fewer(resolvePaintWaiter(ready), ready)
            /\ WaitsKept(ready, resolvePaintWaiter(ready))
        BY <1>1, <2>2, Settling, SettlingKeeps
      <4>3. resolvePaintWaiter(ready).paintWaiter = None
        BY <2>2 DEF resolvePaintWaiter, LayerFields
      <4>4. QED
        BY <4>1, <4>2, <4>3
    <3>3. QED
      BY <3>1, <3>2
  <2> HIDE DEF told
  <2>5. /\ LoopInv(told) /\ SameLoop(told, ready) /\ told.phase = "ready"
        /\ told.repaint = l.repaint /\ told.pendingPaint = l.pendingPaint
        /\ told.receipt = l.receipt /\ told.sequence = l.sequence
        /\ DOMAIN told = LayerFields /\ DOMAIN told.told = Task
    BY <2>2, <2>3, <2>4, FewerWait, FewerDrawn DEF Fewer, LooksLike
  <2>6. Fewer(n, told) /\ WaitsKept(told, n)
    BY <2>5, Settling, SettlingKeeps
  <2>7. n.recoveryWaiters = {} /\ n.paintWaiter = told.paintWaiter
    BY <2>5 DEF settleRecovery, LayerFields
  <2> HIDE DEF n
  <2>8. /\ LoopInv(n) /\ SameLoop(n, told) /\ n.phase = "ready"
        /\ n.repaint = l.repaint /\ n.pendingPaint = l.pendingPaint
        /\ n.receipt = l.receipt /\ n.sequence = l.sequence
    BY <2>5, <2>6, FewerWait, FewerDrawn DEF Fewer, LooksLike
  <2>9. l.receipt = NoPaint => ~IsPainted(n)
    BY <2>8 DEF LayerInv, NumbersInv, IsPainted, NoPaint
  <2>10. PaintInv(n)
    BY <2>4, <2>7, <2>8, <2>9 DEF DrawingInv, PaintInv, IsPainted
  <2>11. WaitsKept(l, n) /\ SameLoop(n, l)
    BY <2>2, <2>3, <2>4, <2>5, <2>6, <2>8 DEF WaitsKept, SameLoop
  <2>12. QED
    BY <2>1, <2>8, <2>10, <2>11 DEF DrawingInv, m
<1>6. QED
  BY <1>2, <1>3, <1>4, <1>5

LEMMA RehydrateKeeps ==
  ASSUME NEW l, LayerInv(l), l.added, DrawingInv(l), NEW uploads \in BOOLEAN,
         l.phase = "verifying_loop" => l.repaint \/ l.error # "none"
  PROVE  LET m == rehydrateNextFrame(l, uploads)
         IN  /\ DrawingInv(m) /\ SameLoop(m, l) /\ WaitsKept(l, m)
             /\ m.phase \in {"verifying_loop", "rehydrating_loop"} =>
                  m.repaint \/ m.error # "none"
<1> DEFINE resident == l.resident \cup {Min(l.models \ l.resident)}
           phase == IF resident = l.models THEN "verifying_loop" ELSE l.phase
           more == [l EXCEPT !.resident = resident, !.gpu = @ \cup resident, !.repaint = TRUE,
                             !.phase = phase]
           failed == failRenderer(l)
           m == rehydrateNextFrame(l, uploads)
<1>1. DOMAIN l = LayerFields /\ DOMAIN l.told = Task
  BY DEF LayerInv, DrawingInv, LoopInv
<1>2. CASE l.phase # "rehydrating_loop"
  <2>1. m = l
    BY <1>2 DEF rehydrateNextFrame
  <2>2. QED
    BY <1>1, <1>2, <2>1 DEF SameLoop, WaitsKept
<1>3. CASE l.phase = "rehydrating_loop" /\ ~uploads
  <2>1. m = failed
    BY <1>3 DEF rehydrateNextFrame
  <2>2. Fewer(failed, l) /\ WaitsKept(l, failed)
    BY <1>1, Settling, SettlingKeeps
  <2>3. failed.error = "fatal"
    BY <1>1 DEF failRenderer, rejectPaintWaiter, settleRecovery, LayerFields
  <2> HIDE DEF failed, m
  <2>4. QED
    BY <2>1, <2>2, <2>3, FewerDrawn DEF m
<1>4. CASE l.phase = "rehydrating_loop" /\ uploads
  <2>1. m = more
    BY <1>4 DEF rehydrateNextFrame
  <2>2. Min(l.models \ l.resident) \in l.models
    <3>1. l.models \ l.resident \in SUBSET Scan /\ l.models \ l.resident # {}
      BY <1>4 DEF DrawingInv, LoopInv
    <3>2. QED
      BY <3>1, FirstScan
  <2>3. resident \subseteq l.models /\ phase \in {"verifying_loop", "rehydrating_loop"}
        /\ (phase = "rehydrating_loop" => resident # l.models)
    BY <1>4, <2>2 DEF DrawingInv, LoopInv
  <2> HIDE DEF resident, phase
  <2>4. /\ DOMAIN more = LayerFields /\ more.told = l.told /\ more.models = l.models
        /\ more.replacement = l.replacement /\ more.resident = resident
        /\ more.selected = l.selected /\ more.phase = phase
        /\ more.paintWaiter = l.paintWaiter /\ more.recoveryWaiters = l.recoveryWaiters
        /\ more.receipt = l.receipt /\ more.pendingPaint = l.pendingPaint
        /\ more.sequence = l.sequence /\ more.repaint = TRUE
    BY <1>1 DEF LayerFields
  <2> HIDE DEF more, m
  <2>5. LoopInv(more)
    BY <1>4, <2>3, <2>4 DEF DrawingInv, LoopInv, IsReplacing, LayerPhases, Phases
  <2>6. PaintInv(more)
    BY <2>3, <2>4 DEF DrawingInv, PaintInv, IsPainted
  <2>7. WaitsKept(l, more)
    BY <1>4, <2>3, <2>4 DEF WaitsKept, WaitInv
  <2>8. QED
    BY <2>1, <2>4, <2>5, <2>6, <2>7 DEF DrawingInv, SameLoop, m
<1>5. QED
  BY <1>2, <1>3, <1>4

LEMMA DrawKeeps ==
  ASSUME NEW l, LayerInv(l), l.added, DrawingInv(l), l.error = "none", NEW draw,
         l.phase \in {"verifying_loop", "rehydrating_loop"} => l.repaint
  PROVE  LET m == draws(l, draw)
         IN  RendererInv(m) /\ SameLoop(m, l) /\ WaitsKept(l, m)
<1> DEFINE m == draws(l, draw)
           failed == [l EXCEPT !.error = IF draw = "refused" /\ l.mode = "smooth"
                                         THEN "smooth" ELSE "fatal"]
           native == retryFailedSmoothDrawInNative(failed)
           rejected == rejectPaintWaiter(failed)
           drawing == [l EXCEPT !.pendingPaint = [scan |-> l.selected, sequence |-> l.sequence],
                                !.repaint = TRUE]
<1>1. /\ DOMAIN l = LayerFields /\ DOMAIN l.told = Task
      /\ l.phase \in Phases /\ l.sequence \in Nat \ {0}
  BY DEF LayerInv, NumbersInv, ResourcesInv, DrawingInv, LoopInv, LayerPhases
<1>2. CASE draw # "drawn"
  <2>1. m \in {native, rejected}
    BY <1>2 DEF draws, handleDrawFailure
  <2>2. /\ DOMAIN failed = LayerFields /\ failed.told = l.told /\ failed.models = l.models
        /\ failed.replacement = l.replacement /\ failed.resident = l.resident
        /\ failed.selected = l.selected /\ failed.phase = l.phase
        /\ failed.paintWaiter = l.paintWaiter /\ failed.recoveryWaiters = l.recoveryWaiters
        /\ failed.receipt = l.receipt /\ failed.pendingPaint = l.pendingPaint
        /\ failed.sequence = l.sequence /\ failed.error # "none"
    BY <1>1 DEF LayerFields
  <2> HIDE DEF failed, m
  <2>3. LoopInv(failed) /\ PaintInv(failed)
    BY <2>2 DEF DrawingInv, LoopInv, PaintInv, IsPainted, IsReplacing
  <2>4. WaitsKept(l, failed)
    BY <2>2 DEF WaitsKept, WaitInv
  <2>5. RendererInv(rejected) /\ SameLoop(rejected, l) /\ WaitsKept(l, rejected)
    <3>1. Fewer(rejected, failed) /\ WaitsKept(failed, rejected)
      BY <1>1, <2>2, Settling, SettlingKeeps
    <3> HIDE DEF rejected
    <3>2. /\ LoopInv(rejected) /\ PaintInv(rejected) /\ SameLoop(rejected, failed)
          /\ rejected.error # "none"
      BY <2>2, <2>3, <3>1, FewerWait, FewerDrawn
    <3>3. QED
      BY <2>2, <2>4, <3>1, <3>2 DEF RendererInv, AskedInv, SameLoop, WaitsKept
  <2>6. RendererInv(native) /\ SameLoop(native, l) /\ WaitsKept(l, native)
    <3>1. /\ DOMAIN native = LayerFields /\ native.told = l.told /\ native.models = l.models
          /\ native.replacement = l.replacement /\ native.resident = l.resident
          /\ native.selected = l.selected /\ native.phase = l.phase
          /\ native.paintWaiter = l.paintWaiter
          /\ native.recoveryWaiters = l.recoveryWaiters
          /\ native.receipt = l.receipt /\ native.pendingPaint = l.pendingPaint
          /\ native.sequence = l.sequence /\ native.repaint = TRUE
      BY <2>2 DEF retryFailedSmoothDrawInNative, LayerFields
    <3> HIDE DEF native
    <3>2. LoopInv(native) /\ PaintInv(native) /\ AskedInv(native)
      BY <3>1 DEF DrawingInv, LoopInv, PaintInv, AskedInv, IsPainted, IsReplacing
    <3>3. WaitsKept(l, native)
      BY <3>1 DEF WaitsKept, WaitInv
    <3>4. QED
      BY <3>1, <3>2, <3>3 DEF RendererInv, SameLoop
  <2>7. QED
    BY <2>1, <2>5, <2>6 DEF m
<1>3. CASE draw = "drawn" /\ (IsPainted(l) \/ l.pendingPaint # NoPaint)
  <2>1. m = l
    BY <1>3 DEF draws
  <2>2. l.pendingPaint = NoPaint /\ l.phase # "ready" => l.repaint
    BY <1>1, <1>3 DEF DrawingInv, PaintInv, Phases
  <2>3. AskedInv(l)
    BY <1>3, <2>2 DEF DrawingInv, PaintInv, AskedInv
  <2>4. QED
    BY <1>1, <2>1, <2>3 DEF DrawingInv, RendererInv, SameLoop, WaitsKept
<1>4. CASE draw = "drawn" /\ ~IsPainted(l) /\ l.pendingPaint = NoPaint
  <2>1. m = drawing
    BY <1>4 DEF draws
  <2>2. /\ DOMAIN drawing = LayerFields /\ drawing.told = l.told /\ drawing.models = l.models
        /\ drawing.replacement = l.replacement /\ drawing.resident = l.resident
        /\ drawing.selected = l.selected /\ drawing.phase = l.phase
        /\ drawing.paintWaiter = l.paintWaiter
        /\ drawing.recoveryWaiters = l.recoveryWaiters
        /\ drawing.receipt = l.receipt /\ drawing.sequence = l.sequence
        /\ drawing.repaint = TRUE
    BY <1>1 DEF LayerFields
  <2> HIDE DEF drawing, m
  <2>3. LoopInv(drawing) /\ PaintInv(drawing) /\ AskedInv(drawing)
    BY <1>4, <2>2 DEF DrawingInv, LoopInv, PaintInv, AskedInv, IsPainted, IsReplacing
  <2>4. WaitsKept(l, drawing)
    BY <2>2 DEF WaitsKept, WaitInv
  <2>5. QED
    BY <2>1, <2>2, <2>3, <2>4 DEF RendererInv, SameLoop, m
<1>5. QED
  BY <1>2, <1>3, <1>4

LEMMA RenderKeeps ==
  ASSUME NEW l, LayerInv(l), l.added, RendererInv(l),
         NEW answer \in [paint : {"signalled", "waiting", "failed"},
                         loop : {"signalled", "waiting", "failed"}, uploads : BOOLEAN,
                         draw : {"drawn", "refused", "failed"}]
  PROVE  LET m == render(l, answer)
         IN  RendererInv(m) /\ SameLoop(m, l) /\ WaitsKept(l, m)
<1> DEFINE begun == [l EXCEPT !.repaint = FALSE]
           painted == completePendingFence(begun, answer.paint)
           verified == completeRecoveryFence(painted, answer.loop)
           uploaded == rehydrateNextFrame(verified, answer.uploads)
           drawn == draws(uploaded, answer.draw)
           settled == settleRecovery(uploaded, Failed)
<1>1. DOMAIN l = LayerFields
  BY DEF LayerInv
<1>2. /\ LayerInv(begun) /\ begun.added /\ SameLoop(begun, l)
      /\ LoopInv(begun) /\ PaintInv(begun) /\ WaitsKept(l, begun)
  <2>1. LayerInv(begun)
    BY PaintIsTaken
  <2>2. /\ DOMAIN begun = LayerFields /\ begun.told = l.told /\ begun.models = l.models
        /\ begun.replacement = l.replacement /\ begun.resident = l.resident
        /\ begun.selected = l.selected /\ begun.phase = l.phase
        /\ begun.paintWaiter = l.paintWaiter /\ begun.recoveryWaiters = l.recoveryWaiters
        /\ begun.receipt = l.receipt /\ begun.pendingPaint = l.pendingPaint
        /\ begun.sequence = l.sequence /\ begun.added
    BY <1>1 DEF LayerFields
  <2> HIDE DEF begun
  <2>3. LoopInv(begun) /\ PaintInv(begun) /\ WaitsKept(l, begun)
    BY <2>2 DEF RendererInv, LoopInv, PaintInv, IsPainted, IsReplacing, WaitsKept, WaitInv
  <2>4. QED
    BY <2>1, <2>2, <2>3 DEF SameLoop
<1> HIDE DEF begun
<1>3. /\ LayerInv(painted) /\ painted.added /\ DrawingInv(painted) /\ SameLoop(painted, begun)
      /\ WaitsKept(begun, painted)
  BY <1>2, FenceInv, FenceKeeps
<1> HIDE DEF painted
<1>4. /\ LayerInv(verified) /\ verified.added /\ DrawingInv(verified)
      /\ SameLoop(verified, painted) /\ WaitsKept(painted, verified)
      /\ verified.phase = "verifying_loop" => verified.repaint \/ verified.error # "none"
  BY <1>3, RecoveryFenceInv, RecoveryFenceKeeps
<1> HIDE DEF verified
<1>5. /\ LayerInv(uploaded) /\ uploaded.added /\ DrawingInv(uploaded)
      /\ SameLoop(uploaded, verified) /\ WaitsKept(verified, uploaded)
      /\ uploaded.phase \in {"verifying_loop", "rehydrating_loop"} =>
           uploaded.repaint \/ uploaded.error # "none"
  BY <1>4, RehydrateInv, RehydrateKeeps
<1> HIDE DEF uploaded
<1>6. SameLoop(uploaded, l) /\ WaitsKept(l, uploaded)
  BY <1>2, <1>3, <1>4, <1>5 DEF SameLoop, WaitsKept
<1>7. CASE uploaded.error = "none"
  <2>1. render(l, answer) = drawn
    BY <1>7 DEF render, drawn, uploaded, verified, painted, begun
  <2>2. RendererInv(drawn) /\ SameLoop(drawn, uploaded) /\ WaitsKept(uploaded, drawn)
    BY <1>5, <1>7, DrawKeeps
  <2> HIDE DEF drawn
  <2>3. QED
    BY <1>6, <2>1, <2>2 DEF SameLoop, WaitsKept
<1>8. CASE uploaded.error # "none"
  <2>1. render(l, answer) \in {uploaded, settled}
    BY <1>8 DEF render, settled, uploaded, verified, painted, begun
  <2>2. RendererInv(uploaded)
    BY <1>5, <1>8 DEF DrawingInv, RendererInv, AskedInv
  <2>3. Fewer(settled, uploaded) /\ WaitsKept(uploaded, settled)
    BY <1>5, Settling, SettlingKeeps DEF DrawingInv, LoopInv, LayerInv
  <2> HIDE DEF settled
  <2>4. RendererInv(settled) /\ SameLoop(settled, uploaded)
    BY <2>2, <2>3, FewerWait, FewerDrawn DEF RendererInv
  <2>5. QED
    BY <1>6, <2>1, <2>2, <2>3, <2>4 DEF SameLoop, WaitsKept
<1>9. QED
  BY <1>7, <1>8

-----------------------------------------------------------------------------
(* What a step does to the calls that do not take it.                       *)

CallPcs == PaintPcs \cup {"recovering"}

(* It leaves a call alone, or has what the call awaits settled.             *)
Goes(k, m) ==
  /\ m.frames = k.frames /\ m.previous = k.previous /\ m.scan = k.scan
  /\ \/ m.pc = k.pc /\ m.awaits = k.awaits
     \/ k.pc = "awaiting" /\ m.pc = "awaited" /\ m.awaits = None
     \/ k.pc = "holding" /\ m.pc \in {"held", "failed"} /\ m.awaits = None

LEMMA GoesAlong ==
  ASSUME NEW k, NEW m, Goes(k, m)
  PROVE  /\ m.pc \in CallPcs \cup {"done", "queued", "idle"} \/ k.pc \in CallPcs => m.pc = k.pc
         /\ m.pc \in {"painting", "done"} <=> k.pc \in {"painting", "done"}
         /\ k.pc \in UpdatePcs => m.pc \in UpdatePcs
         /\ k.pc \in {"idle", "queued"} <=> m.pc \in {"idle", "queued"}
BY DEF Goes, CallPcs, PaintPcs, UpdatePcs

LEMMA SettlesGo ==
  ASSUME NEW tasks, NEW wanted, TasksInv(tasks, wanted), NEW t \in Task, NEW paints
  PROVE  /\ DOMAIN SettlesFor(tasks, t, paints) = Task
         /\ \A u \in Task : /\ Goes(tasks[u], SettlesFor(tasks, t, paints)[u])
                            /\ SettlesFor(tasks, t, paints)[u].awaits # t
<1> DEFINE after == SettlesFor(tasks, t, paints)
<1>1. DOMAIN after = Task
  BY DEF SettlesFor
<1>2. ASSUME NEW u \in Task, tasks[u].awaits # t
      PROVE  Goes(tasks[u], after[u]) /\ after[u].awaits # t
  BY <1>2, SettledFor DEF Goes
<1>3. ASSUME NEW u \in Task, tasks[u].awaits = t
      PROVE  Goes(tasks[u], after[u]) /\ after[u].awaits # t
  <2> DEFINE k == tasks[u]
             pc == CASE k.pc = "awaiting" -> "awaited"
                     [] k.pc = "holding" -> IF paints THEN "held" ELSE "failed"
  <2>1. DOMAIN k = TaskFields /\ k.pc \in {"holding", "awaiting"}
    BY <1>3, TasksAreDistinct DEF TasksInv, TaskInv
  <2>2. \/ k.pc = "awaiting" /\ pc = "awaited"
        \/ k.pc = "holding" /\ pc \in {"held", "failed"}
    BY <2>1
  <2>3. [k EXCEPT !.awaits = None].pc = k.pc
    BY <2>1 DEF TaskFields
  <2>4. after[u] = [k EXCEPT !.awaits = None, !.pc = pc]
    BY <1>3, <2>3 DEF SettlesFor
  <2> HIDE DEF pc, after, k
  <2>5. Goes(k, after[u]) /\ after[u].awaits = None
    BY <2>1, <2>2, <2>4 DEF Goes, TaskFields
  <2>6. QED
    BY <2>5, TasksAreDistinct DEF k
<1>4. QED
  BY <1>1, <1>2, <1>3

LEMMA ActingGoes ==
  ASSUME NEW tasks, NEW wanted, TasksInv(tasks, wanted)
  PROVE  \A u \in Task : Goes(tasks[u], OperatorActs(tasks)[u])
BY DEF TasksInv, TaskInv, OperatorActs, Goes, TaskFields

(* A step of the call t, as far as the other calls are concerned.           *)
Acts(t) ==
  /\ RendererInv(layer') /\ Others(layer, layer', t) /\ WaitInv(layer', t, task'[t].pc)
  /\ \A u \in Task \ {t} : Goes(task[u], task'[u])
  /\ player'.operation \in {None, player.operation, t}
  /\ player'.operation = t \/ (\E u \in Task : task'[u].awaits = t) => task'[t].pc \in PaintPcs
  /\ task'[t].awaits \in {None, player.operation, task[t].awaits}
  /\ task'[t].pc \in {"holding", "awaiting"} => task'[t].awaits # None

LEMMA ActsKeep ==
  ASSUME CallsInv, NEW t \in Task, Acts(t),
         QueueInv(player'.replacements, task', poll'),
         DOMAIN live' = LiveFields, live'.history \subseteq Scan, CarryInv(live', task')
  PROVE  CallsInv'
<1>1. WaitsInv(layer', task')
  <2>1. ASSUME NEW u \in Task, u # t
        PROVE  WaitInv(layer', u, task'[u].pc)
    <3>1. WaitInv(layer, u, task[u].pc)
      BY DEF CallsInv, WaitsInv
    <3>2. WaitInv(layer', u, task[u].pc)
      BY <2>1, <3>1 DEF Acts, Others
    <3>3. CASE task'[u].pc = task[u].pc
      BY <3>2, <3>3
    <3>4. CASE task'[u].pc # task[u].pc
      <4>1. task[u].pc \notin CallPcs /\ task'[u].pc \notin CallPcs
        BY <2>1, <3>4, GoesAlong DEF Acts
      <4>2. Clean(layer', u)
        BY <3>2, <4>1, CleanOf DEF CallPcs
      <4>3. QED
        BY <4>1, <4>2, CleanWait DEF CallPcs
    <3>5. QED
      BY <3>3, <3>4
  <2>2. QED
    BY <2>1 DEF WaitsInv, Acts
<1>2. OperationInv(player', task')
  <2>1. \A u \in Task : task[u].pc \in PaintPcs /\ u # t => task'[u].pc \in PaintPcs
    BY GoesAlong DEF Acts, CallPcs
  <2>2. player'.operation # None =>
          player'.operation \in Task /\ task'[player'.operation].pc \in PaintPcs
    BY <2>1 DEF Acts, CallsInv, OperationInv
  <2>3. ASSUME NEW u \in Task
        PROVE  /\ task'[u].pc \in {"holding", "awaiting"} => task'[u].awaits # None
               /\ task'[u].awaits # None =>
                    task'[u].awaits \in Task /\ task'[task'[u].awaits].pc \in PaintPcs
    <3>1. u # t => Goes(task[u], task'[u])
      BY DEF Acts
    <3>2. /\ task[u].pc \in {"holding", "awaiting"} => task[u].awaits # None
          /\ task[u].awaits # None =>
               task[u].awaits \in Task /\ task[task[u].awaits].pc \in PaintPcs
      BY DEF CallsInv, OperationInv
    <3>3. task'[u].pc \in {"holding", "awaiting"} => task'[u].awaits # None
      BY <3>1, <3>2 DEF Acts, Goes
    <3>4. task'[u].awaits \in {None, player.operation, task[u].awaits}
      BY <3>1 DEF Acts, Goes
    <3>5. ASSUME task'[u].awaits # None
          PROVE  task'[u].awaits \in Task /\ task'[task'[u].awaits].pc \in PaintPcs
      <4>1. task'[u].awaits \in Task /\ task[task'[u].awaits].pc \in PaintPcs
        BY <3>2, <3>4, <3>5 DEF CallsInv, OperationInv
      <4>2. QED
        BY <2>1, <4>1 DEF Acts
    <3>6. QED
      BY <3>3, <3>5
  <2>4. QED
    BY <2>2, <2>3 DEF OperationInv
<1>3. QED
  BY <1>1, <1>2 DEF CallsInv, Acts, RendererInv

(* The queue is as it was: a session's update goes on, or one of the others *)
(* does.                                                                    *)
LEMMA QueueGoes ==
  ASSUME NEW r, NEW polls, QueueInv(r, task, polls), NEW t \in Task,
         \A u \in Task \ {t} : Goes(task[u], task'[u]),
         t \in Session => /\ task'[t].pc \in UpdatePcs \ {"queued"} /\ t = Head(r)
                          /\ Waits(r, t) /\ task'[t].frames \subseteq Scan
  PROVE  QueueInv(r, task', polls)
<1>1. ASSUME NEW s \in Session, s # t
      PROVE  /\ task'[s].pc \in (IF Waits(r, s) THEN UpdatePcs ELSE {"idle"})
             /\ task'[s].pc \notin {"idle", "queued"} => s = Head(r)
             /\ task'[s].frames \subseteq Scan
  <2>1. Goes(task[s], task'[s])
    BY <1>1, TasksAreDistinct
  <2>2. /\ task[s].pc \in (IF Waits(r, s) THEN UpdatePcs ELSE {"idle"})
        /\ task[s].pc \notin {"idle", "queued"} => s = Head(r)
        /\ task[s].frames \subseteq Scan
    BY DEF QueueInv
  <2>3. task[s].pc = "idle" => task'[s].pc = "idle"
    BY <2>1 DEF Goes
  <2>4. QED
    BY <2>1, <2>2, <2>3, GoesAlong DEF Goes
<1>2. QED
  BY <1>1 DEF QueueInv

LEMMA CarryGoes ==
  ASSUME CallsInv,
         \/ live'.carry = None
         \/ /\ live'.carry = live.carry
            /\ Goes(task[Carry], task'[Carry]) \/ task[Carry].pc # "idle"
  PROVE  CarryInv(live', task')
BY DEF CallsInv, CarryInv, Goes

-----------------------------------------------------------------------------
(* The calls of the loop, of the operator and of a carried time.            *)

LiveKept(m, l) ==
  /\ DOMAIN m = LiveFields
  /\ m.history = l.history /\ m.modelsById = l.modelsById /\ m.timeline = l.timeline
  /\ m.generation = l.generation /\ m.session = l.session /\ m.removed = l.removed

(* The step touches neither loop nor queue.                                 *)
ActsAside(t) ==
  /\ Acts(t) /\ Aside(layer', layer, t)
  /\ player'.frames = player.frames /\ player'.replacements = player.replacements

LEMMA Elsewhere ==
  ASSUME CallsInv, HistoryInv, NEW t \in Task \ Session, ActsAside(t),
         UNCHANGED poll, LiveKept(live', live), CarryInv(live', task')
  PROVE  CallsInv' /\ HistoryInv'
<1>1. \A s \in Session : Goes(task[s], task'[s]) /\ layer'.told[s] = layer.told[s]
  BY TasksAreDistinct DEF ActsAside, Acts, Aside
<1>2. /\ layer'.models = layer.models /\ layer'.replacement = layer.replacement
      /\ layer'.phase = layer.phase
      /\ player'.frames = player.frames /\ player'.replacements = player.replacements
  BY DEF ActsAside, Aside
<1>3. CallsInv'
  <2>1. QueueInv(player.replacements, task', poll)
    BY QueueGoes DEF CallsInv, ActsAside, Acts
  <2>2. QED
    BY <1>2, <2>1, ActsKeep DEF ActsAside, LiveKept, CallsInv
<1>4. HistoryInv'
  <2> SUFFICES ASSUME ~live'.removed
               PROVE  /\ OwnerInv(live', player'.replacements, task', poll')
                      /\ FramesInv(layer', player', task', live'.timeline)
                      /\ StoredInv(live', poll')
    BY DEF HistoryInv
  <2>1. /\ OwnerInv(live, player.replacements, task, poll)
        /\ FramesInv(layer, player, task, live.timeline)
        /\ StoredInv(live, poll)
    BY DEF HistoryInv, LiveKept
  <2>2. OwnerInv(live', player'.replacements, task', poll')
    BY <1>1, <1>2, <2>1, GoesAlong DEF OwnerInv, LiveKept
  <2>3. FramesInv(layer', player', task', live'.timeline)
    <3>1. ASSUME NEW s \in Session
          PROVE  WindowInv(layer', player', task'[s], live'.timeline, s)
      <4>1. WindowInv(layer, player, task[s], live.timeline, s) /\ Goes(task[s], task'[s])
        BY <1>1, <2>1 DEF FramesInv
      <4>2. QED
        BY <1>1, <1>2, <4>1 DEF WindowInv, Goes, LiveKept, IsReplacing
    <3>2. \A s \in Session : /\ task'[s].pc = "painting" <=> task[s].pc = "painting"
                             /\ task'[s].pc = "done" <=> task[s].pc = "done"
      BY <1>1, GoesAlong DEF Goes, CallPcs, PaintPcs
    <3>3. QED
      BY <1>2, <2>1, <3>1, <3>2 DEF FramesInv, LiveKept, IsReplacing
  <2>4. StoredInv(live', poll')
    BY <2>1 DEF StoredInv, LiveKept
  <2>5. QED
    BY <2>2, <2>3, <2>4
<1>5. QED
  BY <1>3, <1>4

(* The controller's loop is played or held, no more.                        *)
SameWork(q, p) ==
  q.operation = p.operation /\ q.frames = p.frames /\ q.replacements = p.replacements

LEMMA Controls ==
  ASSUME NEW p, PlayerInv(p), NEW t, NEW ok, NEW value
  PROVE  /\ SameWork(startPlaying(p), p) /\ SameWork(stopPlaying(p), p)
         /\ SameWork(startPlaying([p EXCEPT !.wantsPlaying = TRUE]), p)
         /\ SameWork(stopPlaying([p EXCEPT !.wantsPlaying = FALSE]), p)
         /\ SameWork(scheduleNext(p), p) /\ SameWork(Returned(t, p, ok), p)
         /\ SameWork([p EXCEPT !.timer = value], p)
         /\ SameWork([p EXCEPT !.scheduling = value], p)
         /\ SameWork([p EXCEPT !.lastReceipt = value], p)
<1> USE DEF SameWork, PlayerInv, PlayerFields
<1>1. /\ SameWork(scheduleNext(p), p) /\ SameWork(Returned(t, p, ok), p)
  BY DEF scheduleNext, Returned
<1>2. SameWork(startPlaying(p), p) /\ SameWork(stopPlaying(p), p)
  BY DEF startPlaying, scheduleNext, stopPlaying
<1>3. SameWork(startPlaying([p EXCEPT !.wantsPlaying = TRUE]), p)
  BY DEF startPlaying, scheduleNext
<1>4. SameWork(stopPlaying([p EXCEPT !.wantsPlaying = FALSE]), p)
  BY DEF stopPlaying
<1>5. /\ SameWork([p EXCEPT !.timer = value], p)
      /\ SameWork([p EXCEPT !.scheduling = value], p)
      /\ SameWork([p EXCEPT !.lastReceipt = value], p)
  OBVIOUS
<1>6. QED
  BY <1>1, <1>2, <1>3, <1>4, <1>5

LEMMA SettledWork ==
  ASSUME NEW p, PlayerInv(p), NEW t, NEW paints
  PROVE  LET q == SettlesOperation(p, t, paints)
         IN  /\ q.operation = None /\ q.frames = p.frames
             /\ q.replacements = p.replacements /\ DOMAIN q = PlayerFields
BY DEF SettlesOperation, PlayerInv, PlayerFields

LEMMA EndedOf ==
  ASSUME NEW tasks, DOMAIN tasks = Task, NEW t \in Task, NEW ok,
         t = Carry => DOMAIN tasks[t] = TaskFields
  PROVE  LET after == Ended(t, tasks, ok)
         IN  /\ \A u \in Task \ {t} : after[u] = tasks[u]
             /\ after[t].pc \in {"idle", "done", "failed"}
             /\ after[t].awaits \in {None, tasks[t].awaits}
BY DEF Ended, NoTask, TaskFields

(* Only a call that paints is awaited, or has the renderer.                 *)
LEMMA NobodyAwaits ==
  ASSUME CallsInv, NEW t \in Task, task[t].pc \notin PaintPcs
  PROVE  player.operation # t /\ \A u \in Task : task[u].awaits # t
BY TasksAreDistinct DEF CallsInv, OperationInv

LEMMA SelectingActs ==
  ASSUME NEW t \in Task, NEW l, LayerInv(l), RendererInv(l), Clean(l, t),
         Others(layer, l, t), Aside(l, layer, t),
         NEW p, PlayerInv(p), p.frames = player.frames, p.replacements = player.replacements,
         NEW tasks, DOMAIN tasks = Task, \A u \in Task \ {t} : Goes(task[u], tasks[u]),
         NEW scan, Selecting(t, scan, l, p, tasks)
  PROVE  ActsAside(t)
<1>1. /\ layer' = selectAndWait(l, t, scan)
      /\ player'.operation = t /\ player'.frames = player.frames
      /\ player'.replacements = player.replacements
      /\ task'[t].pc = "selecting" /\ task'[t].awaits = None
      /\ \A u \in Task \ {t} : task'[u] = tasks[u]
  BY DEF Selecting, PlayerInv, PlayerFields, NoTask
<1>2. /\ RendererInv(layer') /\ Others(l, layer', t) /\ Aside(layer', l, t)
      /\ WaitInv(layer', t, "selecting")
  BY <1>1, SelectsAFrame
<1>3. Others(layer, layer', t) /\ Aside(layer', layer, t)
  BY <1>2 DEF Others, Aside
<1>4. QED
  BY <1>1, <1>2, <1>3 DEF ActsAside, Acts, PaintPcs

LEMMA SelectActs ==
  ASSUME SiteInv, CallsInv, NEW t \in Task, task[t].pc \notin CallPcs,
         NEW p, PlayerInv(p), SameWork(p, player),
         NEW tasks, DOMAIN tasks = Task, \A u \in Task \ {t} : Goes(task[u], tasks[u]),
         tasks[t].awaits = None, DOMAIN tasks[t] = TaskFields,
         NEW scan, select(t, scan, p, tasks)
  PROVE  ActsAside(t)
<1>1. /\ LayerInv(layer) /\ DOMAIN layer = LayerFields /\ RendererInv(layer)
  BY DEF SiteInv, LayerInv, CallsInv, RendererInv
<1>2. Clean(layer, t)
  BY CleanOf DEF CallsInv, WaitsInv, CallPcs
<1>3. Others(layer, layer, t) /\ Aside(layer, layer, t)
  BY DEF Others, Aside
<1>4. /\ player.operation # t /\ \A u \in Task : task[u].awaits # t
      /\ \A u \in Task : tasks[u].awaits # t
  <2>1. player.operation # t /\ \A u \in Task : task[u].awaits # t
    BY NobodyAwaits DEF CallPcs
  <2>2. QED
    BY <2>1, TasksAreDistinct DEF Goes
<1>5. CASE p.operation # None
  <2>1. /\ player' = Returned(t, p, FALSE) /\ task' = Ended(t, tasks, FALSE) /\ UNCHANGED layer
    BY <1>5 DEF select
  <2>2. SameWork(player', p)
    BY <2>1, Controls
  <2>3. /\ \A u \in Task \ {t} : task'[u] = tasks[u]
        /\ task'[t].pc \in {"idle", "done", "failed"} /\ task'[t].awaits = None
    <3>1. PICK no : no = FALSE
      OBVIOUS
    <3>2. task' = Ended(t, tasks, no)
      BY <2>1, <3>1
    <3>3. QED
      BY <3>2, EndedOf
  <2>4. WaitInv(layer', t, task'[t].pc)
    BY <1>2, <2>1, <2>3, CleanWait DEF PaintPcs
  <2>5. \A u \in Task : task'[u].awaits # t
    BY <1>4, <2>3, TasksAreDistinct
  <2>6. QED
    BY <1>1, <1>3, <1>4, <2>1, <2>2, <2>3, <2>4, <2>5 DEF ActsAside, Acts, SameWork
<1>6. CASE p.operation = None /\ layer.phase = "ready"
  <2>1. Selecting(t, scan, layer, p, tasks)
    BY <1>6 DEF select
  <2>2. QED
    BY <1>1, <1>2, <1>3, <2>1, SelectingActs DEF SameWork
<1>7. CASE p.operation = None /\ layer.phase # "ready"
  <2>1. /\ layer' = waitForRecovery(layer, t) /\ player' = p
        /\ task'[t].pc = "recovering" /\ task'[t].awaits = None
        /\ \A u \in Task \ {t} : task'[u] = tasks[u]
    BY <1>7 DEF select, NoTask
  <2>2. /\ RendererInv(layer') /\ Others(layer, layer', t) /\ Aside(layer', layer, t)
        /\ WaitInv(layer', t, "recovering")
    BY <1>1, <1>2, <1>7, <2>1, WaitsForRecovery
  <2>3. \A u \in Task : task'[u].awaits # t
    BY <1>4, <2>1, TasksAreDistinct
  <2>4. QED
    BY <1>4, <2>1, <2>2, <2>3 DEF ActsAside, Acts, SameWork
<1>8. QED
  BY <1>5, <1>6, <1>7

(* The call gives up neither an operation nor a promise.                    *)
LEMMA StandsBy ==
  ASSUME SiteInv, CallsInv, UNCHANGED layer, player'.operation = player.operation,
         NEW t \in Task, \A u \in Task \ {t} : Goes(task[u], task'[u]),
         \/ task'[t].pc = task[t].pc /\ task'[t].awaits = task[t].awaits
            /\ \A u \in Task : task'[u].awaits = task[u].awaits
         \/ /\ task[t].pc \notin CallPcs /\ task'[t].pc \notin CallPcs
            /\ task'[t].awaits \in {None, player.operation}
            /\ task'[t].pc \in {"holding", "awaiting"} => task'[t].awaits # None
  PROVE  Acts(t) /\ Aside(layer', layer, t)
<1>1. RendererInv(layer') /\ Others(layer, layer', t) /\ Aside(layer', layer, t)
  BY DEF CallsInv, RendererInv, Others, Aside
<1>2. WaitInv(layer, t, task[t].pc)
  BY DEF CallsInv, WaitsInv
<1>3. WaitInv(layer', t, task'[t].pc)
  BY <1>2, CleanOf, CleanWait DEF CallPcs
<1>4. player'.operation = t \/ (\E u \in Task : task'[u].awaits = t) => task'[t].pc \in PaintPcs
  <2>1. CASE task'[t].pc = task[t].pc /\ \A u \in Task : task'[u].awaits = task[u].awaits
    BY <2>1, NobodyAwaits
  <2>2. CASE /\ task[t].pc \notin CallPcs /\ task'[t].awaits \in {None, player.operation}
    BY <2>2, NobodyAwaits, TasksAreDistinct DEF CallPcs, Goes
  <2>3. QED
    BY <2>1, <2>2
<1>5. task'[t].pc \in {"holding", "awaiting"} => task'[t].awaits # None
  BY DEF CallsInv, OperationInv
<1>6. QED
  BY <1>1, <1>3, <1>4, <1>5 DEF Acts

(* Nothing but the counts and marks of the calls is changed.                *)
LEMMA StandsStill ==
  ASSUME SiteInv, CallsInv, UNCHANGED layer, SameWork(player', player), NEW t \in Task,
         \A u \in Task \ {t} : Goes(task[u], task'[u]),
         \/ task'[t].pc = task[t].pc /\ task'[t].awaits = task[t].awaits
            /\ \A u \in Task : task'[u].awaits = task[u].awaits
         \/ /\ task[t].pc \notin CallPcs /\ task'[t].pc \notin CallPcs
            /\ task'[t].awaits \in {None, player.operation}
            /\ task'[t].pc \in {"holding", "awaiting"} => task'[t].awaits # None
  PROVE  ActsAside(t)
BY StandsBy DEF SameWork, ActsAside

(* A call hears what it was told.                                           *)
LEMMA OthersSteps ==
  ASSUME SiteInv, CallsInv, NEW t \in Task,
         selectRecovered(t) \/ acceptReceipt(t) \/ withNativeFallback(t)
  PROVE  ActsAside(t)
<1>1. /\ LayerInv(layer) /\ DOMAIN layer = LayerFields /\ RendererInv(layer)
      /\ PlayerInv(player) /\ TasksInv(task, player.wantsPlaying) /\ DOMAIN task = Task
      /\ DOMAIN task[t] = TaskFields /\ (task[t].pc \in CallPcs => task[t].awaits = None)
  BY DEF SiteInv, LayerInv, CallsInv, RendererInv, TasksInv, TaskInv, CallPcs, PaintPcs
<1>2. WaitInv(layer, t, task[t].pc)
  BY DEF CallsInv, WaitsInv
<1> DEFINE told == layer.told[t]
           heard == [layer EXCEPT !.told[t] = Nothing]
<1>3. told # Nothing =>
        /\ LayerInv(heard) /\ RendererInv(heard) /\ DOMAIN heard = LayerFields /\ Clean(heard, t)
        /\ Others(layer, heard, t) /\ Aside(heard, layer, t)
  BY <1>1, <1>2, CleanOf, IsTold, Waiting
<1>4. ASSUME NEW ok, told # Nothing, layer' = heard, NEW p, PlayerInv(p),
             p.frames = player.frames, p.replacements = player.replacements,
             p.operation = None \/ (p.operation = player.operation /\ task[t].pc \notin PaintPcs),
             player' = Returned(t, p, ok),
             NEW tasks, DOMAIN tasks = Task, \A u \in Task : Goes(task[u], tasks[u]),
             \A u \in Task : tasks[u].awaits # t, DOMAIN tasks[t] = TaskFields,
             tasks[t].awaits = None,
             task' = Ended(t, tasks, ok)
      PROVE  ActsAside(t)
  <2>1. SameWork(player', p)
    BY <1>4, Controls
  <2>2. /\ \A u \in Task \ {t} : task'[u] = tasks[u]
        /\ task'[t].pc \in {"idle", "done", "failed"} /\ task'[t].awaits = None
    BY <1>4, EndedOf
  <2>3. WaitInv(layer', t, task'[t].pc)
    BY <1>3, <1>4, <2>2, CleanWait DEF PaintPcs
  <2>4. player'.operation # t /\ \A u \in Task : task'[u].awaits # t
    BY <1>4, <2>1, <2>2, NobodyAwaits, TasksAreDistinct DEF SameWork
  <2> HIDE DEF heard
  <2>5. QED
    BY <1>3, <1>4, <2>1, <2>2, <2>3, <2>4 DEF ActsAside, Acts, SameWork
<1>5. CASE selectRecovered(t)
  <2>1. /\ told # Nothing /\ task[t].pc = "recovering"
        /\ \/ /\ player' = Returned(t, player, FALSE)
              /\ task' = Ended(t, task, FALSE) /\ layer' = heard
           \/ Selecting(t, task[t].scan, heard, player, task)
    BY <1>5 DEF selectRecovered
  <2>2. /\ \A u \in Task : Goes(task[u], task[u]) /\ task[u].awaits # t
        /\ task[t].awaits = None /\ task[t].pc \notin PaintPcs
    BY <1>1, <2>1, NobodyAwaits DEF Goes, CallPcs, PaintPcs
  <2> HIDE DEF heard, told
  <2>3. CASE /\ player' = Returned(t, player, FALSE)
             /\ task' = Ended(t, task, FALSE) /\ layer' = heard
    <3>1. PICK no : no = FALSE
      OBVIOUS
    <3>2. player' = Returned(t, player, no) /\ task' = Ended(t, task, no) /\ layer' = heard
      BY <2>3, <3>1
    <3>3. QED
      BY <1>1, <1>4, <2>1, <2>2, <3>2
  <2>4. CASE Selecting(t, task[t].scan, heard, player, task)
    BY <1>1, <1>3, <2>1, <2>2, <2>4, SelectingActs
  <2>5. QED
    BY <2>1, <2>3, <2>4
<1>6. CASE acceptReceipt(t)
  <2> DEFINE paints == told # Failed
             accepted == /\ paints /\ told.sequence <= task[t].prior + 1
                         /\ assertReceipt(layer, told)
             settled == SettlesOperation(player, t, paints)
             p == IF accepted THEN [settled EXCEPT !.lastReceipt = told.scan] ELSE settled
             tasks == SettlesFor(task, t, paints)
  <2>1. /\ told # Nothing /\ task[t].pc = "selecting" /\ layer' = heard
        /\ player' = Returned(t, p, accepted) /\ task' = Ended(t, tasks, accepted)
    BY <1>6 DEF acceptReceipt
  <2> HIDE DEF accepted, paints, heard, told
  <2>2. /\ PlayerInv(settled) /\ settled.operation = None /\ settled.frames = player.frames
        /\ settled.replacements = player.replacements
    BY <1>1, SettledWork, OperationSettles
  <2> HIDE DEF settled
  <2>3. PlayerInv(p) /\ SameWork(p, settled)
    BY <2>2, Bookkeeping, Controls DEF SameWork
  <2>4. task[t].awaits = None /\ task[t].awaits # t
    BY <1>1, <2>1, TasksAreDistinct DEF CallPcs, PaintPcs
  <2>5. /\ DOMAIN tasks = Task /\ tasks[t] = task[t]
        /\ \A u \in Task : Goes(task[u], tasks[u]) /\ tasks[u].awaits # t
    BY <1>1, <2>4, SettlesGo, SettledFor
  <2> HIDE DEF tasks, p
  <2>6. QED
    <3>1. /\ p.frames = player.frames /\ p.replacements = player.replacements
          /\ p.operation = None
      BY <2>2, <2>3 DEF SameWork
    <3>2. DOMAIN tasks[t] = TaskFields /\ tasks[t].awaits = None
      BY <1>1, <2>4, <2>5
    <3>3. QED
      BY <1>4, <2>1, <2>3, <2>5, <3>1, <3>2
<1>7. CASE withNativeFallback(t)
  <2> DEFINE native == retryFailedSmoothDrawInNative(heard)
  <2>1. /\ told # Nothing /\ task[t].pc \in {"painting", "selecting"}
        /\ layer' = waitForPaint(native, t)
        /\ task' = [task EXCEPT ![t].native = TRUE] /\ UNCHANGED player
    BY <1>7, ToldOf DEF withNativeFallback, RetriesInNative
  <2>2. /\ task'[t].pc = task[t].pc /\ task'[t].awaits = None
        /\ \A u \in Task \ {t} : task'[u] = task[u]
    BY <1>1, <2>1 DEF TaskFields, CallPcs, PaintPcs
  <2> HIDE DEF heard, told
  <2>3. /\ RendererInv(native) /\ DOMAIN native = LayerFields /\ Clean(native, t)
        /\ Others(layer, native, t) /\ Aside(native, layer, t) /\ native.repaint
    <3>1. DOMAIN heard = LayerFields /\ RendererInv(heard) /\ Clean(heard, t)
          /\ Others(layer, heard, t) /\ Aside(heard, layer, t)
      BY <1>3, <2>1
    <3>2. LooksLike(native, heard) /\ native.models = heard.models /\ native.told = heard.told
          /\ native.paintWaiter = heard.paintWaiter
          /\ native.recoveryWaiters = heard.recoveryWaiters /\ native.repaint = TRUE
      BY <3>1, Answers DEF retryFailedSmoothDrawInNative, LayerFields
    <3> HIDE DEF native
    <3>3. RendererInv(native)
      BY <3>1, <3>2 DEF RendererInv, LooksLike, LoopInv, PaintInv, AskedInv, IsReplacing,
         IsPainted
    <3>4. Others(layer, native, t)
      BY <3>1, <3>2 DEF Others, WaitInv, LooksLike
    <3>5. QED
      BY <3>1, <3>2, <3>3, <3>4 DEF Clean, Aside, LooksLike
  <2> HIDE DEF native
  <2>4. /\ RendererInv(layer') /\ Others(native, layer', t) /\ Aside(layer', native, t)
        /\ WaitInv(layer', t, task'[t].pc)
    BY <2>1, <2>2, <2>3, WaitsForPaint DEF PaintPcs
  <2>5. Others(layer, layer', t) /\ Aside(layer', layer, t)
    BY <2>3, <2>4 DEF Others, Aside
  <2>6. QED
    BY <2>1, <2>2, <2>4, <2>5 DEF ActsAside, Acts, Goes, PaintPcs
<1>8. QED
  BY <1>5, <1>6, <1>7

(* The calls of the operator and of the carried time.                       *)
LEMMA ScrubActs ==
  ASSUME SiteInv, CallsInv, NEW t \in Task \ Session, NEW scan, scrub(t, scan)
  PROVE  ActsAside(t)
<1> DEFINE p == stopPlaying([player EXCEPT !.wantsPlaying = FALSE])
           acted == [OperatorActs(task) EXCEPT ![t] = NoTask]
<1>1. PlayerInv(p) /\ SameWork(p, player)
  BY LoopOf, Controls DEF SiteInv
<1>2. /\ DOMAIN acted = Task /\ acted[t] = NoTask
      /\ \A u \in Task \ {t} : Goes(task[u], acted[u])
  <2>1. \A u \in Task : Goes(task[u], OperatorActs(task)[u])
    BY ActingGoes DEF SiteInv
  <2>2. DOMAIN OperatorActs(task) = Task
    BY DEF OperatorActs
  <2>3. QED
    BY <2>1, <2>2
<1>3. /\ task[t].pc = "idle" /\ task[t].pc \notin CallPcs
      /\ \/ \E pc \in {"settling", "awaiting"} :
              /\ pc = "awaiting" => p.operation # None
              /\ task' = [acted EXCEPT ![t] = [NoTask EXCEPT
                            !.pc = pc, !.scan = scan,
                            !.awaits = IF pc = "awaiting" THEN p.operation ELSE None]]
              /\ player' = p /\ UNCHANGED layer
         \/ select(t, scan, p, acted)
  BY DEF scrub, CallPcs, PaintPcs
<1> HIDE DEF p, acted
<1>4. ASSUME NEW pc \in {"settling", "awaiting"},
             pc = "awaiting" => p.operation # None,
             task' = [acted EXCEPT ![t] = [NoTask EXCEPT
                         !.pc = pc, !.scan = scan,
                         !.awaits = IF pc = "awaiting" THEN p.operation ELSE None]],
             player' = p, UNCHANGED layer
      PROVE  ActsAside(t)
  <2>1. /\ task'[t].pc = pc
        /\ task'[t].awaits = IF pc = "awaiting" THEN p.operation ELSE None
        /\ \A u \in Task \ {t} : task'[u] = acted[u]
    BY <1>2, <1>4 DEF NoTask
  <2>2. pc \notin CallPcs
    BY DEF CallPcs, PaintPcs
  <2>3. QED
    BY <1>1, <1>2, <1>3, <1>4, <2>1, <2>2, StandsStill DEF SameWork
<1>5. CASE select(t, scan, p, acted)
  <2>1. acted[t].awaits = None /\ DOMAIN acted[t] = TaskFields
    BY <1>2 DEF NoTask, TaskFields
  <2>2. QED
    BY <1>1, <1>2, <1>3, <1>5, <2>1, SelectActs
<1>6. QED
  BY <1>3, <1>4, <1>5

LEMMA SettlingActs ==
  ASSUME SiteInv, CallsInv, NEW t \in Task \ Session, scrubSettles(t)
  PROVE  ActsAside(t) /\ task[t].pc # "idle"
<1>1. /\ PlayerInv(player) /\ DOMAIN task = Task /\ DOMAIN task[t] = TaskFields
      /\ \A u \in Task : Goes(task[u], task[u])
  BY DEF SiteInv, TasksInv, TaskInv, Goes
<1>2. /\ task[t].pc \in {"settling", "settlingAgain", "awaited"} /\ task[t].pc \notin CallPcs
      /\ task[t].awaits = None
  BY DEF scrubSettles, CallPcs, PaintPcs, SiteInv, TasksInv, TaskInv
<1>3. \/ \E next \in {"awaiting", "settlingAgain"} :
           /\ next = "awaiting" => player.operation # None
           /\ task' = [task EXCEPT ![t].pc = next,
                         ![t].awaits = IF next = "awaiting" THEN player.operation ELSE None]
           /\ UNCHANGED <<layer, player>>
      \/ task' = Ended(t, task, FALSE) /\ UNCHANGED <<layer, player>>
      \/ select(t, nearestFrameIndex(player.frames, task[t].scan), player, task)
  BY DEF scrubSettles
<1>4. SameWork(player, player)
  BY DEF SameWork
<1>5. ASSUME NEW next \in {"awaiting", "settlingAgain"},
             next = "awaiting" => player.operation # None,
             task' = [task EXCEPT ![t].pc = next,
                         ![t].awaits = IF next = "awaiting" THEN player.operation ELSE None],
             UNCHANGED <<layer, player>>
      PROVE  ActsAside(t)
  <2>1. /\ task'[t].pc = next
        /\ task'[t].awaits = IF next = "awaiting" THEN player.operation ELSE None
        /\ \A u \in Task \ {t} : task'[u] = task[u]
    BY <1>1, <1>5 DEF TaskFields
  <2>2. next \notin CallPcs
    BY DEF CallPcs, PaintPcs
  <2>3. QED
    BY <1>1, <1>2, <1>4, <1>5, <2>1, <2>2, StandsStill DEF SameWork
<1>6. CASE task' = Ended(t, task, FALSE) /\ UNCHANGED <<layer, player>>
  <2>1. PICK no : no = FALSE
    OBVIOUS
  <2>2. task' = Ended(t, task, no)
    BY <1>6, <2>1
  <2>3. /\ \A u \in Task \ {t} : task'[u] = task[u]
        /\ task'[t].pc \in {"idle", "done", "failed"} /\ task'[t].awaits = None
    BY <1>1, <1>2, <2>2, EndedOf
  <2>4. task'[t].pc \notin CallPcs
    BY <2>3 DEF CallPcs, PaintPcs
  <2>5. QED
    BY <1>1, <1>2, <1>4, <1>6, <2>3, <2>4, StandsStill DEF SameWork
<1>7. CASE select(t, nearestFrameIndex(player.frames, task[t].scan), player, task)
  BY <1>1, <1>2, <1>4, <1>7, SelectActs
<1>8. QED
  BY <1>2, <1>3, <1>5, <1>6, <1>7

LEMMA AdvanceActs ==
  ASSUME SiteInv, CallsInv, NEW t \in Advance, advanceOnce(t)
  PROVE  ActsAside(t)
<1> DEFINE p == [player EXCEPT !.timer = FALSE]
           later == {s \in p.frames : s > layer.selected}
           scan == IF later = {} THEN Min(p.frames) ELSE Min(later)
<1>1. /\ PlayerInv(player) /\ t \in Task /\ DOMAIN task = Task /\ DOMAIN task[t] = TaskFields
      /\ \A u \in Task : Goes(task[u], task[u])
  BY TasksAreDistinct DEF SiteInv, TasksInv, TaskInv, Goes
<1>2. task[t].pc = "idle" /\ task[t].pc \notin CallPcs /\ task[t].awaits = None
  BY <1>1 DEF advanceOnce, CallPcs, PaintPcs, SiteInv, TasksInv, TaskInv
<1>3. PlayerInv(p) /\ SameWork(p, player)
  BY <1>1, Bookkeeping, Controls
<1>4. \/ player' = Returned(t, p, FALSE) /\ UNCHANGED <<layer, task>>
      \/ select(t, scan, p, task)
  BY DEF advanceOnce
<1> HIDE DEF p, scan
<1>5. CASE player' = Returned(t, p, FALSE) /\ UNCHANGED <<layer, task>>
  <2>1. PICK no : no = FALSE
    OBVIOUS
  <2>2. SameWork(Returned(t, p, no), p) /\ player' = Returned(t, p, no)
    BY <1>3, <1>5, <2>1, Controls
  <2>3. SameWork(player', player)
    BY <1>3, <2>2 DEF SameWork
  <2>4. QED
    BY <1>1, <1>5, <2>3, StandsStill
<1>6. CASE select(t, scan, p, task)
  BY <1>1, <1>2, <1>3, <1>6, SelectActs
<1>7. QED
  BY <1>4, <1>5, <1>6

LEMMA LiveStays == DOMAIN live = LiveFields => LiveKept(live, live)
BY DEF LiveKept

(* A time is carried, or the loop is played or held.                        *)
LEMMA AsideSteps ==
  ASSUME SiteInv, CallsInv, HistoryInv,
         \/ applySitePlayheadCarry \/ siteCarried
         \/ schedulesLater /\ UNCHANGED <<live, poll>>
         \/ operatorPlays \/ operatorPauses \/ operatorScrubs
         \/ scrubSettles(Scrub) /\ UNCHANGED <<live, poll>>
         \/ scrubSettles(Carry) /\ UNCHANGED <<live, poll>>
         \/ \E t \in Advance : loopTimer(t)
         \/ \E t \in Task \ Session :
              /\ selectRecovered(t) \/ acceptReceipt(t) \/ withNativeFallback(t)
              /\ UNCHANGED <<live, poll>>
  PROVE  CallsInv' /\ HistoryInv'
<1>1. /\ DOMAIN live = LiveFields /\ PlayerInv(player) /\ DOMAIN task = Task
      /\ DOMAIN task[Carry] = TaskFields
      /\ \A u \in Task : Goes(task[u], task[u]) /\ Goes(task[u], OperatorActs(task)[u])
      /\ {Scrub, Carry} \subseteq Task \ Session /\ Advance \subseteq Task \ Session
  <2>1. {Scrub, Carry} \subseteq Task \ Session /\ Advance \subseteq Task \ Session
    BY TasksAreDistinct
  <2>2. \A u \in Task : Goes(task[u], OperatorActs(task)[u])
    BY ActingGoes DEF SiteInv
  <2>3. QED
    BY <2>1, <2>2 DEF CallsInv, SiteInv, TasksInv, TaskInv, Goes
<1>2. ASSUME NEW t \in Task \ Session, ActsAside(t), UNCHANGED <<live, poll>>,
             t # Carry \/ task[Carry].pc # "idle"
      PROVE  CallsInv' /\ HistoryInv'
  <2>1. CarryInv(live', task')
    <3>1. t = Carry => task[Carry].pc # "idle"
      BY <1>2
    <3>2. t # Carry => Goes(task[Carry], task'[Carry])
      BY <1>1, <1>2 DEF ActsAside, Acts
    <3>3. QED
      BY <1>2, <3>1, <3>2, CarryGoes
  <2>2. QED
    BY <1>1, <1>2, <2>1, LiveStays, Elsewhere
<1>3. ASSUME NEW t \in Task \ Session, ActsAside(t), UNCHANGED poll,
             live' = [live EXCEPT !.carry = None]
      PROVE  CallsInv' /\ HistoryInv'
  <2>1. LiveKept(live', live) /\ live'.carry = None
    BY <1>1, <1>3 DEF LiveKept, LiveFields
  <2>2. QED
    BY <1>3, <2>1, CarryGoes, Elsewhere
<1>4. CASE applySitePlayheadCarry
  <2> DEFINE target == nearestFrameIndex(live.history, live.carry.scan)
             idle == [live EXCEPT !.applies = "no"]
             carries == [idle EXCEPT !.carry = None, !.carried = live.carry]
  <2>1. /\ UNCHANGED poll
        /\ \/ live' = idle /\ UNCHANGED <<layer, player, task>>
           \/ live' = [idle EXCEPT !.carry = None] /\ UNCHANGED <<layer, player, task>>
           \/ live' = carries /\ scrub(Carry, target)
           \/ /\ live' = carries /\ live.carry # None
              /\ task' = [task EXCEPT ![Carry] = [NoTask EXCEPT !.pc = "done"]]
              /\ UNCHANGED <<layer, player>>
    BY <1>4 DEF applySitePlayheadCarry, site
  <2>2. /\ LiveKept(idle, live) /\ idle.carry = live.carry
        /\ LiveKept([idle EXCEPT !.carry = None], live)
        /\ [idle EXCEPT !.carry = None].carry = None
        /\ LiveKept(carries, live) /\ carries.carry = None
    BY <1>1 DEF LiveKept, LiveFields
  <2> HIDE DEF target, carries, idle
  <2>3. CASE UNCHANGED <<layer, player, task>>
    <3>1. ActsAside(Scrub)
      BY <1>1, <2>3, StandsStill DEF SameWork
    <3>2. LiveKept(live', live) /\ live'.carry \in {None, live.carry}
      BY <2>1, <2>2
    <3>3. CarryInv(live', task')
      BY <1>1, <2>3, <3>2, CarryGoes
    <3>4. QED
      BY <1>1, <2>1, <3>1, <3>2, <3>3, Elsewhere
  <2>4. CASE live' = carries /\ scrub(Carry, target)
    <3>1. ActsAside(Carry)
      BY <1>1, <2>4, ScrubActs
    <3>2. CarryInv(live', task')
      BY <2>2, <2>4, CarryGoes
    <3>3. QED
      BY <1>1, <2>1, <2>2, <2>4, <3>1, <3>2, Elsewhere
  <2>5. CASE /\ live' = carries /\ live.carry # None
             /\ task' = [task EXCEPT ![Carry] = [NoTask EXCEPT !.pc = "done"]]
             /\ UNCHANGED <<layer, player>>
    <3>1. /\ task[Carry].pc = "idle" /\ task'[Carry].pc = "done" /\ task'[Carry].awaits = None
          /\ \A u \in Task \ {Carry} : task'[u] = task[u]
      BY <1>1, <2>5 DEF CallsInv, CarryInv, NoTask
    <3>2. task[Carry].pc \notin CallPcs /\ task'[Carry].pc \notin CallPcs
      BY <3>1 DEF CallPcs, PaintPcs
    <3>3. ActsAside(Carry)
      BY <1>1, <2>5, <3>1, <3>2, StandsStill DEF SameWork
    <3>4. CarryInv(live', task')
      BY <2>2, <2>5, CarryGoes
    <3>5. QED
      BY <1>1, <2>1, <2>2, <2>5, <3>3, <3>4, Elsewhere
  <2>6. QED
    BY <2>1, <2>3, <2>4, <2>5
<1>5. CASE siteCarried
  <2>1. /\ task[Carry].pc \in {"done", "failed"} /\ UNCHANGED <<layer, poll>>
        /\ \E carry : live' = [live EXCEPT !.carried = None, !.carry = carry]
        /\ \/ /\ player' = startPlaying([player EXCEPT !.wantsPlaying = TRUE])
              /\ task' = [OperatorActs(task) EXCEPT ![Carry] = NoTask]
           \/ task' = [task EXCEPT ![Carry] = NoTask] /\ UNCHANGED player
    BY <1>5 DEF siteCarried
  <2>2. LiveKept(live', live)
    BY <1>1, <2>1 DEF LiveKept, LiveFields
  <2>3. SameWork(player', player)
    BY <1>1, <2>1, Controls DEF SameWork
  <2>4. /\ task'[Carry] = NoTask
        /\ \A u \in Task \ {Carry} : Goes(task[u], task'[u])
    BY <1>1, <2>1 DEF OperatorActs
  <2>5. task'[Carry].pc = "idle" /\ task'[Carry].awaits = None
    BY <2>4 DEF NoTask
  <2>6. task[Carry].pc \notin CallPcs /\ task'[Carry].pc \notin CallPcs
    BY <2>1, <2>5 DEF CallPcs, PaintPcs
  <2>7. ActsAside(Carry)
    BY <1>1, <2>1, <2>3, <2>4, <2>5, <2>6, StandsStill
  <2>8. CarryInv(live', task')
    BY <2>5 DEF CarryInv
  <2>9. QED
    BY <1>1, <2>1, <2>2, <2>7, <2>8, Elsewhere
<1>6. CASE schedulesLater /\ UNCHANGED <<live, poll>>
  <2> DEFINE p == [player EXCEPT !.scheduling = FALSE]
  <2>1. PlayerInv(p) /\ SameWork(p, player)
    BY <1>1, Bookkeeping, Controls
  <2>2. player' = (IF p.operation = None THEN scheduleNext(p) ELSE p) /\ UNCHANGED <<layer, task>>
    BY <1>6 DEF schedulesLater
  <2> HIDE DEF p
  <2>3. SameWork(player', player)
    BY <2>1, <2>2, Controls DEF SameWork
  <2>4. ActsAside(Scrub)
    BY <1>1, <2>2, <2>3, StandsStill
  <2>5. QED
    BY <1>1, <1>2, <1>6, <2>4, TasksAreDistinct
<1>7. CASE operatorPlays \/ operatorPauses
  <2>1. /\ task' = OperatorActs(task) /\ UNCHANGED <<layer, poll>>
        /\ live' = [live EXCEPT !.carry = None]
        /\ \/ player' = startPlaying([player EXCEPT !.wantsPlaying = TRUE])
           \/ player' = stopPlaying([player EXCEPT !.wantsPlaying = FALSE])
    BY <1>7 DEF operatorPlays, operatorPauses, play, pause
  <2>2. SameWork(player', player)
    BY <1>1, <2>1, Controls
  <2>3. \A u \in Task : task'[u].pc = task[u].pc /\ task'[u].awaits = task[u].awaits
    BY <2>1 DEF OperatorActs, SiteInv, TasksInv, TaskInv, TaskFields
  <2>4. ActsAside(Scrub)
    BY <1>1, <2>1, <2>2, <2>3, StandsStill
  <2>5. QED
    BY <1>1, <1>3, <2>1, <2>4
<1>8. CASE operatorScrubs
  <2>1. PICK scan : scrub(Scrub, scan) /\ live' = [live EXCEPT !.carry = None] /\ UNCHANGED poll
    BY <1>8 DEF operatorScrubs
  <2>2. ActsAside(Scrub)
    BY <1>1, <2>1, ScrubActs
  <2>3. QED
    BY <1>1, <1>3, <2>1, <2>2
<1>9. ASSUME NEW t \in {Scrub, Carry}, scrubSettles(t), UNCHANGED <<live, poll>>
      PROVE  CallsInv' /\ HistoryInv'
  BY <1>1, <1>2, <1>9, SettlingActs
<1>10. ASSUME NEW t \in Advance, loopTimer(t)
       PROVE  CallsInv' /\ HistoryInv'
  BY <1>1, <1>2, <1>10, AdvanceActs, TasksAreDistinct DEF loopTimer
<1>11. ASSUME NEW t \in Task \ Session, UNCHANGED <<live, poll>>,
              selectRecovered(t) \/ acceptReceipt(t) \/ withNativeFallback(t)
       PROVE  CallsInv' /\ HistoryInv'
  <2>1. ActsAside(t)
    BY <1>11, OthersSteps
  <2>2. task[t].pc # "idle"
    BY <1>11 DEF selectRecovered, acceptReceipt, withNativeFallback
  <2>3. QED
    BY <1>2, <1>11, <2>1, <2>2
<1>12. QED
  BY <1>4, <1>5, <1>6, <1>7, <1>8, <1>9, <1>10, <1>11

-----------------------------------------------------------------------------
(* The update under way.                                                    *)

(* Only the first of the queue is under way, and where it has not begun or  *)
(* has been undone, everything is as it was.                                *)
LEMMA Undisturbed ==
  ASSUME CallsInv, NEW s \in Session, s = Head(player.replacements)
  PROVE  /\ \A u \in Session \ {s} : task[u].pc \in {"idle", "queued"}
         /\ HistoryInv /\ ~live.removed =>
              /\ WindowInv(layer, player, task[s], live.timeline, s)
              /\ task[s].pc # "painting" => ~IsReplacing(layer)
              /\ task[s].pc \notin {"painting", "done"} =>
                   player.frames = live.timeline /\ layer.models = live.timeline
<1>1. \A u \in Session \ {s} : task[u].pc \in {"idle", "queued"}
  BY DEF CallsInv, QueueInv
<1>2. ASSUME HistoryInv, ~live.removed
      PROVE  FramesInv(layer, player, task, live.timeline)
  BY <1>2 DEF HistoryInv
<1>3. QED
  BY <1>1, <1>2 DEF FramesInv

LEMMA HeadStep ==
  ASSUME CallsInv, HistoryInv, NEW s \in Session, Acts(s), UNCHANGED <<live, poll>>,
         player'.replacements = player.replacements,
         s = Head(player.replacements), task[s].pc # "idle",
         task'[s].pc \in UpdatePcs \ {"queued"}, task'[s].frames = task[s].frames,
         ~live.removed =>
           /\ WindowInv(layer', player', task'[s], live.timeline, s)
           /\ task'[s].pc # "painting" => ~IsReplacing(layer')
           /\ task'[s].pc \notin {"painting", "done"} =>
                player'.frames = live.timeline /\ layer'.models = live.timeline
           /\ task'[s].pc = "done" => live.generation = s
  PROVE  CallsInv' /\ HistoryInv'
<1>1. s \in Task /\ \A u \in Session \ {s} : task'[u].pc \in {"idle", "queued"}
  <2>1. \A u \in Session \ {s} : u \in Task /\ Goes(task[u], task'[u])
    BY TasksAreDistinct DEF Acts
  <2>2. QED
    BY <2>1, Undisturbed, TasksAreDistinct DEF Goes
<1>2. CallsInv'
  <2>1. Waits(player.replacements, s) /\ task[s].frames \subseteq Scan
    BY DEF CallsInv, QueueInv
  <2>2. QueueInv(player.replacements, task', poll)
    BY <1>1, <2>1, QueueGoes DEF CallsInv, Acts
  <2>3. CarryInv(live', task') /\ DOMAIN live' = LiveFields /\ live'.history \subseteq Scan
    <3>1. Goes(task[Carry], task'[Carry])
      BY TasksAreDistinct DEF Acts
    <3>2. QED
      BY <3>1, CarryGoes DEF CallsInv
  <2>4. QED
    BY <1>1, <2>2, <2>3, ActsKeep
<1>3. HistoryInv'
  <2> SUFFICES ASSUME ~live.removed
               PROVE  /\ OwnerInv(live, player.replacements, task', poll)
                      /\ FramesInv(layer', player', task', live.timeline)
                      /\ StoredInv(live, poll)
    BY DEF HistoryInv
  <2>1. OwnerInv(live, player.replacements, task, poll) /\ StoredInv(live, poll)
    BY DEF HistoryInv
  <2>2. OwnerInv(live, player.replacements, task', poll)
    BY <1>1, <2>1 DEF OwnerInv
  <2>3. \A u \in Session : WindowInv(layer', player', task'[u], live.timeline, u)
    BY <1>1 DEF WindowInv
  <2>4. FramesInv(layer', player', task', live.timeline)
    BY <2>3 DEF FramesInv
  <2>5. QED
    BY <2>1, <2>2, <2>4
<1>4. QED
  BY <1>2, <1>3

(* The first of the queue is who has anything to do.                        *)
LEMMA IsFirst ==
  ASSUME CallsInv, NEW s \in Session, task[s].pc \notin {"idle", "queued"}
  PROVE  s = Head(player.replacements) /\ s \in Task
BY TasksAreDistinct DEF CallsInv, QueueInv

(* A session hears what it was told, if anything.                           *)
LEMMA Hears ==
  ASSUME SiteInv, CallsInv, NEW t \in Task,
         layer.told[t] # Nothing \/ task[t].pc \notin CallPcs
  PROVE  LET heard == [layer EXCEPT !.told[t] = Nothing]
         IN  /\ LayerInv(heard) /\ RendererInv(heard) /\ DOMAIN heard = LayerFields
             /\ Clean(heard, t) /\ Others(layer, heard, t) /\ Aside(heard, layer, t)
             /\ LooksLike(heard, layer)
<1>1. LayerInv(layer) /\ DOMAIN layer = LayerFields /\ RendererInv(layer)
  BY DEF SiteInv, LayerInv, CallsInv, RendererInv
<1>2. WaitInv(layer, t, task[t].pc)
  BY DEF CallsInv, WaitsInv
<1>3. t # layer.paintWaiter /\ t \notin layer.recoveryWaiters
  BY <1>2, CleanOf DEF Clean, CallPcs
<1>4. QED
  BY <1>1, <1>3, IsTold, Waiting

LEMMA RestoresActs ==
  ASSUME CallsInv, NEW s \in Session, NEW l, LayerInv(l), RendererInv(l), Clean(l, s),
         Others(layer, l, s), NEW p, PlayerInv(p),
         NEW tasks, DOMAIN tasks = Task, DOMAIN tasks[s] = TaskFields, tasks[s].awaits = None,
         \A u \in Task \ {s} : Goes(task[u], tasks[u]),
         Restores(s, l, p, tasks)
  PROVE  /\ Acts(s) /\ player'.frames = tasks[s].previous
         /\ player'.replacements = p.replacements
         /\ task'[s].pc = "restoring" /\ task'[s].frames = tasks[s].frames
         /\ ~IsReplacing(layer')
         /\ layer'.models = IF IsReplacing(l) THEN l.replacement.models ELSE l.models
<1>1. s \in Task /\ DOMAIN l = LayerFields
  BY TasksAreDistinct DEF LayerInv
<1>2. /\ player'.frames = tasks[s].previous /\ player'.operation = s
      /\ player'.replacements = p.replacements
      /\ task'[s].pc = "restoring" /\ task'[s].frames = tasks[s].frames
      /\ task'[s].awaits = None
      /\ \A u \in Task \ {s} : task'[u] = tasks[u]
  BY <1>1 DEF Restores, PlayerInv, PlayerFields, TaskFields
<1>3. /\ RendererInv(layer') /\ Others(l, layer', s) /\ WaitInv(layer', s, "restoring")
      /\ ~IsReplacing(layer')
      /\ layer'.models = IF IsReplacing(l) THEN l.replacement.models ELSE l.models
  <2>1. CASE IsReplacing(l)
    <3>1. layer' = rollbackResidentFrameReplacement(l, s)
      BY <2>1 DEF Restores
    <3>2. QED
      BY <1>1, <2>1, <3>1, RollbackKeeps
  <2>2. CASE ~IsReplacing(l) /\ l.phase # "ready"
    <3>1. layer' = waitForRecovery(l, s)
      BY <2>2 DEF Restores
    <3> DEFINE m == waitForRecovery(l, s)
    <3>2. /\ RendererInv(m) /\ Others(l, m, s) /\ Aside(m, l, s)
          /\ WaitInv(m, s, "restoring")
      BY <1>1, <2>2, WaitsForRecovery
    <3> HIDE DEF m
    <3>3. QED
      BY <2>2, <3>1, <3>2 DEF m, Aside, IsReplacing
  <2>3. CASE ~IsReplacing(l) /\ l.phase = "ready"
    <3> DEFINE answer == IF l.receipt = NoPaint THEN Failed ELSE Painted(l.receipt)
               m == [l EXCEPT !.told[s] = answer]
    <3>1. layer' = m
      BY <2>3 DEF Restores
    <3>2. answer \notin {Nothing, Recovered} /\ "restoring" \in PaintPcs
      BY ToldOf DEF PaintPcs
    <3> HIDE DEF answer
    <3>3. s # l.paintWaiter /\ s \notin l.recoveryWaiters
      BY DEF Clean
    <3>4. /\ RendererInv(m) /\ Others(l, m, s) /\ Aside(m, l, s)
          /\ WaitInv(m, s, "restoring")
      BY <1>1, <3>2, <3>3, IsTold
    <3> HIDE DEF m
    <3>5. QED
      BY <2>3, <3>1, <3>4 DEF Aside, IsReplacing
  <2>4. QED
    BY <2>1, <2>2, <2>3
<1>4. Others(layer, layer', s)
  BY <1>3 DEF Others
<1>5. QED
  BY <1>2, <1>3, <1>4 DEF Acts, PaintPcs

LEMMA HoldKeeps ==
  ASSUME SiteInv, CallsInv, HistoryInv, NEW s \in Session, holdPlayback(s), UNCHANGED <<live, poll>>
  PROVE  CallsInv' /\ HistoryInv'
<1>1. /\ s \in Task /\ PlayerInv(player) /\ DOMAIN task = Task /\ DOMAIN task[s] = TaskFields
      /\ task[s].pc = "queued" /\ task[s].awaits = None /\ s = Head(player.replacements)
      /\ task[s].pc \notin CallPcs /\ UNCHANGED layer
      /\ \A u \in Task : Goes(task[u], task[u])
  BY TasksAreDistinct DEF SiteInv, TasksInv, TaskInv, holdPlayback, CallPcs, PaintPcs, Goes
<1>2. /\ SameWork(player', player) /\ task'[s].frames = task[s].frames
      /\ \A u \in Task \ {s} : task'[u] = task[u]
      /\ task'[s].awaits \in {None, player.operation}
      /\ task'[s].pc = "holding" => task'[s].awaits # None
      /\ task'[s].pc \in {"held", "holding", "failed"}
      /\ task'[s].pc # "failed" => task'[s].previous = player.frames
  <2>1. CASE player.disposed
    <3>1. task' = [task EXCEPT ![s].pc = "failed"] /\ UNCHANGED player
      BY <2>1 DEF holdPlayback, Fails
    <3>2. QED
      BY <1>1, <3>1 DEF SameWork, TaskFields
  <2>2. CASE ~player.disposed
    <3>1. /\ player' = stopPlaying(player)
          /\ task' = [task EXCEPT ![s] =
               [@ EXCEPT !.pc = IF player.operation = None THEN "held" ELSE "holding",
                         !.awaits = player.operation,
                         !.scan = layer.selected, !.previous = player.frames,
                         !.atNewest = ~player.playing /\ layer.selected = Max(player.frames),
                         !.resume = player.playing, !.acted = FALSE]]
      BY <2>2 DEF holdPlayback
    <3>2. SameWork(player', player)
      BY <1>1, <3>1, Controls
    <3>3. QED
      BY <1>1, <3>1, <3>2 DEF TaskFields
  <2>3. QED
    BY <2>1, <2>2
<1>3. Acts(s)
  <2>1. task'[s].pc \notin CallPcs /\ task'[s].pc # "awaiting"
    BY <1>2 DEF CallPcs, PaintPcs
  <2>2. QED
    BY <1>1, <1>2, <2>1, StandsStill DEF ActsAside
<1>4. ~live.removed =>
        /\ player.frames = live.timeline /\ layer.models = live.timeline /\ ~IsReplacing(layer)
  BY <1>1, Undisturbed
<1>5. ~live.removed => WindowInv(layer', player', task'[s], live.timeline, s)
  BY <1>2, <1>4 DEF WindowInv
<1>6. task'[s].pc \in UpdatePcs \ {"queued"} /\ task'[s].pc \notin {"painting", "done"}
  BY <1>2 DEF UpdatePcs
<1>7. QED
  BY <1>1, <1>2, <1>3, <1>4, <1>5, <1>6, HeadStep DEF SameWork

LEMMA AwaitRecoveryKeeps ==
  ASSUME SiteInv, CallsInv, HistoryInv, NEW s \in Session, awaitRecovery(s),
         UNCHANGED <<live, poll>>
  PROVE  CallsInv' /\ HistoryInv'
<1>1. /\ s \in Task /\ LayerInv(layer) /\ RendererInv(layer) /\ DOMAIN layer = LayerFields
      /\ DOMAIN task = Task /\ DOMAIN task[s] = TaskFields
      /\ task[s].pc = "held" /\ task[s].awaits = None /\ s = Head(player.replacements)
      /\ UNCHANGED player /\ layer.phase # "ready" /\ layer' = waitForRecovery(layer, s)
  BY TasksAreDistinct, IsFirst DEF SiteInv, LayerInv, TasksInv, TaskInv, awaitRecovery, CallsInv,
     RendererInv
<1>2. /\ task'[s].pc = "recovering" /\ task'[s].awaits = None
      /\ task'[s].frames = task[s].frames /\ task'[s].previous = task[s].previous
      /\ \A u \in Task \ {s} : task'[u] = task[u]
  BY <1>1 DEF awaitRecovery, TaskFields
<1>3. Clean(layer, s)
  BY <1>1, CleanOf DEF CallsInv, WaitsInv, PaintPcs
<1>4. /\ RendererInv(layer') /\ Others(layer, layer', s) /\ Aside(layer', layer, s)
      /\ WaitInv(layer', s, "recovering")
  BY <1>1, <1>3, WaitsForRecovery
<1>5. Acts(s)
  <2>1. player.operation # s /\ \A u \in Task : task[u].awaits # s
    BY <1>1, NobodyAwaits DEF PaintPcs
  <2>2. QED
    BY <1>1, <1>2, <1>4, <2>1, TasksAreDistinct DEF Acts, Goes
<1>6. ~live.removed =>
        /\ player.frames = live.timeline /\ layer.models = live.timeline /\ ~IsReplacing(layer)
        /\ task[s].previous = live.timeline
  BY <1>1, Undisturbed DEF WindowInv
<1>7. ~live.removed =>
        /\ WindowInv(layer', player', task'[s], live.timeline, s)
        /\ ~IsReplacing(layer') /\ layer'.models = live.timeline
  BY <1>2, <1>4, <1>6 DEF WindowInv, Aside, IsReplacing
<1>8. task'[s].pc \in UpdatePcs \ {"queued"}
  BY <1>2 DEF UpdatePcs
<1>9. QED
  BY <1>1, <1>2, <1>5, <1>6, <1>7, <1>8, HeadStep

LEMMA NativeKeeps ==
  ASSUME SiteInv, CallsInv, HistoryInv, NEW s \in Session, withNativeFallback(s),
         UNCHANGED <<live, poll>>
  PROVE  CallsInv' /\ HistoryInv'
<1>1. s \in Task /\ task[s].pc = "painting" /\ s = Head(player.replacements)
      /\ DOMAIN task = Task /\ DOMAIN task[s] = TaskFields
      /\ UNCHANGED player /\ layer.phase = "ready"
  BY TasksAreDistinct, IsFirst DEF SiteInv, TasksInv, TaskInv, withNativeFallback,
     RetriesInNative, MayRetryInNative
<1>2. /\ task'[s].pc = "painting" /\ task'[s].frames = task[s].frames
      /\ task'[s].previous = task[s].previous
  BY <1>1 DEF withNativeFallback, TaskFields
<1>3. Acts(s) /\ Aside(layer', layer, s)
  BY <1>1, OthersSteps DEF ActsAside
<1>4. ~live.removed => WindowInv(layer, player, task[s], live.timeline, s)
  BY <1>1, Undisturbed
<1>5. ~live.removed => WindowInv(layer', player', task'[s], live.timeline, s)
  BY <1>1, <1>2, <1>3, <1>4 DEF WindowInv, Aside, IsReplacing
<1>6. task'[s].pc \in UpdatePcs \ {"queued"}
  BY <1>2 DEF UpdatePcs
<1>7. QED
  BY <1>1, <1>2, <1>3, <1>5, <1>6, HeadStep

LEMMA RestoreKeeps ==
  ASSUME SiteInv, CallsInv, HistoryInv, NEW s \in Session, restores(s), UNCHANGED <<live, poll>>
  PROVE  CallsInv' /\ HistoryInv'
<1> DEFINE told == layer.told[s]
           heard == [layer EXCEPT !.told[s] = Nothing]
           receipt == IF told = Recovered THEN Painted(layer.receipt) ELSE told
           paints == told # Failed /\ receipt.scan # None
           settled == SettlesOperation(player, s, paints)
           p == IF paints /\ assertReceipt(layer, receipt)
                THEN [settled EXCEPT !.lastReceipt = receipt.scan] ELSE settled
           tasks == SettlesFor(task, s, paints)
<1>1. /\ s \in Task /\ PlayerInv(player) /\ TasksInv(task, player.wantsPlaying)
      /\ DOMAIN task[s] = TaskFields
      /\ task[s].pc = "restoring" /\ task[s].awaits = None /\ told # Nothing
      /\ s = Head(player.replacements)
  BY TasksAreDistinct, IsFirst DEF SiteInv, TasksInv, TaskInv, restores
<1>2. /\ layer' = heard /\ player' = ResumedBy(s, p)
      /\ task' = [tasks EXCEPT ![s].pc = "failed"]
  BY DEF restores
<1>3. /\ RendererInv(heard) /\ Clean(heard, s) /\ Others(layer, heard, s)
      /\ Aside(heard, layer, s)
  BY <1>1, Hears
<1> HIDE DEF paints, heard, told, receipt
<1>4. /\ PlayerInv(settled) /\ settled.operation = None /\ settled.frames = player.frames
      /\ settled.replacements = player.replacements
  BY <1>1, SettledWork, OperationSettles
<1>5. /\ DOMAIN tasks = Task /\ tasks[s] = task[s]
      /\ \A u \in Task : Goes(task[u], tasks[u]) /\ tasks[u].awaits # s
  <2>1. task[s].awaits # s
    BY <1>1, TasksAreDistinct
  <2>2. QED
    BY <1>1, <2>1, SettlesGo, SettledFor
<1> HIDE DEF settled, tasks
<1>6. PlayerInv(p) /\ SameWork(p, settled)
  BY <1>4, Bookkeeping, Controls DEF SameWork
<1> HIDE DEF p
<1>7. SameWork(player', p)
  BY <1>2, <1>6, Controls DEF ResumedBy, SameWork
<1>8. /\ task'[s].pc = "failed" /\ task'[s].awaits = None /\ task'[s].frames = task[s].frames
      /\ \A u \in Task \ {s} : task'[u] = tasks[u]
  BY <1>1, <1>2, <1>5 DEF TaskFields
<1>9. Acts(s)
  <2>1. WaitInv(heard, s, "failed")
    BY <1>3, CleanWait DEF PaintPcs
  <2>2. player'.operation = None /\ \A u \in Task : task'[u].awaits # s
    BY <1>4, <1>5, <1>6, <1>7, <1>8, TasksAreDistinct DEF SameWork
  <2>3. QED
    BY <1>1, <1>2, <1>3, <1>5, <1>8, <2>1, <2>2, TasksAreDistinct DEF Acts
<1>10. player'.frames = player.frames /\ player'.replacements = player.replacements
  BY <1>4, <1>6, <1>7 DEF SameWork
<1>11. ~live.removed =>
         /\ player'.frames = live.timeline /\ layer'.models = live.timeline
         /\ ~IsReplacing(layer')
  <2>1. layer'.models = layer.models /\ layer'.replacement = layer.replacement
    BY <1>2, <1>3 DEF Aside
  <2>2. QED
    BY <1>1, <1>10, <2>1, Undisturbed DEF IsReplacing
<1>12. WindowInv(layer', player', task'[s], live.timeline, s)
  BY <1>8 DEF WindowInv
<1>13. task'[s].pc \in UpdatePcs \ {"queued"}
  BY <1>8 DEF UpdatePcs
<1>14. QED
  BY <1>1, <1>8, <1>9, <1>10, <1>11, <1>12, <1>13, HeadStep

LEMMA CommitsKeep ==
  ASSUME SiteInv, CallsInv, HistoryInv, NEW s \in Session, commits(s, Owns(s)),
         UNCHANGED <<live, poll>>
  PROVE  CallsInv' /\ HistoryInv'
<1> DEFINE told == layer.told[s]
           heard == [layer EXCEPT !.told[s] = Nothing]
           paints == told # Failed
           settled == SettlesOperation(player, s, paints)
           accepted == [settled EXCEPT !.lastReceipt = told.scan]
           tasks == SettlesFor(task, s, paints)
<1>1. /\ s \in Task /\ PlayerInv(player) /\ TasksInv(task, player.wantsPlaying)
      /\ DOMAIN task[s] = TaskFields
      /\ task[s].pc = "painting" /\ task[s].awaits = None /\ told # Nothing
      /\ s = Head(player.replacements) /\ task[s].awaits # s
  BY TasksAreDistinct, IsFirst DEF SiteInv, TasksInv, TaskInv, commits
<1>2. /\ LayerInv(heard) /\ RendererInv(heard) /\ DOMAIN heard = LayerFields
      /\ Clean(heard, s) /\ Others(layer, heard, s) /\ Aside(heard, layer, s)
      /\ heard.selected = layer.selected
  BY <1>1, Hears DEF LooksLike
<1>3. \/ /\ paints /\ assertReceipt(layer, told) /\ Owns(s) /\ MayCommit(layer, told.sequence)
         /\ layer' = commitResidentFrameReplacement(heard)
         /\ player' = ResumedBy(s, accepted)
         /\ task' = [tasks EXCEPT ![s].pc = "done", ![s].scan = told.scan]
      \/ Restores(s, heard, settled, tasks)
  <2>1. paints => paints = TRUE
    OBVIOUS
  <2>2. QED
    BY <2>1 DEF commits
<1>4. ~live.removed => WindowInv(layer, player, task[s], live.timeline, s)
  BY <1>1, Undisturbed
<1> HIDE DEF heard, paints
<1>5. /\ PlayerInv(settled) /\ settled.operation = None /\ settled.frames = player.frames
      /\ settled.replacements = player.replacements
  BY <1>1, SettledWork, OperationSettles
<1>6. /\ DOMAIN tasks = Task /\ tasks[s] = task[s]
      /\ \A u \in Task : Goes(task[u], tasks[u]) /\ tasks[u].awaits # s
  BY <1>1, SettlesGo, SettledFor
<1> HIDE DEF settled, tasks, told
<1>7. CASE /\ assertReceipt(layer, told) /\ Owns(s) /\ MayCommit(layer, told.sequence)
           /\ layer' = commitResidentFrameReplacement(heard)
           /\ player' = ResumedBy(s, accepted)
           /\ task' = [tasks EXCEPT ![s].pc = "done", ![s].scan = told.scan]
  <2> DEFINE m == commitResidentFrameReplacement(heard)
  <2>1. /\ RendererInv(m) /\ m.models = heard.models /\ ~IsReplacing(m)
        /\ \A t, pc : WaitInv(heard, t, pc) => WaitInv(m, t, pc)
    BY <1>2, CommitKeeps
  <2>2. WaitInv(heard, s, "done")
    BY <1>2, CleanWait DEF PaintPcs
  <2> HIDE DEF m
  <2>3. /\ RendererInv(layer') /\ Others(layer, layer', s) /\ WaitInv(layer', s, "done")
        /\ layer'.models = layer.models /\ ~IsReplacing(layer')
    BY <1>2, <1>7, <2>1, <2>2 DEF m, Others, Aside
  <2>4. PlayerInv(accepted) /\ SameWork(accepted, settled)
    BY <1>5, Bookkeeping, Controls
  <2> HIDE DEF accepted
  <2>5. SameWork(player', accepted)
    BY <1>7, <2>4, Controls DEF ResumedBy, SameWork
  <2>6. /\ player'.operation = None /\ player'.frames = player.frames
        /\ player'.replacements = player.replacements
    BY <1>5, <2>4, <2>5 DEF SameWork
  <2>7. /\ task'[s].pc = "done" /\ task'[s].awaits = None /\ task'[s].frames = task[s].frames
        /\ task'[s].scan = told.scan
        /\ \A u \in Task \ {s} : task'[u] = tasks[u]
    BY <1>1, <1>6, <1>7 DEF TaskFields
  <2>8. Acts(s)
    <3>1. \A u \in Task : task'[u].awaits # s
      BY <1>1, <1>6, <2>7, TasksAreDistinct
    <3>2. QED
      BY <1>1, <1>6, <2>3, <2>6, <2>7, <3>1, TasksAreDistinct DEF Acts
  <2>9. IsReplacing(layer) /\ told.scan = layer.selected /\ layer.selected \in layer.models
        /\ live.generation = s
    BY <1>7 DEF MayCommit, assertReceipt, CallsInv, LoopInv, Owns
  <2>10. ~live.removed => WindowInv(layer', player', task'[s], live.timeline, s)
    BY <1>1, <1>4, <2>3, <2>6, <2>7, <2>9 DEF WindowInv
  <2>11. task'[s].pc \in UpdatePcs \ {"queued"}
    BY <2>7 DEF UpdatePcs
  <2>12. QED
    BY <1>1, <2>3, <2>6, <2>7, <2>8, <2>9, <2>10, <2>11, HeadStep
<1>8. CASE Restores(s, heard, settled, tasks)
  <2>1. DOMAIN tasks[s] = TaskFields /\ tasks[s].awaits = None
    BY <1>1, <1>6
  <2>2. /\ Acts(s) /\ player'.frames = task[s].previous
        /\ player'.replacements = player.replacements
        /\ task'[s].pc = "restoring" /\ task'[s].frames = task[s].frames
        /\ ~IsReplacing(layer')
        /\ layer'.models = IF IsReplacing(heard) THEN heard.replacement.models ELSE heard.models
    BY <1>2, <1>5, <1>6, <1>8, <2>1, RestoresActs
  <2>3. ~live.removed => player'.frames = live.timeline /\ layer'.models = live.timeline
    BY <1>1, <1>2, <1>4, <2>2 DEF WindowInv, Aside, IsReplacing
  <2>4. WindowInv(layer', player', task'[s], live.timeline, s)
    BY <2>2 DEF WindowInv
  <2>5. task'[s].pc \in UpdatePcs \ {"queued"}
    BY <2>2 DEF UpdatePcs
  <2>6. QED
    BY <1>1, <2>2, <2>3, <2>4, <2>5, HeadStep
<1>9. QED
  BY <1>3, <1>7, <1>8

LEMMA SwapsKeep ==
  ASSUME SiteInv, CallsInv, HistoryInv, NEW s \in Session, NEW uploads,
         swaps(s, Owns(s), uploads), UNCHANGED <<live, poll>>
  PROVE  CallsInv' /\ HistoryInv'
<1> DEFINE selected == SelectionAfter(task[s])
           heard == [layer EXCEPT !.told[s] = Nothing]
           swapped == [player EXCEPT !.frames = task[s].frames,
                                     !.lastReceipt = IF task[s].appends THEN @ ELSE None]
           l == Swapped(s, heard, selected)
<1>1. /\ s \in Task /\ PlayerInv(player) /\ TasksInv(task, player.wantsPlaying)
      /\ DOMAIN task[s] = TaskFields /\ DOMAIN task = Task
      /\ task[s].pc \in {"held", "recovering"} /\ task[s].awaits = None
      /\ s = Head(player.replacements)
      /\ task[s].appends \/ \E scan \in Scan : task[s].frames = {scan}
      /\ task[s].frames \subseteq Scan
      /\ \A u \in Task : Goes(task[u], task[u])
  BY TasksAreDistinct, IsFirst DEF SiteInv, TasksInv, TaskInv, swaps, CallsInv, QueueInv, Goes
<1>2. player.operation # s /\ \A u \in Task : task[u].awaits # s
  BY <1>1, NobodyAwaits DEF PaintPcs
<1>3. /\ LayerInv(heard) /\ RendererInv(heard) /\ DOMAIN heard = LayerFields
      /\ Clean(heard, s) /\ Others(layer, heard, s) /\ Aside(heard, layer, s)
      /\ LooksLike(heard, layer)
  <2>1. layer.told[s] # Nothing \/ task[s].pc \notin CallPcs
    BY DEF swaps, CallPcs, PaintPcs
  <2>2. QED
    BY <1>1, <2>1, Hears
<1>4. ~live.removed =>
        /\ player.frames = live.timeline /\ layer.models = live.timeline /\ ~IsReplacing(layer)
        /\ task[s].previous = live.timeline
  BY <1>1, Undisturbed DEF WindowInv
<1>5. \/ Fails(s) /\ layer' = heard /\ UNCHANGED player
      \/ /\ MaySwap(s, selected) /\ layer.phase = "ready"
         /\ \/ Restores(s, l, swapped, task)
            \/ /\ layer' = waitForPaint(l, s) /\ player' = [swapped EXCEPT !.operation = s]
               /\ task' = [task EXCEPT ![s].pc = "painting", ![s].native = FALSE]
  <2>1. task[s].pc = "recovering" /\ layer.told[s] \notin {Nothing, Failed} => layer.phase = "ready"
    BY <1>1 DEF CallsInv, WaitsInv, WaitInv
  <2>2. QED
    BY <2>1 DEF swaps
<1> HIDE DEF heard
<1>6. CASE Fails(s) /\ layer' = heard /\ UNCHANGED player
  <2>1. /\ task'[s].pc = "failed" /\ task'[s].awaits = None /\ task'[s].frames = task[s].frames
        /\ \A u \in Task \ {s} : task'[u] = task[u]
    BY <1>1, <1>6 DEF Fails, TaskFields
  <2>2. WaitInv(heard, s, "failed")
    BY <1>3, CleanWait DEF PaintPcs
  <2>3. Acts(s)
    BY <1>1, <1>2, <1>3, <1>6, <2>1, <2>2, TasksAreDistinct DEF Acts
  <2>4. ~live.removed => /\ layer'.models = live.timeline /\ player'.frames = live.timeline
                         /\ ~IsReplacing(layer')
    BY <1>3, <1>4, <1>6 DEF Aside, IsReplacing
  <2>5. WindowInv(layer', player', task'[s], live.timeline, s)
    BY <2>1 DEF WindowInv
  <2>6. task'[s].pc \in UpdatePcs \ {"queued"}
    BY <2>1 DEF UpdatePcs
  <2>7. QED
    BY <1>1, <1>6, <2>1, <2>3, <2>4, <2>5, <2>6, HeadStep
<1>7. ASSUME MaySwap(s, selected), layer.phase = "ready"
      PROVE  /\ LayerInv(l) /\ RendererInv(l) /\ DOMAIN l = LayerFields
             /\ IsPainted(l) \/ l.repaint
             /\ IsReplacing(l) /\ l.models = task[s].frames
             /\ l.replacement.models = layer.models
             /\ Clean(l, s) /\ Others(layer, l, s)
  <2>1. MayReplace(layer) /\ (task[s].appends => selected \in task[s].frames)
    BY <1>7 DEF MaySwap, MayUpdate
  <2>2. MayReplace(heard) /\ heard.phase = "ready" /\ heard.models = layer.models
    BY <1>3, <1>7, <2>1 DEF MayReplace, IsPainted, IsReplacing, LooksLike, Aside
  <2> HIDE DEF selected
  <2>3. /\ RendererInv(l) /\ DOMAIN l = LayerFields
        /\ IsPainted(l) \/ l.repaint
        /\ IsReplacing(l) /\ l.models = task[s].frames /\ l.replacement.models = heard.models
        /\ l.told = heard.told /\ l.paintWaiter = heard.paintWaiter
        /\ l.recoveryWaiters = heard.recoveryWaiters /\ l.phase = heard.phase
    BY <1>1, <1>3, <2>1, <2>2, SwappedKeeps
  <2>4. LayerInv(l)
    BY <1>1, <1>3, <2>1, <2>2, SwappedInv
  <2> HIDE DEF l
  <2>5. Clean(l, s) /\ Others(layer, l, s)
    BY <1>3, <2>3 DEF Clean, Others, WaitInv
  <2>6. QED
    BY <2>2, <2>3, <2>4, <2>5
<1>8. /\ PlayerInv(swapped) /\ swapped.frames = task[s].frames
      /\ swapped.replacements = player.replacements
  BY <1>1 DEF PlayerInv, PlayerFields
<1> HIDE DEF l, selected, swapped
<1>9. CASE MaySwap(s, selected) /\ layer.phase = "ready" /\ Restores(s, l, swapped, task)
  <2>1. /\ Acts(s) /\ player'.frames = task[s].previous
        /\ player'.replacements = player.replacements
        /\ task'[s].pc = "restoring" /\ task'[s].frames = task[s].frames
        /\ ~IsReplacing(layer') /\ layer'.models = layer.models
    BY <1>1, <1>7, <1>8, <1>9, RestoresActs
  <2>2. WindowInv(layer', player', task'[s], live.timeline, s)
    BY <2>1 DEF WindowInv
  <2>3. task'[s].pc \in UpdatePcs \ {"queued"}
    BY <2>1 DEF UpdatePcs
  <2>4. QED
    BY <1>1, <1>4, <2>1, <2>2, <2>3, HeadStep
<1>10. CASE /\ MaySwap(s, selected) /\ layer.phase = "ready"
            /\ layer' = waitForPaint(l, s) /\ player' = [swapped EXCEPT !.operation = s]
            /\ task' = [task EXCEPT ![s].pc = "painting", ![s].native = FALSE]
  <2>1. /\ task'[s].pc = "painting" /\ task'[s].awaits = None
        /\ task'[s].frames = task[s].frames /\ task'[s].previous = task[s].previous
        /\ \A u \in Task \ {s} : task'[u] = task[u]
    BY <1>1, <1>10 DEF TaskFields
  <2>2. /\ player'.operation = s /\ player'.frames = task[s].frames
        /\ player'.replacements = player.replacements
    BY <1>8, <1>10 DEF PlayerInv, PlayerFields
  <2>3. /\ RendererInv(layer') /\ Others(l, layer', s) /\ Aside(layer', l, s)
        /\ WaitInv(layer', s, "painting")
    BY <1>1, <1>7, <1>10, WaitsForPaint DEF PaintPcs
  <2>4. Acts(s)
    BY <1>1, <1>7, <1>10, <2>1, <2>2, <2>3 DEF Acts, Others, PaintPcs
  <2>5. ~live.removed => WindowInv(layer', player', task'[s], live.timeline, s)
    BY <1>4, <1>7, <1>10, <2>1, <2>2, <2>3 DEF WindowInv, Aside, IsReplacing
  <2>6. task'[s].pc \in UpdatePcs \ {"queued"}
    BY <2>1 DEF UpdatePcs
  <2>7. QED
    BY <1>1, <2>1, <2>2, <2>4, <2>5, <2>6, HeadStep
<1>11. QED
  BY <1>5, <1>6, <1>9, <1>10

-----------------------------------------------------------------------------
(* The queue of the updates.                                                *)

NextWaits(polls, s, q) == [polls EXCEPT ![s] = q]

LEMMA QueueStays ==
  ASSUME NEW r, NEW tasks, NEW polls, QueueInv(r, tasks, polls), NEW s \in Session,
         polls[s].pc # "updating", NEW q, DOMAIN q = PollFields, q.pc # "updating",
         q.scan = None
  PROVE  QueueInv(r, tasks, NextWaits(polls, s, q))
<1> DEFINE after == NextWaits(polls, s, q)
<1>1. DOMAIN after = Session /\ \A u \in Session : after[u] = IF u = s THEN q ELSE polls[u]
  BY DEF QueueInv, NextWaits
<1> HIDE DEF after
<1>2. QueueInv(r, tasks, after)
  BY <1>1 DEF QueueInv
<1>3. QED
  BY <1>2 DEF after

LEMMA QueueGrows ==
  ASSUME NEW r, NEW tasks, DOMAIN tasks = Task, NEW polls, QueueInv(r, tasks, polls),
         NEW s \in Session, polls[s].pc # "updating",
         NEW q, DOMAIN q = PollFields, q.pc = "updating",
         NEW k, k.pc = "queued", k.frames \subseteq Scan
  PROVE  QueueInv(Append(r, s), [tasks EXCEPT ![s] = k], NextWaits(polls, s, q))
<1> DEFINE after == NextWaits(polls, s, q)
           next == [tasks EXCEPT ![s] = k]
           line == Append(r, s)
<1>1. DOMAIN after = Session /\ \A u \in Session : after[u] = IF u = s THEN q ELSE polls[u]
  BY DEF QueueInv, NextWaits
<1>2. \A u \in Session : next[u] = IF u = s THEN k ELSE tasks[u]
  BY TasksAreDistinct
<1>3. r \in Seq(Session) /\ ~Waits(r, s)
  BY DEF QueueInv
<1>4. /\ line \in Seq(Session) /\ Len(line) = Len(r) + 1
      /\ line[Len(r) + 1] = s /\ \A i \in 1 .. Len(r) : line[i] = r[i]
      /\ Head(line) = IF Len(r) = 0 THEN s ELSE Head(r)
  BY <1>3
<1>5. Len(r) \in Nat
  BY <1>3
<1> HIDE DEF after, next, line
<1>6. \A u \in Session : Waits(line, u) <=> Waits(r, u) \/ u = s
  <2>1. ASSUME NEW u \in Session, Waits(line, u)
        PROVE  Waits(r, u) \/ u = s
    BY <1>4, <1>5, <2>1 DEF Waits
  <2>2. ASSUME NEW u \in Session, Waits(r, u)
        PROVE  Waits(line, u)
    BY <1>4, <1>5, <2>2 DEF Waits
  <2>3. Waits(line, s)
    BY <1>4, <1>5 DEF Waits
  <2>4. QED
    BY <2>1, <2>2, <2>3
<1>7. \A i, j \in 1 .. Len(line) : line[i] = line[j] => i = j
  <2>1. \A i \in 1 .. Len(r) : r[i] # s
    BY <1>3 DEF Waits
  <2>2. \A i, j \in 1 .. Len(r) : r[i] = r[j] => i = j
    BY DEF QueueInv
  <2>3. QED
    BY <1>4, <1>5, <2>1, <2>2
<1>8. ASSUME NEW u \in Session
      PROVE  /\ DOMAIN after[u] = PollFields
             /\ after[u].pc # "updating" => after[u].scan = None
             /\ Waits(line, u) <=> after[u].pc = "updating"
             /\ next[u].pc \in (IF Waits(line, u) THEN UpdatePcs ELSE {"idle"})
             /\ next[u].pc \notin {"idle", "queued"} => u = Head(line)
             /\ next[u].frames \subseteq Scan
  <2>1. CASE u = s
    BY <1>1, <1>2, <1>6, <2>1 DEF UpdatePcs
  <2>2. CASE u # s
    <3>1. /\ DOMAIN polls[u] = PollFields
          /\ polls[u].pc # "updating" => polls[u].scan = None
          /\ Waits(r, u) <=> polls[u].pc = "updating"
          /\ tasks[u].pc \in (IF Waits(r, u) THEN UpdatePcs ELSE {"idle"})
          /\ tasks[u].pc \notin {"idle", "queued"} => u = Head(r)
          /\ tasks[u].frames \subseteq Scan
      BY DEF QueueInv
    <3>2. tasks[u].pc # "idle" => Len(r) # 0
      BY <3>1 DEF Waits
    <3>3. QED
      BY <1>1, <1>2, <1>4, <1>6, <2>2, <3>1, <3>2
  <2>3. QED
    BY <2>1, <2>2
<1>9. QueueInv(line, next, after)
  BY <1>1, <1>4, <1>7, <1>8 DEF QueueInv
<1>10. QED
  BY <1>9 DEF line, next, after

LEMMA QueueShrinks ==
  ASSUME NEW r, NEW tasks, DOMAIN tasks = Task, NEW polls, QueueInv(r, tasks, polls),
         NEW s \in Session, Waits(r, s), s = Head(r),
         NEW q, DOMAIN q = PollFields, q.pc # "updating", q.scan = None,
         NEW k, k.pc = "idle", k.frames = {}
  PROVE  /\ QueueInv(Tail(r), [tasks EXCEPT ![s] = k], NextWaits(polls, s, q))
         /\ \A u \in Session \ {s} :
              Waits(r, u) /\ u = r[Len(r)] => u = Tail(r)[Len(Tail(r))]
<1> DEFINE after == NextWaits(polls, s, q)
           next == [tasks EXCEPT ![s] = k]
           line == Tail(r)
<1>1. DOMAIN after = Session /\ \A u \in Session : after[u] = IF u = s THEN q ELSE polls[u]
  BY DEF QueueInv, NextWaits
<1>2. \A u \in Session : next[u] = IF u = s THEN k ELSE tasks[u]
  BY TasksAreDistinct
<1>3. r \in Seq(Session) /\ r # <<>> /\ r[1] = s /\ Len(r) \in Nat /\ Len(r) >= 1
  BY DEF QueueInv, Waits
<1>4. /\ line \in Seq(Session) /\ Len(line) = Len(r) - 1
      /\ \A i \in 1 .. Len(line) : line[i] = r[i + 1]
  BY <1>3
<1>5. \A i, j \in 1 .. Len(r) : r[i] = r[j] => i = j
  BY DEF QueueInv
<1> HIDE DEF after, next, line
<1>6. ~Waits(line, s)
  BY <1>3, <1>4, <1>5 DEF Waits
<1>7. ASSUME NEW u \in Session \ {s}
      PROVE  /\ Waits(line, u) <=> Waits(r, u)
             /\ Waits(r, u) /\ u = r[Len(r)] => u = line[Len(line)]
  <2>1. Waits(line, u) => Waits(r, u)
    BY <1>3, <1>4 DEF Waits
  <2>2. ASSUME NEW i \in 1 .. Len(r), r[i] = u
        PROVE  i - 1 \in 1 .. Len(line) /\ line[i - 1] = u
    <3>1. i # 1
      BY <1>3, <1>7, <2>2
    <3>2. i - 1 \in 1 .. Len(line) /\ (i - 1) + 1 = i
      BY <1>3, <1>4, <3>1
    <3>3. QED
      BY <1>4, <2>2, <3>2
  <2>3. Waits(r, u) => Waits(line, u)
    BY <2>2 DEF Waits
  <2>4. u = r[Len(r)] => u = line[Len(line)]
    BY <1>3, <1>4, <2>2
  <2>5. QED
    BY <2>1, <2>3, <2>4
<1>8. \A i, j \in 1 .. Len(line) : line[i] = line[j] => i = j
  <2>1. ASSUME NEW i \in 1 .. Len(line), NEW j \in 1 .. Len(line), line[i] = line[j]
        PROVE  i = j
    <3>1. i + 1 \in 1 .. Len(r) /\ j + 1 \in 1 .. Len(r) /\ r[i + 1] = r[j + 1]
      BY <1>3, <1>4, <2>1
    <3>2. i + 1 = j + 1
      BY <1>5, <3>1
    <3>3. QED
      BY <3>2
  <2>2. QED
    BY <2>1
<1>9. ASSUME NEW u \in Session
      PROVE  /\ DOMAIN after[u] = PollFields
             /\ after[u].pc # "updating" => after[u].scan = None
             /\ Waits(line, u) <=> after[u].pc = "updating"
             /\ next[u].pc \in (IF Waits(line, u) THEN UpdatePcs ELSE {"idle"})
             /\ next[u].pc \notin {"idle", "queued"} => u = Head(line)
             /\ next[u].frames \subseteq Scan
  <2>1. CASE u = s
    BY <1>1, <1>2, <1>6, <2>1
  <2>2. CASE u # s
    <3>1. /\ DOMAIN polls[u] = PollFields
          /\ polls[u].pc # "updating" => polls[u].scan = None
          /\ Waits(r, u) <=> polls[u].pc = "updating"
          /\ tasks[u].pc \in (IF Waits(r, u) THEN UpdatePcs ELSE {"idle"})
          /\ tasks[u].pc \notin {"idle", "queued"} => u = Head(r)
          /\ tasks[u].frames \subseteq Scan
      BY DEF QueueInv
    <3>2. QED
      BY <1>1, <1>2, <1>7, <2>2, <3>1
  <2>3. QED
    BY <2>1, <2>2
<1>10. QueueInv(line, next, after)
  BY <1>1, <1>4, <1>8, <1>9 DEF QueueInv
<1>11. QED
  BY <1>7, <1>10 DEF line, next, after

-----------------------------------------------------------------------------
(* The loops of the sessions.                                               *)

Going(q) == q.pc \in {"backfilling", "probing", "polling"}

Quiet(q) == DOMAIN q = PollFields /\ q.pc # "updating" /\ q.scan = None

(* The loop of s does no update now, and goes on if it is current.          *)
PollsOn(s, session) ==
  \E q : poll' = NextWaits(poll, s, q) /\ Quiet(q) /\ (Going(q) => session = s)

SameOwner(m, l) ==
  /\ DOMAIN m = LiveFields /\ m.generation = l.generation /\ m.session = l.session
  /\ m.carry = l.carry /\ m.removed = l.removed

LEMMA LoopsOn ==
  ASSUME NEW s \in Session, NEW pc, pc # "updating", NEW attempt, LoopsTo(s, pc, attempt)
  PROVE  PollsOn(s, live.session)
<1> DEFINE on == [NoPoll EXCEPT !.pc = pc, !.attempt = attempt]
<1>1. Quiet(on) /\ Quiet(NoPoll) /\ NoPoll.pc = "idle"
  BY DEF Quiet, NoPoll, PollFields
<1>2. \/ live.session = s /\ poll' = [poll EXCEPT ![s] = on]
      \/ poll' = [poll EXCEPT ![s] = NoPoll]
  BY DEF LoopsTo, IsCurrent
<1> HIDE DEF on
<1>3. CASE live.session = s /\ poll' = [poll EXCEPT ![s] = on]
  BY <1>1, <1>3 DEF PollsOn, NextWaits
<1>4. CASE poll' = [poll EXCEPT ![s] = NoPoll]
  BY <1>1, <1>4 DEF PollsOn, NextWaits, Going
<1>5. QED
  BY <1>2, <1>3, <1>4

LEMMA FailsOn ==
  ASSUME NEW s \in Session, acquireFails(s), DOMAIN live = LiveFields
  PROVE  /\ PollsOn(s, live.session) /\ SameOwner(live', live)
         /\ live'.history = live.history /\ live'.timeline = live.timeline
         /\ live'.modelsById = live.modelsById \ StagedBy(poll[s])
<1>1. \/ poll' = [poll EXCEPT ![s] = NoPoll]
      \/ \E pc \in {"backfilling", "retrying", "polling"} : \E attempt : LoopsTo(s, pc, attempt)
  BY DEF acquireFails
<1>2. PollsOn(s, live.session)
  <2>1. CASE poll' = [poll EXCEPT ![s] = NoPoll]
    <3>1. Quiet(NoPoll) /\ NoPoll.pc = "idle"
      BY DEF Quiet, NoPoll, PollFields
    <3>2. QED
      BY <2>1, <3>1 DEF PollsOn, NextWaits, Going
  <2>2. QED
    BY <1>1, <2>1, LoopsOn
<1>3. /\ SameOwner(live', live)
      /\ live'.history = live.history /\ live'.timeline = live.timeline
      /\ live'.modelsById = live.modelsById \ StagedBy(poll[s])
  <2>1. PICK display, status, applies :
          live' = [live EXCEPT !.modelsById = @ \ StagedBy(poll[s]), !.display = display,
                               !.status = status, !.applies = applies]
    BY DEF acquireFails
  <2>2. QED
    BY <2>1 DEF SameOwner, LiveFields
<1>4. QED
  BY <1>2, <1>3

LEMMA AcquiresOn ==
  ASSUME NEW s \in Session, NEW history, acquired(s, history), DOMAIN live = LiveFields
  PROVE  /\ PollsOn(s, live.session) /\ SameOwner(live', live)
         /\ live'.history = history /\ live'.timeline = history /\ live'.modelsById = history
<1>1. \E pc \in {"backfilling", "probing", "polling"} : \E attempt : LoopsTo(s, pc, attempt)
  BY DEF acquired
<1>2. PICK display, status, applies :
        live' = [live EXCEPT !.history = history, !.modelsById = history,
                             !.timeline = history, !.status = status,
                             !.applies = applies, !.display = display]
  BY DEF acquired
<1>3. SameOwner(live', live) /\ live'.history = history /\ live'.timeline = history
      /\ live'.modelsById = history
  BY <1>2 DEF SameOwner, LiveFields
<1>4. QED
  BY <1>1, <1>3, LoopsOn

(* A step of one session that leaves the loop and its updates alone.        *)
LEMMA PollingKeeps ==
  ASSUME CallsInv, HistoryInv, UNCHANGED <<layer, player, task>>,
         NEW s \in Session, poll[s].pc # "updating", PollsOn(s, live'.session),
         DOMAIN live' = LiveFields, live'.carry = live.carry, live'.removed = live.removed,
         live'.session = live.session \/ (live.session = None /\ live'.session = s),
         live'.generation = live.generation
           \/ (live'.generation = s /\ live'.session = s),
         live'.history = live.history,
         \/ live'.modelsById = live.modelsById /\ live'.timeline = live.timeline
         \/ /\ live.history # {}
            /\ live'.modelsById = live.history /\ live'.timeline = live.history
  PROVE  CallsInv' /\ HistoryInv'
<1>1. PICK q : poll' = NextWaits(poll, s, q) /\ Quiet(q) /\ (Going(q) => live'.session = s)
  BY DEF PollsOn
<1>2. /\ DOMAIN poll = Session /\ poll[s].scan = None /\ task[s].pc = "idle"
  BY DEF CallsInv, QueueInv
<1>3. \A u \in Session : poll'[u] = IF u = s THEN q ELSE poll[u]
  BY <1>1, <1>2 DEF NextWaits
<1>4. CallsInv'
  <2>1. QueueInv(player.replacements, task, poll')
    BY <1>1, QueueStays DEF CallsInv, Quiet
  <2>2. QED
    BY <2>1 DEF CallsInv, CarryInv
<1>5. HistoryInv'
  <2> SUFFICES ASSUME ~live'.removed
               PROVE  /\ OwnerInv(live', player.replacements, task, poll')
                      /\ FramesInv(layer, player, task, live'.timeline)
                      /\ StoredInv(live', poll')
    BY DEF HistoryInv
  <2>1. /\ OwnerInv(live, player.replacements, task, poll)
        /\ FramesInv(layer, player, task, live.timeline)
        /\ StoredInv(live, poll)
    BY DEF HistoryInv
  <2>2. live'.timeline = live.timeline
    BY <2>1 DEF StoredInv
  <2>3. OwnerInv(live', player.replacements, task, poll')
    <3>1. live'.generation = None \/ live'.generation = live'.session
      BY <2>1 DEF OwnerInv
    <3>2. ASSUME NEW u \in Session
          PROVE  /\ Going(poll'[u]) => live'.session = u
                 /\ poll'[u].pc = "updating" /\ live'.generation = u
                      => u = player.replacements[Len(player.replacements)]
                 /\ task[u].pc = "done" => live'.generation = u
      <4>1. u # None /\ s # None
        BY TasksAreDistinct
      <4>2. /\ Going(poll[u]) => live.session = u
            /\ poll[u].pc = "updating" /\ live.generation = u
                 => u = player.replacements[Len(player.replacements)]
            /\ task[u].pc = "done" => live.generation = u
        BY <2>1 DEF OwnerInv, Going
      <4>3. Going(poll'[u]) => live'.session = u
        BY <1>1, <1>3, <4>1, <4>2
      <4>4. poll'[u].pc = "updating" /\ live'.generation = u
              => u = player.replacements[Len(player.replacements)]
        BY <1>1, <1>3, <4>2 DEF Quiet
      <4>5. task[u].pc = "done" => live'.generation = u
        BY <1>2, <2>1, <4>1, <4>2 DEF OwnerInv
      <4>6. QED
        BY <4>3, <4>4, <4>5
    <3>3. QED
      BY <3>1, <3>2 DEF OwnerInv, Going
  <2>4. StoredInv(live', poll')
    <3>1. StagedBy(poll[s]) = {} /\ StagedBy(q) = {}
      BY <1>1, <1>2 DEF StagedBy, Quiet
    <3>2. \A u \in Session : StagedBy(poll'[u]) = StagedBy(poll[u])
      BY <1>3, <3>1
    <3>3. CASE live'.modelsById = live.modelsById
      BY <2>1, <2>2, <3>2, <3>3 DEF StoredInv
    <3>4. CASE live'.modelsById = live'.timeline
      BY <2>1, <2>2, <3>2, <3>4 DEF StoredInv
    <3>5. QED
      BY <3>3, <3>4
  <2>5. QED
    BY <2>1, <2>2, <2>3, <2>4
<1>6. QED
  BY <1>4, <1>5

LEMMA SessionsKeep ==
  ASSUME CallsInv, HistoryInv, NEW s \in Session,
         \/ runLiveBackfill(s) \/ runLivePolling(s) \/ FetchFails(s) \/ retries(s)
         \/ startLiveSession(s) \/ continueLiveBackfillAndPolling(s)
  PROVE  CallsInv' /\ HistoryInv'
<1>1. DOMAIN live = LiveFields
  BY DEF CallsInv
<1>2. ASSUME NEW purpose, NEW attempt, Acquires(s, purpose, attempt), live.session = s,
             poll[s].pc # "updating", UNCHANGED <<layer, player, task>>
      PROVE  CallsInv' /\ HistoryInv'
  <2> DEFINE q == [NoPoll EXCEPT !.pc = "fetching", !.purpose = purpose, !.attempt = attempt]
  <2>1. Quiet(q) /\ q.pc = "fetching"
    BY DEF Quiet, NoPoll, PollFields
  <2>2. poll' = NextWaits(poll, s, q)
    BY <1>2 DEF Acquires, NextWaits
  <2>3. PICK display : live' = [live EXCEPT !.generation = s, !.display = display]
    BY <1>2 DEF Acquires
  <2> HIDE DEF q
  <2>4. PollsOn(s, live'.session)
    BY <2>1, <2>2 DEF PollsOn, Going
  <2>5. /\ DOMAIN live' = LiveFields /\ live'.carry = live.carry
        /\ live'.removed = live.removed /\ live'.session = live.session
        /\ live'.generation = s /\ live'.history = live.history
        /\ live'.modelsById = live.modelsById /\ live'.timeline = live.timeline
    BY <1>1, <2>3 DEF LiveFields
  <2>6. QED
    BY <1>2, <2>4, <2>5, PollingKeeps
<1>3. ASSUME NEW pc \in {"idle", "polling"}, LoopsTo(s, pc, 1), poll[s].pc # "updating",
             UNCHANGED <<layer, player, task>>,
             \/ UNCHANGED live
             \/ live' = [live EXCEPT !.status = "full", !.applies = "complete"]
      PROVE  CallsInv' /\ HistoryInv'
  <2>1. PollsOn(s, live.session)
    BY <1>3, LoopsOn
  <2>2. /\ DOMAIN live' = LiveFields /\ live'.carry = live.carry
        /\ live'.removed = live.removed /\ live'.session = live.session
        /\ live'.generation = live.generation /\ live'.history = live.history
        /\ live'.modelsById = live.modelsById /\ live'.timeline = live.timeline
    BY <1>1, <1>3 DEF LiveFields
  <2>3. QED
    BY <1>3, <2>1, <2>2, PollingKeeps
<1>4. CASE runLiveBackfill(s) \/ runLivePolling(s) \/ retries(s)
  <2>1. poll[s].pc # "updating" /\ UNCHANGED <<layer, player, task>>
    BY <1>4 DEF runLiveBackfill, runLivePolling, retries, site
  <2>2. \/ live.session = s /\ \E purpose, attempt : Acquires(s, purpose, attempt)
        \/ \E pc \in {"idle", "polling"} :
             /\ LoopsTo(s, pc, 1)
             /\ \/ UNCHANGED live
                \/ live' = [live EXCEPT !.status = "full", !.applies = "complete"]
    BY <1>4 DEF runLiveBackfill, runLivePolling, retries, IsCurrent
  <2>3. QED
    BY <1>2, <1>3, <2>1, <2>2
<1>5. CASE FetchFails(s)
  <2>1. poll[s].pc = "fetching" /\ acquireFails(s) /\ UNCHANGED <<layer, player, task>>
    BY <1>5 DEF FetchFails, fetchFails, site
  <2>2. StagedBy(poll[s]) = {}
    BY <2>1 DEF CallsInv, QueueInv, StagedBy
  <2>3. /\ PollsOn(s, live.session) /\ SameOwner(live', live)
        /\ live'.history = live.history /\ live'.timeline = live.timeline
        /\ live'.modelsById = live.modelsById
    BY <1>1, <2>1, <2>2, FailsOn
  <2>4. QED
    BY <2>1, <2>3, PollingKeeps DEF SameOwner
<1>6. ASSUME NEW q, Quiet(q), q.pc # "updating", poll' = NextWaits(poll, s, q),
             live.session = None, poll[s].pc = "idle", UNCHANGED <<layer, player, task>>,
             DOMAIN live' = LiveFields, live'.carry = live.carry,
             live'.removed = live.removed, live'.session = s,
             live'.generation \in {s, live.generation}, live'.history = live.history,
             live'.modelsById = live.modelsById, live'.timeline = live.timeline
      PROVE  CallsInv' /\ HistoryInv'
  <2>1. PollsOn(s, live'.session)
    BY <1>6 DEF PollsOn
  <2>2. QED
    BY <1>6, <2>1, PollingKeeps
<1>7. CASE startLiveSession(s)
  <2> DEFINE q == [NoPoll EXCEPT !.pc = "fetching", !.purpose = "start"]
             shown == [kind |-> "acquiring", by |-> s]
  <2>1. Quiet(q) /\ q.pc # "updating"
    BY DEF Quiet, NoPoll, PollFields
  <2>2. /\ poll' = NextWaits(poll, s, q) /\ live.session = None /\ poll[s].pc = "idle"
        /\ UNCHANGED <<layer, player, task>>
    BY <1>7 DEF startLiveSession, NextWaits, site
  <2>3. live' = [live EXCEPT !.session = s, !.generation = s, !.status = "none",
                             !.display = shown]
    BY <1>7 DEF startLiveSession
  <2> HIDE DEF q, shown
  <2>4. /\ DOMAIN live' = LiveFields /\ live'.carry = live.carry
        /\ live'.removed = live.removed /\ live'.session = s
        /\ live'.generation = s /\ live'.history = live.history
        /\ live'.modelsById = live.modelsById /\ live'.timeline = live.timeline
    BY <1>1, <2>3 DEF LiveFields
  <2>5. QED
    BY <1>6, <2>1, <2>2, <2>4
<1>8. CASE continueLiveBackfillAndPolling(s)
  <2> DEFINE q == [NoPoll EXCEPT !.pc = "backfilling"]
  <2>1. Quiet(q) /\ q.pc # "updating"
    BY DEF Quiet, NoPoll, PollFields
  <2>2. /\ poll' = NextWaits(poll, s, q) /\ live.session = None /\ poll[s].pc = "idle"
        /\ UNCHANGED <<layer, player, task>> /\ live' = [live EXCEPT !.session = s]
    BY <1>8 DEF continueLiveBackfillAndPolling, NextWaits, site
  <2> HIDE DEF q
  <2>3. /\ DOMAIN live' = LiveFields /\ live'.carry = live.carry
        /\ live'.removed = live.removed /\ live'.session = s
        /\ live'.generation = live.generation /\ live'.history = live.history
        /\ live'.modelsById = live.modelsById /\ live'.timeline = live.timeline
    BY <1>1, <2>2 DEF LiveFields
  <2>4. QED
    BY <1>6, <2>1, <2>2, <2>3
<1>9. QED
  BY <1>4, <1>5, <1>7, <1>8

LEMMA AnotherSourceKeeps ==
  ASSUME CallsInv, HistoryInv, anotherSourceBegins
  PROVE  CallsInv' /\ HistoryInv'
<1>1. /\ UNCHANGED <<layer, player, task, poll>>
      /\ live' = [live EXCEPT !.session = None, !.generation = None]
      /\ \A s \in Session : poll[s].pc \notin {"backfilling", "probing", "polling"}
      /\ \A t \in Task : task[t].pc # "done"
  BY DEF anotherSourceBegins, Requested, Settled, Runnable, site
<1>2. /\ DOMAIN live' = LiveFields /\ live'.carry = live.carry
      /\ live'.removed = live.removed /\ live'.session = None
      /\ live'.generation = None /\ live'.history = live.history
      /\ live'.modelsById = live.modelsById /\ live'.timeline = live.timeline
  BY <1>1 DEF CallsInv, LiveFields
<1>3. CallsInv'
  BY <1>1, <1>2 DEF CallsInv, CarryInv
<1>4. HistoryInv'
  <2>1. ~live.removed => OwnerInv(live', player.replacements, task, poll)
    BY <1>1, <1>2, TasksAreDistinct DEF OwnerInv
  <2>2. QED
    BY <1>1, <1>2, <2>1 DEF HistoryInv, StoredInv
<1>5. QED
  BY <1>3, <1>4

-----------------------------------------------------------------------------
(* A scan arrives, and the controller's update of the history returns.      *)

LEMMA ScansGiven ==
  ASSUME live.history \subseteq Scan, NEW purpose, NEW scan \in MayArrive(purpose)
  PROVE  scan \in Scan /\ scan # None /\ HistoryWith(purpose, scan) \subseteq Scan
<1>1. scan \in Scan /\ scan # None
  BY HistoryAssumption DEF MayArrive
<1>2. appendLiveHistory(live.history, scan) \subseteq Scan
  BY <1>1 DEF appendLiveHistory
<1>3. QED
  BY <1>1, <1>2 DEF HistoryWith

LEMMA ArrivalKeeps ==
  ASSUME SiteInv, CallsInv, HistoryInv, NEW s \in Session, Arrives(s)
  PROVE  CallsInv' /\ HistoryInv'
<1> DEFINE p == poll[s]
<1>1. PICK scan \in MayArrive(p.purpose) : scanArrives(s, scan)
  BY DEF Arrives
<1> DEFINE history == HistoryWith(p.purpose, scan)
           appends == p.purpose # "start"
           known == scan \in live.modelsById
           q == [p EXCEPT !.pc = "updating", !.scan = scan, !.known = known]
           k == [NoTask EXCEPT !.pc = "queued", !.frames = history, !.appends = appends]
<1>2. /\ DOMAIN live = LiveFields /\ live.history \subseteq Scan
      /\ DOMAIN poll = Session /\ DOMAIN poll[s] = PollFields
      /\ poll[s].pc = "fetching" /\ poll[s].scan = None /\ task[s].pc = "idle"
      /\ DOMAIN task = Task
  BY <1>1 DEF CallsInv, QueueInv, scanArrives, SiteInv, TasksInv
<1>3. scan # None /\ history \subseteq Scan
  BY <1>1, <1>2, ScansGiven
<1>4. \/ acquireFails(s) /\ UNCHANGED <<layer, player, task>>
      \/ acquired(s, live.history) /\ live.history # {} /\ UNCHANGED <<layer, player, task>>
      \/ /\ Owns(s) /\ scan \notin live.history /\ UNCHANGED layer
         /\ poll' = NextWaits(poll, s, q)
         /\ live' = [live EXCEPT !.modelsById = @ \cup {scan}]
         /\ player' = [player EXCEPT !.replacements = Append(@, s)]
         /\ task' = [task EXCEPT ![s] = k]
  <2>1. CASE ~Owns(s) \/ (p.purpose = "before" /\ Cardinality(history) > Limit)
    BY <1>1, <2>1 DEF scanArrives
  <2>2. CASE /\ ~(~Owns(s) \/ (p.purpose = "before" /\ Cardinality(history) > Limit))
             /\ scan \in live.history
    BY <1>1, <2>2 DEF scanArrives
  <2>3. CASE /\ ~(~Owns(s) \/ (p.purpose = "before" /\ Cardinality(history) > Limit))
             /\ scan \notin live.history
    BY <1>1, <2>3 DEF scanArrives, updateResidentHistory_queued, NextWaits
  <2>4. QED
    BY <2>1, <2>2, <2>3
<1>5. CASE acquireFails(s) /\ UNCHANGED <<layer, player, task>>
  <2>1. StagedBy(poll[s]) = {}
    BY <1>2 DEF StagedBy
  <2>2. /\ PollsOn(s, live.session) /\ SameOwner(live', live)
        /\ live'.history = live.history /\ live'.timeline = live.timeline
        /\ live'.modelsById = live.modelsById
    BY <1>2, <1>5, <2>1, FailsOn
  <2>3. QED
    BY <1>2, <1>5, <2>2, PollingKeeps DEF SameOwner
<1>6. CASE acquired(s, live.history) /\ live.history # {} /\ UNCHANGED <<layer, player, task>>
  <2>1. /\ PollsOn(s, live.session) /\ SameOwner(live', live)
        /\ live'.history = live.history /\ live'.timeline = live.history
        /\ live'.modelsById = live.history
    BY <1>2, <1>6, AcquiresOn
  <2>2. QED
    BY <1>2, <1>6, <2>1, PollingKeeps DEF SameOwner
<1>7. CASE /\ Owns(s) /\ scan \notin live.history /\ UNCHANGED layer
           /\ poll' = NextWaits(poll, s, q)
           /\ live' = [live EXCEPT !.modelsById = @ \cup {scan}]
           /\ player' = [player EXCEPT !.replacements = Append(@, s)]
           /\ task' = [task EXCEPT ![s] = k]
  <2>1. DOMAIN q = PollFields /\ q.pc = "updating" /\ q.scan = scan /\ q.known = known
    BY <1>2 DEF PollFields
  <2>2. k.pc = "queued" /\ k.frames = history /\ k.awaits = None
    BY DEF NoTask
  <2> HIDE DEF q, k, history
  <2>3. /\ player'.replacements = Append(player.replacements, s)
        /\ player'.operation = player.operation /\ player'.frames = player.frames
    BY <1>7 DEF SiteInv, PlayerInv, PlayerFields
  <2>4. /\ DOMAIN live' = LiveFields /\ live'.carry = live.carry
        /\ live'.removed = live.removed /\ live'.session = live.session
        /\ live'.generation = live.generation /\ live'.history = live.history
        /\ live'.modelsById = live.modelsById \cup {scan} /\ live'.timeline = live.timeline
    BY <1>2, <1>7 DEF LiveFields
  <2>5. /\ \A u \in Task : task'[u] = IF u = s THEN k ELSE task[u]
        /\ \A u \in Session : poll'[u] = IF u = s THEN q ELSE poll[u]
    BY <1>2, <1>7, TasksAreDistinct DEF NextWaits
  <2>6. CallsInv'
    <3>1. QueueInv(Append(player.replacements, s), [task EXCEPT ![s] = k], NextWaits(poll, s, q))
      BY <1>2, <1>3, <2>1, <2>2, QueueGrows DEF CallsInv
    <3>2. QueueInv(player'.replacements, task', poll')
      BY <1>7, <2>3, <3>1
    <3>3. \A u \in Task \ {s} : Goes(task[u], task'[u])
      BY <2>5 DEF Goes
    <3>4. task[s].pc \notin CallPcs /\ task'[s].pc \notin CallPcs /\ task'[s].pc = "queued"
      BY <1>2, <2>2, <2>5, TasksAreDistinct DEF CallPcs, PaintPcs
    <3>5. task'[s].awaits = None
      BY <2>2, <2>5, TasksAreDistinct
    <3>6. Acts(s)
      BY <1>7, <2>3, <3>3, <3>4, <3>5, StandsBy, TasksAreDistinct
    <3>7. CarryInv(live', task')
      BY <2>4, <3>3, CarryGoes, TasksAreDistinct
    <3>8. QED
      BY <1>2, <2>4, <3>2, <3>6, <3>7, ActsKeep, TasksAreDistinct
  <2>7. HistoryInv'
    <3> SUFFICES ASSUME ~live'.removed
                 PROVE  /\ OwnerInv(live', player'.replacements, task', poll')
                        /\ FramesInv(layer, player', task', live'.timeline)
                        /\ StoredInv(live', poll')
      BY <1>7 DEF HistoryInv
    <3>1. /\ OwnerInv(live, player.replacements, task, poll)
          /\ FramesInv(layer, player, task, live.timeline)
          /\ StoredInv(live, poll)
      BY <2>4 DEF HistoryInv
    <3>2. OwnerInv(live', player'.replacements, task', poll')
      <4>1. player.replacements \in Seq(Session)
        BY DEF CallsInv, QueueInv
      <4>2. player'.replacements[Len(player'.replacements)] = s
        BY <2>3, <4>1
      <4>3. ASSUME NEW u \in Session
            PROVE  /\ poll'[u].pc \in {"backfilling", "probing", "polling"}
                        => live'.session = u
                   /\ poll'[u].pc = "updating" /\ live'.generation = u => u = s
                   /\ task'[u].pc = "done" => live'.generation = u
        BY <1>7, <2>1, <2>2, <2>4, <2>5, <3>1, TasksAreDistinct DEF OwnerInv, Owns
      <4>4. live'.generation = None \/ live'.generation = live'.session
        BY <2>4, <3>1 DEF OwnerInv
      <4>5. QED
        BY <4>2, <4>3, <4>4 DEF OwnerInv
    <3>3. FramesInv(layer, player', task', live'.timeline)
      <4>1. \A u \in Session : /\ u # s => task'[u] = task[u]
                               /\ u = s => task'[u].pc = "queued"
        BY <2>2, <2>5, TasksAreDistinct
      <4>2. \A u \in Session : WindowInv(layer, player', task'[u], live'.timeline, u)
        BY <2>3, <2>4, <3>1, <4>1 DEF FramesInv, WindowInv
      <4>3. QED
        BY <1>2, <2>3, <2>4, <3>1, <4>1, <4>2 DEF FramesInv
    <3>4. StoredInv(live', poll')
      <4>1. StagedBy(poll[s]) = {} /\ StagedBy(q) = IF known THEN {} ELSE {scan}
        BY <1>2, <1>3, <2>1 DEF StagedBy
      <4>2. \A u \in Session : StagedBy(poll'[u]) = IF u = s THEN StagedBy(q)
                                                   ELSE StagedBy(poll[u])
        BY <2>5
      <4>3. \A m \in live'.modelsById :
              m \in live'.timeline \/ \E u \in Session : m \in StagedBy(poll'[u])
        BY <2>4, <3>1, <4>1, <4>2 DEF StoredInv
      <4>4. \A u \in Session : StagedBy(poll'[u]) \cap live'.timeline = {}
        BY <2>4, <3>1, <4>1, <4>2 DEF StoredInv
      <4>5. QED
        BY <2>4, <3>1, <4>3, <4>4 DEF StoredInv
    <3>5. QED
      BY <3>2, <3>3, <3>4
  <2>8. QED
    BY <2>6, <2>7
<1>8. QED
  BY <1>4, <1>5, <1>6, <1>7

LEMMA UpdatedKeeps ==
  ASSUME SiteInv, CallsInv, HistoryInv, NEW s \in Session, historyUpdated(s)
  PROVE  CallsInv' /\ HistoryInv'
<1> DEFINE r == player.replacements
           k == task[s]
<1>1. /\ DOMAIN live = LiveFields /\ live.history \subseteq Scan /\ DOMAIN poll = Session
      /\ DOMAIN task = Task /\ r \in Seq(Session)
  BY DEF CallsInv, QueueInv, SiteInv, TasksInv
<1>2. /\ k.pc \in {"done", "failed"} /\ UNCHANGED layer
      /\ player' = [player EXCEPT !.replacements = Tail(@)]
      /\ task' = [task EXCEPT ![s] = NoTask]
      /\ IF k.pc = "done" /\ Owns(s) /\ k.scan \in k.frames
         THEN acquired(s, k.frames) ELSE acquireFails(s)
  BY DEF historyUpdated
<1>3. /\ Waits(r, s) /\ s = Head(r) /\ poll[s].pc = "updating" /\ k.frames \subseteq Scan
      /\ \A u \in Session \ {s} : task[u].pc \in {"idle", "queued"}
  BY <1>2 DEF CallsInv, QueueInv
<1>4. /\ PollsOn(s, live.session) /\ SameOwner(live', live) /\ live'.history \subseteq Scan
      /\ \/ /\ k.pc = "done" /\ Owns(s) /\ k.scan \in k.frames
            /\ live'.history = k.frames /\ live'.timeline = k.frames
            /\ live'.modelsById = k.frames
         \/ /\ ~(k.pc = "done" /\ Owns(s) /\ k.scan \in k.frames)
            /\ live'.history = live.history /\ live'.timeline = live.timeline
            /\ live'.modelsById = live.modelsById \ StagedBy(poll[s])
  BY <1>1, <1>2, <1>3, AcquiresOn, FailsOn
<1>5. PICK q : poll' = NextWaits(poll, s, q) /\ Quiet(q) /\ (Going(q) => live.session = s)
  BY <1>4 DEF PollsOn
<1>6. /\ \A u \in Task : task'[u] = IF u = s THEN NoTask ELSE task[u]
      /\ \A u \in Session : poll'[u] = IF u = s THEN q ELSE poll[u]
      /\ NoTask.pc = "idle" /\ NoTask.frames = {} /\ NoTask.awaits = None
  BY <1>1, <1>2, <1>5, TasksAreDistinct DEF NextWaits, NoTask
<1>7. /\ player'.replacements = Tail(r)
      /\ player'.operation = player.operation /\ player'.frames = player.frames
  BY <1>2 DEF SiteInv, PlayerInv, PlayerFields
<1>8. /\ QueueInv(Tail(r), [task EXCEPT ![s] = NoTask], NextWaits(poll, s, q))
      /\ \A u \in Session \ {s} :
           Waits(r, u) /\ u = r[Len(r)] => u = Tail(r)[Len(Tail(r))]
  BY <1>1, <1>3, <1>5, <1>6, QueueShrinks DEF CallsInv, Quiet
<1>9. CallsInv'
  <2>1. QueueInv(player'.replacements, task', poll')
    BY <1>2, <1>5, <1>7, <1>8
  <2>2. \A u \in Task \ {s} : Goes(task[u], task'[u])
    BY <1>6 DEF Goes
  <2>3. task[s].pc \notin CallPcs /\ task'[s].pc \notin CallPcs /\ task'[s].pc = "idle"
    BY <1>2, <1>6, TasksAreDistinct DEF CallPcs, PaintPcs
  <2>4. task'[s].awaits = None
    BY <1>6, TasksAreDistinct
  <2>5. Acts(s)
    BY <1>2, <1>7, <2>2, <2>3, <2>4, StandsBy, TasksAreDistinct
  <2>6. CarryInv(live', task')
    BY <1>4, <2>2, CarryGoes, TasksAreDistinct DEF SameOwner
  <2>7. QED
    BY <1>4, <2>1, <2>5, <2>6, ActsKeep, TasksAreDistinct DEF SameOwner
<1>10. HistoryInv'
  <2> SUFFICES ASSUME ~live'.removed
               PROVE  /\ OwnerInv(live', player'.replacements, task', poll')
                      /\ FramesInv(layer, player', task', live'.timeline)
                      /\ StoredInv(live', poll')
    BY <1>2 DEF HistoryInv
  <2>1. /\ OwnerInv(live, r, task, poll)
        /\ FramesInv(layer, player, task, live.timeline)
        /\ StoredInv(live, poll)
    BY <1>4 DEF HistoryInv, SameOwner
  <2>2. OwnerInv(live', player'.replacements, task', poll')
    <3>1. ASSUME NEW u \in Session
          PROVE  /\ Going(poll'[u]) => live'.session = u
                 /\ poll'[u].pc = "updating" /\ live'.generation = u
                      => u = Tail(r)[Len(Tail(r))]
                 /\ task'[u].pc = "done" => live'.generation = u
      <4>1. CASE u = s
        BY <1>4, <1>5, <1>6, <4>1, TasksAreDistinct DEF Quiet, SameOwner
      <4>2. CASE u # s
        <5>1. /\ poll'[u] = poll[u] /\ task'[u].pc \in {"idle", "queued"}
          BY <1>3, <1>6, <4>2, TasksAreDistinct
        <5>2. poll[u].pc = "updating" => Waits(r, u)
          BY DEF CallsInv, QueueInv
        <5>3. QED
          BY <1>4, <1>8, <2>1, <4>2, <5>1, <5>2 DEF OwnerInv, SameOwner, Going
      <4>3. QED
        BY <4>1, <4>2
    <3>2. live'.generation = None \/ live'.generation = live'.session
      BY <1>4, <2>1 DEF OwnerInv, SameOwner
    <3>3. QED
      BY <1>7, <3>1, <3>2 DEF OwnerInv, Going
  <2>3. \A u \in Session : task'[u].pc \in {"idle", "queued"}
    BY <1>3, <1>6, TasksAreDistinct
  <2>4. ~IsReplacing(layer)
    BY <1>2, <1>3, <2>1 DEF FramesInv
  <2>5. \A u \in Session : WindowInv(layer, player', task'[u], live'.timeline, u)
    BY <2>3 DEF WindowInv
  <2>6. WindowInv(layer, player, task[s], live.timeline, s)
    BY <2>1 DEF FramesInv
  <2>7. CASE k.pc = "done"
    <3>1. /\ player.frames = k.frames /\ layer.models = k.frames /\ k.scan \in k.frames
          /\ Owns(s)
      BY <2>1, <2>6, <2>7 DEF WindowInv, OwnerInv, Owns
    <3>2. /\ live'.history = k.frames /\ live'.timeline = k.frames
          /\ live'.modelsById = k.frames
      BY <1>4, <2>7, <3>1
    <3>3. FramesInv(layer, player', task', live'.timeline)
      BY <1>7, <2>4, <2>5, <3>1, <3>2 DEF FramesInv
    <3>4. \A u \in Session : poll'[u].pc # "updating"
      <4>1. s = r[Len(r)] /\ s = r[1] /\ Len(r) \in Nat /\ Len(r) >= 1
        <5>1. Len(r) \in Nat /\ Len(r) >= 1
          BY <1>1, <1>3 DEF Waits
        <5>2. s = r[1]
          BY <1>1, <1>3, <5>1
        <5>3. s = r[Len(r)]
          BY <1>3, <2>1, <3>1 DEF OwnerInv, Owns
        <5>4. QED
          BY <5>1, <5>2, <5>3
      <4>2. Len(r) = 1
        <5>1. \A i, j \in 1 .. Len(r) : r[i] = r[j] => i = j
          BY DEF CallsInv, QueueInv
        <5>2. 1 \in 1 .. Len(r) /\ Len(r) \in 1 .. Len(r) /\ r[1] = r[Len(r)]
          BY <4>1
        <5>3. QED
          BY <5>1, <5>2
      <4>3. ASSUME NEW u \in Session \ {s}
            PROVE  ~Waits(r, u)
        BY <4>1, <4>2, <4>3 DEF Waits
      <4>4. QED
        BY <1>5, <1>6, <4>3 DEF CallsInv, QueueInv, Quiet
    <3>5. \A u \in Session : StagedBy(poll'[u]) = {}
      BY <1>9, <3>4 DEF CallsInv, QueueInv, StagedBy
    <3>6. StoredInv(live', poll')
      BY <1>3, <3>2, <3>5 DEF StoredInv
    <3>7. QED
      BY <2>2, <3>3, <3>6
  <2>8. CASE k.pc # "done"
    <3>1. /\ live'.history = live.history /\ live'.timeline = live.timeline
          /\ live'.modelsById = live.modelsById \ StagedBy(poll[s])
      BY <1>4, <2>8
    <3>2. player.frames = live.timeline /\ layer.models = live.timeline
      BY <1>2, <1>3, <2>1, <2>8 DEF FramesInv
    <3>3. FramesInv(layer, player', task', live'.timeline)
      BY <1>7, <2>4, <2>5, <3>1, <3>2 DEF FramesInv
    <3>4. /\ StagedBy(q) = {} /\ \A u \in Session \ {s} : StagedBy(poll'[u]) = StagedBy(poll[u])
      BY <1>5, <1>6 DEF StagedBy, Quiet
    <3>5. \A u \in Session : StagedBy(poll'[u]) \cap live'.timeline = {}
      BY <1>6, <2>1, <3>1, <3>4 DEF StoredInv
    <3>6. \A m \in live'.modelsById :
            m \in live'.timeline \/ \E u \in Session : m \in StagedBy(poll'[u])
      BY <1>6, <2>1, <3>1, <3>4 DEF StoredInv
    <3>7. live'.timeline \subseteq live'.modelsById
      BY <2>1, <3>1 DEF StoredInv
    <3>8. StoredInv(live', poll')
      BY <2>1, <3>1, <3>5, <3>6, <3>7 DEF StoredInv
    <3>9. QED
      BY <2>2, <3>3, <3>8
  <2>9. QED
    BY <2>7, <2>8
<1>11. QED
  BY <1>9, <1>10

-----------------------------------------------------------------------------
(* What the map, the GPU and the clocks do, and the end of the Site.        *)

LEMMA LayerKeeps ==
  ASSUME SiteInv, CallsInv, HistoryInv,
         \/ operatorSetsMode \/ mapRenders \/ contextLost \/ contextRestored
         \/ styleLoaded \/ paintTimesOut \/ recoveryTimesOut
  PROVE  CallsInv' /\ HistoryInv'
<1>1. /\ LayerInv(layer) /\ DOMAIN layer = LayerFields /\ RendererInv(layer)
      /\ LoopInv(layer) /\ DOMAIN layer.told = Task
  BY DEF SiteInv, LayerInv, CallsInv, RendererInv, LoopInv
<1>2. UNCHANGED <<player, task, live, poll>> /\ \A t \in Task : ~Runnable(t)
  BY DEF operatorSetsMode, mapRenders, contextLost, contextRestored, styleLoaded,
     paintTimesOut, recoveryTimesOut, Requested, Settled
<1>3. /\ \A t \in Task : layer.told[t] = Nothing
      /\ \A s \in Session : task[s].pc # "done"
  BY <1>2, TasksAreDistinct DEF Runnable
<1>4. ASSUME RendererInv(layer'), WaitsKept(layer, layer')
      PROVE  CallsInv'
  BY <1>2, <1>4 DEF CallsInv, RendererInv, WaitsInv, WaitsKept
<1>5. ASSUME layer'.models = layer.models, IsReplacing(layer') <=> IsReplacing(layer),
             IsReplacing(layer) => layer'.replacement = layer.replacement
      PROVE  HistoryInv'
  <2> SUFFICES ASSUME ~live.removed, FramesInv(layer, player, task, live.timeline)
               PROVE  FramesInv(layer', player, task, live.timeline)
    BY <1>2 DEF HistoryInv
  <2>1. ASSUME NEW s \in Session
        PROVE  WindowInv(layer', player, task[s], live.timeline, s)
    <3>1. WindowInv(layer, player, task[s], live.timeline, s)
      BY DEF FramesInv
    <3>2. layer.told[s] # Failed
      BY <1>3, ToldOf, TasksAreDistinct
    <3>3. QED
      BY <1>3, <1>5, <3>1, <3>2 DEF WindowInv
  <2>2. QED
    BY <1>5, <2>1 DEF FramesInv
<1>6. ASSUME Fewer(layer', layer), WaitsKept(layer, layer')
      PROVE  CallsInv' /\ HistoryInv'
  <2>1. RendererInv(layer')
    BY <1>1, <1>6, FewerWait DEF RendererInv
  <2>2. layer'.models = layer.models /\ layer'.replacement = layer.replacement
    BY <1>6 DEF Fewer, LooksLike
  <2>3. QED
    BY <1>4, <1>5, <1>6, <2>1, <2>2 DEF IsReplacing
<1>7. CASE operatorSetsMode
  <2>1. PICK mode : layer' = setDisplayMode(layer, mode)
    BY <1>7 DEF operatorSetsMode
  <2>2. RendererInv(layer') /\ WaitsKept(layer, layer') /\ SameLoop(layer', layer)
    BY <1>1, <2>1 DEF setDisplayMode, LayerFields, RendererInv, LoopInv, PaintInv, AskedInv,
       IsReplacing, IsPainted, WaitsKept, WaitInv, SameLoop
  <2>3. QED
    BY <1>4, <1>5, <2>2 DEF SameLoop, IsReplacing
<1>8. CASE mapRenders
  <2>1. PICK answer \in [paint : {"signalled", "waiting", "failed"},
                         loop : {"signalled", "waiting", "failed"}, uploads : BOOLEAN,
                         draw : {"drawn", "refused", "failed"}] :
          layer' = render(layer, answer)
    BY <1>8 DEF mapRenders
  <2>2. RendererInv(layer') /\ SameLoop(layer', layer) /\ WaitsKept(layer, layer')
    BY <1>1, <1>8, <2>1, RenderKeeps DEF mapRenders
  <2>3. QED
    BY <1>4, <1>5, <2>2 DEF SameLoop, IsReplacing
<1>9. CASE contextLost
  <2>1. /\ RendererInv(layer') /\ WaitsKept(layer, layer')
        /\ ~IsReplacing(layer') /\ layer'.phase = "context_lost"
        /\ layer'.models = IF IsReplacing(layer) THEN layer.replacement.models ELSE layer.models
        /\ \A t \in Task : IsReplacing(layer) /\ layer.paintWaiter = t => layer'.told[t] = Failed
    BY <1>1, <1>3, <1>9, LostKeeps DEF contextLost
  <2>2. HistoryInv'
    <3> SUFFICES ASSUME ~live.removed, FramesInv(layer, player, task, live.timeline)
                 PROVE  FramesInv(layer', player, task, live.timeline)
      BY <1>2 DEF HistoryInv
    <3>1. ASSUME NEW s \in Session
          PROVE  WindowInv(layer', player, task[s], live.timeline, s)
      <4>1. WindowInv(layer, player, task[s], live.timeline, s)
        BY DEF FramesInv
      <4>2. layer.told[s] = Nothing /\ Failed # Nothing /\ s \in Task
        BY <1>3, ToldOf, TasksAreDistinct
      <4>3. task[s].pc = "painting" => layer.paintWaiter = s
        BY <4>2 DEF CallsInv, WaitsInv, WaitInv, PaintPcs
      <4>4. QED
        BY <1>3, <2>1, <4>1, <4>2, <4>3 DEF WindowInv
    <3>2. QED
      BY <2>1, <3>1 DEF FramesInv
  <2>3. QED
    BY <1>4, <2>1, <2>2
<1>10. CASE contextRestored
  <2>1. /\ RendererInv(layer') /\ WaitsKept(layer, layer')
        /\ layer'.replacement = layer.replacement /\ layer'.models = layer.models
    BY <1>1, <1>10, RestoredKeeps DEF contextRestored
  <2>2. QED
    BY <1>4, <1>5, <2>1 DEF IsReplacing
<1>11. CASE styleLoaded
  <2>1. PICK uploads \in BOOLEAN : layer' = onAdd(layer, uploads)
    BY <1>11 DEF styleLoaded
  <2>2. /\ RendererInv(layer') /\ WaitsKept(layer, layer')
        /\ IsReplacing(layer) = FALSE /\ IsReplacing(layer') = FALSE
        /\ layer'.models = layer.models
    BY <1>1, <1>11, <2>1, AddedKeeps DEF styleLoaded
  <2>3. QED
    BY <1>4, <1>5, <2>2
<1>12. CASE paintTimesOut
  <2>1. layer' = rejectPaintWaiter(layer)
    BY <1>12 DEF paintTimesOut, paintWaiterExpires
  <2>2. QED
    BY <1>1, <1>6, <2>1, Settling, SettlingKeeps
<1>13. CASE recoveryTimesOut
  <2>1. PICK t \in layer.recoveryWaiters : layer' = recoveryWaiterExpires(layer, t)
    BY <1>13 DEF recoveryTimesOut
  <2>2. QED
    BY <1>1, <1>6, <2>1, Settling, SettlingKeeps
<1>14. QED
  BY <1>7, <1>8, <1>9, <1>10, <1>11, <1>12, <1>13

LEMMA RemovalKeeps ==
  ASSUME SiteInv, CallsInv, removeSiteAfterNationalPaint
  PROVE  CallsInv' /\ HistoryInv'
<1> DEFINE p == stopPlaying([player EXCEPT !.wantsPlaying = FALSE])
<1>1. PlayerInv(p) /\ SameWork(p, player)
  BY LoopOf, Controls DEF SiteInv
<1>2. /\ player' = [p EXCEPT !.disposed = TRUE] /\ task' = OperatorActs(task)
      /\ layer' = IF layer.added THEN onRemove(layer) ELSE layer
      /\ live' = [live EXCEPT !.removed = TRUE, !.history = {}, !.modelsById = {},
                              !.status = "none"]
      /\ UNCHANGED poll
  BY DEF removeSiteAfterNationalPaint, dispose
<1> HIDE DEF p
<1>3. SameWork(player', player)
  BY <1>1, <1>2 DEF SameWork, PlayerInv, PlayerFields
<1>4. /\ DOMAIN live' = LiveFields /\ live'.carry = live.carry
      /\ live'.removed = TRUE /\ live'.history = {}
  BY <1>2 DEF CallsInv, LiveFields
<1>5. /\ DOMAIN task = Task
      /\ \A t \in Task : /\ task'[t].pc = task[t].pc /\ task'[t].awaits = task[t].awaits
                         /\ task'[t].frames = task[t].frames
  BY <1>2 DEF OperatorActs, SiteInv, TasksInv, TaskInv, TaskFields
<1>6. RendererInv(layer') /\ WaitsKept(layer, layer')
  <2>1. RendererInv(layer) /\ LayerInv(layer) /\ WaitsKept(layer, layer)
    BY DEF CallsInv, RendererInv, SiteInv, WaitsKept
  <2>2. QED
    BY <1>2, <2>1, RemovedKeeps
<1>7. WaitsInv(layer', task')
  BY <1>5, <1>6 DEF CallsInv, WaitsInv, WaitsKept
<1>8. OperationInv(player', task')
  BY <1>3, <1>5 DEF CallsInv, OperationInv, SameWork
<1>9. QueueInv(player'.replacements, task', poll')
  BY <1>2, <1>3, <1>5, TasksAreDistinct DEF CallsInv, QueueInv, SameWork
<1>10. CarryInv(live', task')
  BY <1>4, <1>5, TasksAreDistinct DEF CallsInv, CarryInv
<1>11. QED
  BY <1>4, <1>6, <1>7, <1>8, <1>9, <1>10 DEF CallsInv, HistoryInv, RendererInv

-----------------------------------------------------------------------------
(* The calls and the histories, in every state.                             *)

LEMMA ContinuesKeeps ==
  ASSUME SiteInv, CallsInv, HistoryInv, Continues
  PROVE  CallsInv' /\ HistoryInv'
<1>1. ASSUME NEW s \in Session, UNCHANGED <<live, poll>>,
             holdPlayback(s) \/ awaitRecovery(s) \/ commits(s, Owns(s)) \/ restores(s)
      PROVE  CallsInv' /\ HistoryInv'
  BY <1>1, HoldKeeps, AwaitRecoveryKeeps, CommitsKeep, RestoreKeeps
<1>2. ASSUME NEW s \in Session, SwapsHistory(s), UNCHANGED <<live, poll>>
      PROVE  CallsInv' /\ HistoryInv'
  BY <1>2, SwapsKeep DEF SwapsHistory
<1>3. ASSUME NEW s \in Session, historyUpdated(s) \/ runLiveBackfill(s) \/ runLivePolling(s)
      PROVE  CallsInv' /\ HistoryInv'
  BY <1>3, UpdatedKeeps, SessionsKeep
<1>4. ASSUME NEW t \in Task, UNCHANGED <<live, poll>>,
             withNativeFallback(t) \/ selectRecovered(t) \/ acceptReceipt(t)
      PROVE  CallsInv' /\ HistoryInv'
  <2>1. CASE t \in Session
    <3>1. ~selectRecovered(t) /\ ~acceptReceipt(t)
      BY <2>1 DEF SiteInv, TasksInv, TaskInv, acceptReceipt, selectRecovered
    <3>2. QED
      BY <1>4, <2>1, <3>1, NativeKeeps
  <2>2. CASE t \notin Session
    BY <1>4, <2>2, AsideSteps
  <2>3. QED
    BY <2>1, <2>2
<1>5. ASSUME UNCHANGED <<live, poll>>,
             scrubSettles(Scrub) \/ scrubSettles(Carry) \/ schedulesLater
      PROVE  CallsInv' /\ HistoryInv'
  BY <1>5, AsideSteps
<1>6. CASE siteCarried
  BY <1>6, AsideSteps
<1>7. QED
  BY <1>1, <1>2, <1>3, <1>4, <1>5, <1>6 DEF Continues

LEMMA HistoryInit == Init => CallsInv /\ HistoryInv
<1> SUFFICES ASSUME Init PROVE CallsInv /\ HistoryInv
  OBVIOUS
<1>1. PICK scan \in {First, Archive} : player = PlayerOf(scan)
  BY DEF Init
<1>2. player.frames = {scan} /\ player.lastReceipt = scan
  BY <1>1 DEF PlayerOf
<1>3. /\ layer = PaintedLayer(scan)
      /\ task = [t \in Task |-> NoTask] /\ poll = [s \in Session |-> NoPoll]
  BY <1>2 DEF Init
<1>4. /\ DOMAIN live = LiveFields /\ live.history \in {{}, {scan}}
      /\ live.modelsById = {scan} /\ live.timeline = {scan} /\ live.generation = None
  BY <1>2 DEF Init, LiveFields
<1>5. scan \in Scan
  BY HistoryAssumption
<1>6. RendererInv(layer) /\ WaitsInv(layer, task) /\ ~IsReplacing(layer)
      /\ layer.models = {scan}
  <2>1. LoopInv(layer) /\ ~IsReplacing(layer) /\ layer.models = {scan}
    BY <1>1, <1>3, <1>5 DEF PaintedLayer, LoopInv, LayerPhases, Phases, IsReplacing
  <2>2. PaintInv(layer) /\ AskedInv(layer)
    BY <1>1, <1>3 DEF PaintedLayer, PaintInv, AskedInv, IsPainted
  <2>3. \A t \in Task : Clean(layer, t) /\ task[t].pc = "idle"
    BY <1>1, <1>3, TasksAreDistinct DEF PaintedLayer, Clean, NoTask
  <2>4. WaitsInv(layer, task)
    BY <2>3, CleanWait DEF WaitsInv, PaintPcs
  <2>5. QED
    BY <2>1, <2>2, <2>4 DEF RendererInv
<1>7. /\ player.operation = None /\ player.replacements = <<>> /\ player.frames = {scan}
      /\ \A t \in Task : task[t].pc = "idle" /\ task[t].awaits = None /\ task[t].frames = {}
      /\ DOMAIN poll = Session
      /\ \A s \in Session : /\ DOMAIN poll[s] = PollFields /\ poll[s].pc = "idle"
                            /\ poll[s].scan = None
  BY <1>1, <1>3 DEF PlayerOf, NoTask, NoPoll, PollFields
<1>8. OperationInv(player, task)
  BY <1>7 DEF OperationInv
<1>9. QueueInv(player.replacements, task, poll)
  BY <1>7, TasksAreDistinct DEF QueueInv, Waits
<1>10. CallsInv
  BY <1>4, <1>5, <1>6, <1>7, <1>8, <1>9, TasksAreDistinct DEF CallsInv, RendererInv, CarryInv
<1>11. HistoryInv
  <2>1. \A s \in Session : task[s].pc = "idle" /\ StagedBy(poll[s]) = {}
    BY <1>7, TasksAreDistinct DEF StagedBy
  <2>2. OwnerInv(live, player.replacements, task, poll)
    BY <1>4, <1>7, <2>1 DEF OwnerInv
  <2>3. FramesInv(layer, player, task, live.timeline)
    BY <1>4, <1>6, <1>7, <2>1 DEF FramesInv, WindowInv
  <2>4. StoredInv(live, poll)
    BY <1>4, <1>5, <2>1 DEF StoredInv
  <2>5. QED
    BY <2>2, <2>3, <2>4 DEF HistoryInv
<1>12. QED
  BY <1>10, <1>11

LEMMA HistoryInvariant == Spec => [](SiteInv /\ CallsInv /\ HistoryInv)
<1>1. SiteInv /\ CallsInv /\ HistoryInv /\ [Next]_vars => CallsInv' /\ HistoryInv'
  <2> SUFFICES ASSUME SiteInv, CallsInv, HistoryInv, [Next]_vars
               PROVE  CallsInv' /\ HistoryInv'
    OBVIOUS
  <2>1. ASSUME NEW s \in Session,
               \/ Arrives(s) \/ FetchFails(s) \/ retries(s) \/ startLiveSession(s)
               \/ continueLiveBackfillAndPolling(s)
        PROVE  CallsInv' /\ HistoryInv'
    BY <2>1, ArrivalKeeps, SessionsKeep
  <2>2. CASE \/ applySitePlayheadCarry \/ operatorPlays \/ operatorPauses \/ operatorScrubs
             \/ \E t \in Advance : loopTimer(t)
    BY <2>2, AsideSteps
  <2>3. CASE \/ operatorSetsMode \/ mapRenders \/ contextLost \/ contextRestored
             \/ styleLoaded \/ paintTimesOut \/ recoveryTimesOut
    BY <2>3, LayerKeeps
  <2>4. CASE UNCHANGED vars
    BY <2>4 DEF vars, CallsInv, HistoryInv
  <2>5. QED
    BY <2>1, <2>2, <2>3, <2>4, ContinuesKeeps, AnotherSourceKeeps, RemovalKeeps DEF Next
<1>2. QED
  BY <1>1, HistoryInit, SiteInvInit, SiteInvariant, PTL DEF Spec

-----------------------------------------------------------------------------
(* Nothing the renderer of a Site has allocated is beyond its reach: what   *)
(* is on the GPU is the loop and the one it may go back to, whatever        *)
(* updates are committed, taken back or lost with the context               *)
(* (RadarCustomLayer in src/radar-renderer).                                *)
THEOREM NoTextureIsLost == Spec => []TexturesAreOwned
<1>1. SiteInv => TexturesAreOwned
  BY DEF SiteInv, LayerInv, ResourcesInv, TexturesAreOwned
<1>2. QED
  BY <1>1, SiteInvariant, PTL

(* A receipt with the number of the present selection is that of the        *)
(* selected scan, although a rollback and a lost context give out numbers   *)
(* again (RadarCustomLayer::render, rollbackResidentFrameReplacement and    *)
(* beginContextRecovery).                                                   *)
THEOREM ReceiptsAreTrue == Spec => []ReceiptIsTruth
<1>1. SiteInv => ReceiptIsTruth
  BY DEF SiteInv, LayerInv, NumbersInv, ResourcesInv, ReceiptIsTruth, IsPainted
<1>2. QED
  BY <1>1, SiteInvariant, PTL

(* The loop plays only if the operator, or the source that was left, last   *)
(* asked for it, whatever updates held it and let it go on                  *)
(* (ResidentPlaybackController in src/playback).                            *)
THEOREM PlaysAsAsked == Spec => []PlaybackFollowsIntent
<1>1. SiteInv => PlaybackFollowsIntent
  BY DEF SiteInv, PlayerInv, PlaybackFollowsIntent
<1>2. QED
  BY <1>1, SiteInvariant, PTL

(* Between callbacks the controller steps through the loop the renderer     *)
(* has, and with no update under way these are the scans the sessions hold  *)
(* and those that can be inspected, whatever scans have arrived, failed or  *)
(* been given back (updateResidentHistory in src/playback, acquireLive in   *)
(* App.tsx).                                                                *)
THEOREM HistoriesStayTogether == Spec => []HistoriesAgree
<1>1. CallsInv /\ HistoryInv => HistoriesAgree
  <2> SUFFICES ASSUME CallsInv, HistoryInv, Settled, ~live.removed
               PROVE  /\ player.frames = layer.models
                      /\ (\A s \in Session : poll[s].pc # "updating") =>
                           /\ live.history # {} => live.history = layer.models
                           /\ live.modelsById = layer.models /\ live.timeline = layer.models
    BY DEF HistoriesAgree
  <2>1. FramesInv(layer, player, task, live.timeline) /\ StoredInv(live, poll)
    BY DEF HistoryInv
  <2>2. \A s \in Session : layer.told[s] = Nothing /\ task[s].pc # "done"
    BY TasksAreDistinct DEF Settled, Runnable
  <2>3. player.frames = layer.models
    <3>1. ASSUME NEW s \in Session, task[s].pc = "painting"
          PROVE  player.frames = layer.models
      <4>1. WindowInv(layer, player, task[s], live.timeline, s)
        BY <2>1 DEF FramesInv
      <4>2. layer.told[s] # Failed
        BY <2>2, ToldOf
      <4>3. QED
        BY <3>1, <4>1, <4>2 DEF WindowInv
    <3>2. QED
      BY <2>1, <2>2, <3>1 DEF FramesInv
  <2>4. ASSUME \A s \in Session : poll[s].pc # "updating"
        PROVE  /\ live.history # {} => live.history = layer.models
               /\ live.modelsById = layer.models /\ live.timeline = layer.models
    <3>1. \A s \in Session : task[s].pc = "idle" /\ StagedBy(poll[s]) = {}
      BY <2>4 DEF CallsInv, QueueInv, StagedBy
    <3>2. layer.models = live.timeline
      BY <2>1, <3>1 DEF FramesInv
    <3>3. QED
      BY <2>1, <3>1, <3>2 DEF StoredInv
  <2>5. QED
    BY <2>3, <2>4
<1>2. QED
  BY <1>1, HistoryInvariant, PTL

(* Whoever waits for a paint, a recovery, an operation or its turn waits    *)
(* for something that is under way and knows of it, and a drawing that is   *)
(* waited for has been asked for, through failed draws, lost contexts,      *)
(* expired waits and a Site that goes (ResidentPlaybackController in        *)
(* src/playback, RadarCustomLayer in src/radar-renderer).                   *)
THEOREM NobodyIsForgotten == Spec => []NoWaitIsForgotten
<1>1. SiteInv /\ CallsInv => NoWaitIsForgotten
  <2> SUFFICES ASSUME SiteInv, CallsInv PROVE NoWaitIsForgotten
    OBVIOUS
  <2>1. (layer.paintWaiter # None \/ layer.recoveryWaiters # {})
          /\ layer.added /\ layer.error = "none" => layer.repaint
    BY DEF CallsInv, PaintInv, AskedInv
  <2>2. ASSUME Settled, NEW t \in Task
        PROVE  /\ task[t].pc \in PaintPcs \cup {"recovering"} =>
                    t = layer.paintWaiter \/ t \in layer.recoveryWaiters
               /\ task[t].pc \in {"holding", "awaiting"} =>
                    task[t].awaits \in Task /\ task[task[t].awaits].pc \in PaintPcs
               /\ task[t].pc = "queued" =>
                    task[Head(player.replacements)].pc
                      \in {"holding", "recovering", "painting", "restoring"}
    <3>1. WaitInv(layer, t, task[t].pc) /\ layer.told[t] = Nothing
      BY <2>2 DEF CallsInv, WaitsInv, Settled, Runnable
    <3>2. task[t].pc \in PaintPcs \cup {"recovering"} =>
            t = layer.paintWaiter \/ t \in layer.recoveryWaiters
      BY <3>1 DEF WaitInv
    <3>3. task[t].pc \in {"holding", "awaiting"} =>
            task[t].awaits \in Task /\ task[task[t].awaits].pc \in PaintPcs
      BY DEF CallsInv, OperationInv
    <3>4. ASSUME task[t].pc = "queued"
          PROVE  task[Head(player.replacements)].pc
                   \in {"holding", "recovering", "painting", "restoring"}
      <4> DEFINE r == player.replacements
                 first == Head(r)
      <4>1. t \in Session
        BY <3>4 DEF SiteInv, TasksInv, TaskInv
      <4>2. Waits(r, t) /\ r \in Seq(Session)
        BY <3>4, <4>1 DEF CallsInv, QueueInv
      <4>3. first \in Session /\ Waits(r, first)
        <5>1. Len(r) \in Nat /\ Len(r) >= 1
          BY <4>2 DEF Waits
        <5>2. first = r[1] /\ r[1] \in Session
          BY <4>2, <5>1
        <5>3. QED
          BY <5>1, <5>2 DEF Waits
      <4>4. task[first].pc \in UpdatePcs
        BY <4>3 DEF CallsInv, QueueInv
      <4>5. ~Runnable(first)
        BY <2>2, <4>3, TasksAreDistinct DEF Settled
      <4>6. QED
        BY <4>4, <4>5 DEF Runnable, UpdatePcs
    <3>5. QED
      BY <3>2, <3>3, <3>4
  <2>3. QED
    BY <2>1, <2>2 DEF NoWaitIsForgotten, PaintPcs
<1>2. QED
  BY <1>1, HistoryInvariant, PTL
=============================================================================
