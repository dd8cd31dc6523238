----------------------------- MODULE SiteHistory -----------------------------
(***************************************************************************)
(* The live history of a Site: the polling sessions of App.tsx that fill   *)
(* it backwards, probe for newer scans meanwhile and then follow the       *)
(* radar, over the playback controller and the renderer of the Site.       *)
(*                                                                         *)
(* The web view runs one callback at a time and settles its promises       *)
(* before the next: everything from outside waits until no call is         *)
(* Runnable. A transfer generation is here the session whose acquisition   *)
(* has it; a session is a slot, used again once its loop has ended.        *)
(***************************************************************************)
EXTENDS SitePlayback

CONSTANTS
  Archive,        \* the scan shown before the first live one
  First,          \* the first live scan
  Limit,          \* MAX_LIVE_HISTORY_FRAMES, the frames of a full history
  MaxAttempts,    \* attempts at a predecessor, 3 in the code
  MaxRequests,    \* requests of the operator and of other sources
  MaxFaults,      \* failing draws, fences, uploads, waits, and lost contexts
  MaxSequence     \* selections, a bound on the steps of the loop

ASSUME HistoryAssumption ==
  /\ Scan \subseteq Nat /\ {Archive, First} \subseteq Scan /\ None \notin Scan
  /\ \A s \in Scan \ {Archive} : Archive < s
  /\ {Limit, MaxAttempts} \subseteq Nat \ {0}

VARIABLES
  live,      \* the state of App.tsx that the sessions share
  poll,      \* the loop of each session
  bounds     \* what has been asked and what has failed
vars == <<layer, player, task, live, poll, bounds>>
site == <<layer, player, task>>

NoPoll == [pc |-> "idle", purpose |-> "none", attempt |-> 1, scan |-> None, known |-> FALSE]

(* A history is made by a Site that has faded in over National, or by a     *)
(* session that replaces the scan of the archive.                           *)
(* A paused time waits for the history to reach it, a playing one for a     *)
(* second scan.                                                             *)
Carries ==
  {[scan |-> scan, playing |-> FALSE] : scan \in {s \in Scan \ {Archive} : s < First}}
    \cup [scan : Scan \ {Archive}, playing : {TRUE}]

Init ==
  \E carry \in {None} \cup Carries :
  /\ player \in {PlayerOf(First), PlayerOf(Archive)}
  /\ carry # None => player.lastReceipt = First
  /\ layer = PaintedLayer(player.lastReceipt)
  /\ task = [t \in Task |-> NoTask]
  /\ live = [history |-> player.frames \ {Archive}, modelsById |-> player.frames,
             timeline |-> player.frames, generation |-> None, session |-> None,
             display |-> [kind |-> "painted", by |-> None], status |-> "loading",
             carry |-> carry, carried |-> None, applies |-> "no", removed |-> FALSE]
  /\ poll = [s \in Session |-> NoPoll]
  /\ bounds = [requests |-> IF carry = None THEN 0 ELSE 1, faults |-> 0]

Settled ==
  /\ \A t \in Task : ~Runnable(t)
  /\ ~player.scheduling /\ live.applies = "no"
  /\ \A s \in Session : poll[s].pc \notin {"backfilling", "probing", "polling"}

Requested ==
  Settled /\ bounds.requests < MaxRequests /\ bounds' = [bounds EXCEPT !.requests = @ + 1]

Faulty(fails) ==
  IF fails THEN bounds.faults < MaxFaults /\ bounds' = [bounds EXCEPT !.faults = @ + 1]
  ELSE UNCHANGED bounds

IsCurrent(s) == live.session = s
Owns(s) == live.generation = s

-----------------------------------------------------------------------------
(* acquireLive: one scan is asked for, and put into the history.            *)

IsAppending(purpose) == purpose \in {"after", "probe"}

DisplayOf(s, purpose) ==
  CASE purpose = "before" -> live.display
    [] purpose = "start" -> [kind |-> "acquiring", by |-> s]
    [] OTHER -> [kind |-> "refreshing", by |-> s]

(* The new generation supersedes whatever was acquired before.              *)
Acquires(s, purpose, attempt) ==
  /\ poll' = [poll EXCEPT ![s] = [NoPoll EXCEPT !.pc = "fetching", !.purpose = purpose,
                                                !.attempt = attempt]]
  /\ live' = [live EXCEPT !.generation = s, !.display = DisplayOf(s, purpose)]

(* The loop goes on after an acquisition, in the session it belongs to.     *)
LoopsTo(s, pc, attempt) ==
  poll' = [poll EXCEPT ![s] = IF IsCurrent(s)
                              THEN [NoPoll EXCEPT !.pc = pc, !.attempt = attempt] ELSE NoPoll]

FailedDisplay(s) ==
  IF live.display.by # s \/ live.display.kind \notin {"acquiring", "refreshing"} THEN live.display
  ELSE IF poll[s].purpose = "probe" THEN [kind |-> "painted", by |-> None]
  ELSE IF poll[s].purpose = "before" \/ ~Owns(s) THEN live.display
  ELSE [kind |-> "degraded", by |-> None]

IsLastAttempt(p) == p.purpose = "before" /\ p.attempt = MaxAttempts

(* A model is given up by the acquisition that brought it.                  *)
StagedBy(p) == IF p.scan = None \/ p.known THEN {} ELSE {p.scan}

(* A predecessor is tried again a bounded number of times; then the history *)
(* stays partial and the session follows the radar.                         *)
acquireFails(s) ==
  LET p == poll[s]
      givesUp == IsLastAttempt(p)
  IN  /\ live' = [live EXCEPT
           !.modelsById = @ \ StagedBy(p),
           !.display = FailedDisplay(s),
           !.status = IF givesUp /\ IsCurrent(s) THEN "partial" ELSE @,
           !.applies = IF givesUp /\ IsCurrent(s) THEN "complete" ELSE @]
      /\ CASE p.purpose = "start" -> poll' = [poll EXCEPT ![s] = NoPoll]
           [] p.purpose = "probe" -> LoopsTo(s, "backfilling", 1)
           [] p.purpose = "after" -> LoopsTo(s, "retrying", 1)
           [] givesUp -> LoopsTo(s, "polling", 1)
           [] OTHER -> LoopsTo(s, "retrying", p.attempt + 1)

(* What is displayed is that of the acquisition, unless another began one.  *)
publishLiveDisplay(s) ==
  IF live.display.by = s /\ live.display.kind \in {"acquiring", "refreshing"}
  THEN [kind |-> "painted", by |-> None] ELSE live.display

acquired(s, history) ==
  LET purpose == poll[s].purpose
      status == IF ~IsCurrent(s) THEN live.status
                ELSE IF Cardinality(history) = Limit THEN "full"
                ELSE IF purpose = "before" THEN "loading" ELSE live.status
  IN  /\ live' = [live EXCEPT !.history = history, !.modelsById = history,
                              !.timeline = history, !.status = status,
                              !.applies = IF purpose = "start" THEN @ ELSE "partial",
                              !.display = IF purpose = "before" THEN @ ELSE publishLiveDisplay(s)]
      /\ CASE purpose = "before" ->
                \E pc \in {"backfilling", "probing"} : LoopsTo(s, pc, 1)
           [] purpose = "after" -> LoopsTo(s, "polling", 1)
           [] OTHER -> LoopsTo(s, "backfilling", 1)

(* A full history loses its oldest scan to a newer one.                     *)
appendLiveHistory(history, scan) ==
  IF Cardinality(history) < Limit THEN history \cup {scan}
  ELSE (history \cup {scan}) \ {Min(history)}

HistoryWith(purpose, scan) ==
  CASE purpose = "start" -> {scan}
    [] purpose = "before" -> live.history \cup {scan}
    [] OTHER -> appendLiveHistory(live.history, scan)

MayArrive(purpose) ==
  IF purpose = "start" THEN {First}
  ELSE IF live.history = {} THEN {}
  ELSE IF purpose = "before" THEN {s \in Scan \ {Archive} : s <= Min(live.history)}
  ELSE {s \in Scan : s >= Max(live.history)}

(* The lease and its evidence are here: a scan already in the history       *)
(* changes nothing, another is staged and given to the controller.          *)
scanArrives(s, scan) ==
  LET p == poll[s]
      history == HistoryWith(p.purpose, scan)
  IN  /\ p.pc = "fetching" /\ UNCHANGED <<layer, bounds>>
      /\ IF ~Owns(s) \/ (p.purpose = "before" /\ Cardinality(history) > Limit)
         THEN acquireFails(s) /\ UNCHANGED <<player, task>>
         ELSE IF scan \in live.history
         THEN /\ IF layer.receipt = NoPaint THEN acquireFails(s) ELSE acquired(s, live.history)
              /\ UNCHANGED <<player, task>>
         ELSE /\ poll' = [poll EXCEPT ![s] = [p EXCEPT !.pc = "updating", !.scan = scan,
                                                       !.known = scan \in live.modelsById]]
              /\ live' = [live EXCEPT !.modelsById = @ \cup {scan}]
              /\ updateResidentHistory_queued(s, history, p.purpose # "start")

fetchFails(s) ==
  poll[s].pc = "fetching" /\ acquireFails(s) /\ UNCHANGED <<site, bounds>>

(* The controller's call has returned.                                      *)
historyUpdated(s) ==
  LET t == task[s]
  IN  /\ t.pc \in {"done", "failed"}
      /\ IF t.pc = "done" /\ Owns(s) /\ t.scan \in t.frames
         THEN acquired(s, t.frames) ELSE acquireFails(s)
      /\ player' = [player EXCEPT !.replacements = Tail(@)]
      /\ task' = [task EXCEPT ![s] = NoTask]
      /\ UNCHANGED <<layer, bounds>>

-----------------------------------------------------------------------------
(* The loops.                                                               *)

startLiveSession(s) ==
  /\ Settled /\ live.session = None /\ live.history = {} /\ poll[s].pc = "idle"
  /\ ~live.removed
  /\ live' = [live EXCEPT !.session = s, !.generation = s, !.status = "none",
                          !.display = [kind |-> "acquiring", by |-> s]]
  /\ poll' = [poll EXCEPT ![s] = [NoPoll EXCEPT !.pc = "fetching", !.purpose = "start"]]
  /\ UNCHANGED <<site, bounds>>

(* A Site has been accepted, or the switch away from it has failed.         *)
continueLiveBackfillAndPolling(s) ==
  /\ Settled /\ live.session = None /\ live.history # {} /\ poll[s].pc = "idle"
  /\ ~live.removed
  /\ live' = [live EXCEPT !.session = s]
  /\ poll' = [poll EXCEPT ![s] = [NoPoll EXCEPT !.pc = "backfilling"]]
  /\ UNCHANGED <<site, bounds>>

runLiveBackfill(s) ==
  /\ poll[s].pc \in {"backfilling", "probing"}
  /\ IF ~IsCurrent(s) THEN LoopsTo(s, "idle", 1) /\ UNCHANGED live
     ELSE IF poll[s].pc = "probing" THEN Acquires(s, "probe", 1)
     ELSE IF Cardinality(live.history) >= Limit
     THEN LoopsTo(s, "polling", 1) /\ live' = [live EXCEPT !.status = "full", !.applies = "complete"]
     ELSE Acquires(s, "before", 1)
  /\ UNCHANGED <<site, bounds>>

runLivePolling(s) ==
  /\ poll[s].pc = "polling"
  /\ IF IsCurrent(s) THEN Acquires(s, "after", 1) ELSE LoopsTo(s, "idle", 1) /\ UNCHANGED live
  /\ UNCHANGED <<site, bounds>>

(* The pause after a failure has ended.                                     *)
retries(s) ==
  /\ Settled /\ poll[s].pc = "retrying"
  /\ IF ~IsCurrent(s) THEN LoopsTo(s, "idle", 1) /\ UNCHANGED live
     ELSE IF poll[s].attempt > 1 THEN Acquires(s, "before", poll[s].attempt)
     ELSE Acquires(s, "after", 1)
  /\ UNCHANGED <<site, bounds>>

(* Another source takes the map; it may fail, and the Site goes on.         *)
anotherSourceBegins ==
  /\ Requested /\ live.session # None
  /\ live' = [live EXCEPT !.session = None, !.generation = None]
  /\ UNCHANGED <<site, poll>>

(* National is shown: the Site's controller and layer go. A lost context    *)
(* has no style to remove the layer from.                                   *)
removeSiteAfterNationalPaint ==
  /\ Requested /\ live.session = None /\ ~live.removed
  /\ live' = [live EXCEPT !.removed = TRUE, !.history = {}, !.modelsById = {}, !.status = "none"]
  /\ player' = dispose
  /\ task' = OperatorActs(task)
  /\ layer' = IF layer.added THEN onRemove(layer) ELSE layer
  /\ UNCHANGED poll

-----------------------------------------------------------------------------
(* The time another source has shown is carried into the Site.              *)

planPlayheadCarry(carry, frames, complete) ==
  CASE carry.playing /\ Cardinality(frames) < 2 -> IF complete THEN "done" ELSE "wait"
    [] ~carry.playing /\ carry.scan < Min(frames) /\ ~complete -> "wait"
    [] OTHER -> "apply"

(* Called at the end of an acquisition and of the backfill, it runs up to   *)
(* the first promise before anything else does.                             *)
applySitePlayheadCarry ==
  LET step == IF live.carry = None \/ player.replacements # <<>> \/ live.history = {} THEN "wait"
              ELSE planPlayheadCarry(live.carry, live.history, live.applies = "complete")
      target == nearestFrameIndex(live.history, live.carry.scan)
      idle == [live EXCEPT !.applies = "no"]
  IN  /\ live.applies # "no" /\ UNCHANGED <<poll, bounds>>
      /\ IF step = "wait" THEN live' = idle /\ UNCHANGED site
         ELSE IF step = "done" \/ (layer.selected = target /\ ~live.carry.playing)
         THEN live' = [idle EXCEPT !.carry = None] /\ UNCHANGED site
         ELSE /\ live' = [idle EXCEPT !.carry = None, !.carried = live.carry]
              /\ IF layer.selected # target THEN scrub(Carry, target)
                 ELSE task' = [task EXCEPT ![Carry] = [NoTask EXCEPT !.pc = "done"]]
                      /\ UNCHANGED <<layer, player>>

(* After the scrub the loop plays on, or the time is carried once more,     *)
(* unless the operator has acted.                                           *)
siteCarried ==
  LET t == task[Carry]
      acts == ~t.acted /\ ~live.removed
  IN  /\ t.pc \in {"done", "failed"} /\ UNCHANGED <<layer, poll, bounds>>
      /\ live' = [live EXCEPT !.carried = None,
                              !.carry = IF t.pc = "failed" /\ ~t.acted /\ @ = None
                                        THEN live.carried ELSE @]
      /\ IF t.pc = "done" /\ live.carried.playing /\ acts
         THEN /\ player' = startPlaying([player EXCEPT !.wantsPlaying = TRUE])
              /\ task' = [OperatorActs(task) EXCEPT ![Carry] = NoTask]
         ELSE task' = [task EXCEPT ![Carry] = NoTask] /\ UNCHANGED player

-----------------------------------------------------------------------------
(* The operator, the map and the GPU.                                       *)

(* The button plays a loop that is not playing, and pauses one that is.     *)
operatorPlays ==
  /\ Requested /\ ~player.playing /\ play
  /\ live' = [live EXCEPT !.carry = None] /\ UNCHANGED poll

operatorPauses ==
  /\ Requested /\ player.playing /\ pause
  /\ live' = [live EXCEPT !.carry = None] /\ UNCHANGED poll

(* A scrub gives the index of a scan in the loop the controller has.        *)
operatorScrubs ==
  \E scan \in player.frames :
    /\ Requested /\ scrub(Scrub, scan)
    /\ live' = [live EXCEPT !.carry = None] /\ UNCHANGED poll

operatorSetsMode ==
  \E mode \in {"smooth", "native"} \ {layer.mode} :
    Requested /\ layer' = setDisplayMode(layer, mode) /\ UNCHANGED <<player, task, live, poll>>

mapRenders ==
  /\ Settled /\ layer.added /\ layer.repaint
  /\ \E answer \in [paint : {"signalled", "waiting", "failed"},
                    loop : {"signalled", "waiting", "failed"}, uploads : BOOLEAN,
                    draw : {"drawn", "refused", "failed"}] :
       /\ (layer.pendingPaint = NoPaint) => answer.paint = "signalled"
       /\ (layer.phase = "ready") => answer.loop = "signalled" /\ answer.uploads
       /\ Faulty(answer.paint = "failed" \/ answer.loop = "failed" \/ ~answer.uploads
                   \/ answer.draw # "drawn")
       /\ layer' = render(layer, answer)
  /\ UNCHANGED <<player, task, live, poll>>

contextLost ==
  /\ Settled /\ layer.listening /\ ~layer.contextLossActive
  /\ Faulty(TRUE) /\ layer' = handleContextLost(layer)
  /\ UNCHANGED <<player, task, live, poll>>

contextRestored ==
  /\ Settled /\ layer.contextLossActive
  /\ layer' = handleContextRestored(layer)
  /\ UNCHANGED <<player, task, live, poll, bounds>>

styleLoaded ==
  /\ Settled /\ MayReadd(layer)
  /\ \E uploads \in BOOLEAN : Faulty(~uploads) /\ layer' = onAdd(layer, uploads)
  /\ UNCHANGED <<player, task, live, poll>>

paintTimesOut ==
  /\ Settled /\ layer.paintWaiter # None /\ ~layer.contextLossActive
  /\ Faulty(TRUE) /\ layer' = paintWaiterExpires(layer)
  /\ UNCHANGED <<player, task, live, poll>>

recoveryTimesOut ==
  \E t \in layer.recoveryWaiters :
    /\ Settled /\ layer' = recoveryWaiterExpires(layer, t)
    /\ UNCHANGED <<player, task, live, poll, bounds>>

loopTimer(t) ==
  /\ Settled /\ layer.sequence < MaxSequence /\ advanceOnce(t)
  /\ UNCHANGED <<live, poll, bounds>>

-----------------------------------------------------------------------------
SwapsHistory(s) ==
  \E uploads \in BOOLEAN : Faulty(~uploads) /\ swaps(s, Owns(s), uploads)

(* What the web view runs before anything else happens.                     *)
Continues ==
  \/ \E s \in Session :
       \/ /\ \/ holdPlayback(s) \/ awaitRecovery(s) \/ commits(s, Owns(s)) \/ restores(s)
          /\ UNCHANGED <<live, poll, bounds>>
       \/ SwapsHistory(s) /\ UNCHANGED <<live, poll>>
       \/ historyUpdated(s)
       \/ runLiveBackfill(s) \/ runLivePolling(s)
  \/ siteCarried
  \/ /\ \/ \E t \in Task : withNativeFallback(t) \/ selectRecovered(t) \/ acceptReceipt(t)
        \/ scrubSettles(Scrub) \/ scrubSettles(Carry) \/ schedulesLater
     /\ UNCHANGED <<live, poll, bounds>>

Arrives(s) == Settled /\ \E scan \in MayArrive(poll[s].purpose) : scanArrives(s, scan)
FetchFails(s) == Settled /\ fetchFails(s)

Next ==
  \/ applySitePlayheadCarry
  \/ live.applies = "no" /\ Continues
  \/ \E s \in Session :
       Arrives(s) \/ FetchFails(s) \/ retries(s) \/ startLiveSession(s)
         \/ continueLiveBackfillAndPolling(s)
  \/ \E t \in Advance : loopTimer(t)
  \/ anotherSourceBegins \/ removeSiteAfterNationalPaint
  \/ operatorPlays \/ operatorPauses \/ operatorScrubs \/ operatorSetsMode
  \/ mapRenders \/ contextLost \/ contextRestored \/ styleLoaded
  \/ paintTimesOut \/ recoveryTimesOut

Spec == Init /\ [][Next]_vars

-----------------------------------------------------------------------------
(* Properties.                                                              *)

(* A receipt with the number of the selection is that of the selected scan, *)
(* from resources that are still there, although rollbacks and lost         *)
(* contexts give out the same numbers again.                                *)
ReceiptIsTruth ==
  IsPainted(layer) =>
    /\ layer.receipt.scan = layer.selected
    /\ layer.added => layer.selected \in layer.resident

(* Between callbacks the controller steps through the loop the renderer     *)
(* has, also while an update is under way, undone or lost with the context; *)
(* and when no update is under way, the history of the sessions and the     *)
(* scans that can be inspected are the same scans.                          *)
HistoriesAgree ==
  Settled /\ ~live.removed =>
  /\ player.frames = layer.models
  /\ (\A s \in Session : poll[s].pc # "updating") =>
       /\ live.history # {} => live.history = layer.models
       /\ live.modelsById = layer.models /\ live.timeline = layer.models

(* What is allocated on the GPU is what the renderer can still free: the    *)
(* loop, and the one an update may go back to.                              *)
TexturesAreOwned == layer.added => layer.gpu = OwnedTextures(layer)

(* Whoever waits for a paint or a recovery waits for a drawing that has     *)
(* been asked for, so the operator need not move the map; and whoever waits *)
(* is known to what it waits for: the renderer, an operation under way, or  *)
(* the updates in the queue.                                                *)
NoWaitIsForgotten ==
  LET Paints == {t \in Task : task[t].pc \in {"painting", "selecting", "restoring"}}
  IN  /\ (layer.paintWaiter # None \/ layer.recoveryWaiters # {})
           /\ layer.added /\ layer.error = "none" => layer.repaint
      /\ Settled => \A t \in Task :
           /\ t \in Paints \/ task[t].pc = "recovering" =>
                 t = layer.paintWaiter \/ t \in layer.recoveryWaiters
           /\ task[t].pc \in {"holding", "awaiting"} => task[t].awaits \in Paints
           /\ task[t].pc = "queued" => task[Head(player.replacements)].pc
                                         \in {"holding", "recovering", "painting", "restoring"}

(* The loop never plays against the operator's last request, whatever the   *)
(* updates it was held for restore.                                         *)
PlaybackFollowsIntent == player.playing => player.wantsPlaying

=============================================================================
