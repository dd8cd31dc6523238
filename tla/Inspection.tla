----------------------------- MODULE Inspection -----------------------------
(***************************************************************************)
(* The value of the inspected point (src/App.tsx).  Over a Site it is read *)
(* from the model of the scan the layer painted.  Over National it is      *)
(* looked up by the backend, one lookup at a time; of the requests that    *)
(* arrive meanwhile only the newest is kept                                *)
(* (src/national-radar/LatestOnlyAsyncQueue.ts).  While a lookup runs, the *)
(* loops go on, the operator clicks elsewhere, and the source changes.     *)
(***************************************************************************)
EXTENDS Integers

CONSTANTS NationalScans, SiteScans, Points, None

ASSUME ScansAssumption ==
  /\ NationalScans \cap SiteScans = {}
  /\ None \notin NationalScans \cup SiteScans \cup Points

VARIABLES
  source,                   \* of what the coordinator holds for painted
  painted,                  \* its observation
  natReceipt, unheard,      \* the National layer's receipt; onPaint is still to come
  siteScan,                 \* what the Site's layer painted, which over National is staged
  point, interrogationObservation, inspectionRequest,
  shown,                    \* the readout
  pending, running          \* the queue of lookups

paint   == <<source, painted, natReceipt, unheard, siteScan>>
subject == <<point, interrogationObservation, inspectionRequest>>
queue   == <<pending, running>>
vars    == <<paint, subject, shown, queue>>

NoRequest == [id |-> 0, observation |-> None, point |-> None]
Readout(state, o, p) == [state |-> state, observation |-> o, point |-> p]
Idle == Readout("idle", None, None)

Init ==
  /\ \/ source = "site" /\ painted \in SiteScans /\ siteScan = painted /\ natReceipt = None
     \/ source = "national" /\ painted \in NationalScans /\ siteScan = None /\ natReceipt = painted
  /\ unheard = FALSE
  /\ point = None /\ interrogationObservation = None /\ inspectionRequest = 0
  /\ shown = Idle
  /\ pending = NoRequest /\ running = NoRequest

(* What a scan of a Site says of a point: a gate of it, or nothing.         *)
interrogateLngLat(o, p) == {Readout("settled", o, p), Readout("outside", o, p)}

-----------------------------------------------------------------------------
(* The lookups of National.                                                 *)

NewId == CHOOSE id \in 1 .. 4 : id \notin {inspectionRequest, pending.id, running.id}

Request(o, p) == [id |-> NewId, observation |-> o, point |-> p]

enqueue(r) ==
  IF running = NoRequest THEN running' = r /\ UNCHANGED pending
                         ELSE pending' = r /\ UNCHANGED running

lookup(o, p) ==
  /\ point' = p /\ interrogationObservation' = o
  /\ inspectionRequest' = NewId
  /\ shown' = Readout("pending", o, p)
  /\ enqueue(Request(o, p))

(* Mutant: any lookup of the painted observation will do.                   *)
IsCurrent_any(r) == source = "national" /\ painted = r.observation /\ natReceipt = r.observation

IsCurrent(r) ==
  /\ inspectionRequest = r.id
  /\ source = "national" /\ painted = r.observation /\ natReceipt = r.observation

(* The queued request goes next, unless it is not wanted any more.          *)
drain ==
  /\ running' = IF pending.id = inspectionRequest /\ point # None THEN pending ELSE NoRequest
  /\ pending' = NoRequest

(* What the backend says of a point: a code of the grid and, unless there   *)
(* is none, the value it stands for.                                        *)
Answers == [status : {"valid", "missing", "no_coverage"}, rawCode : {0, 1, 9000}, value : BOOLEAN]

assertNationalPointLookup(a) ==
  /\ a.status = "missing"     => a.rawCode = 9000 /\ ~a.value
  /\ a.status = "no_coverage" => a.rawCode = 0 /\ ~a.value
  /\ a.status = "valid"       => a.rawCode \notin {0, 9000} /\ a.value

(* A failure only asks whether the request is the latest.                   *)
failed(state) ==
  IF inspectionRequest = running.id
    THEN Readout(state, running.observation, running.point) ELSE shown

lookupAnswered ==
  /\ running # NoRequest
  /\ \E a \in Answers :
       shown' = IF ~assertNationalPointLookup(a) THEN failed("unavailable")
                ELSE IF IsCurrent(running)
                  THEN Readout("settled", running.observation, running.point)
                  ELSE shown
  /\ drain
  /\ UNCHANGED <<paint, subject>>

lookupFails ==
  /\ running # NoRequest
  /\ \E state \in {"outside", "unavailable"} : shown' = failed(state)
  /\ drain
  /\ UNCHANGED <<paint, subject>>

-----------------------------------------------------------------------------
(* The operator.                                                            *)

clickNational(p) ==
  /\ source = "national"
  /\ IF natReceipt = painted
       THEN lookup(painted, p)
       ELSE shown' = Idle /\ UNCHANGED <<subject, queue>>
  /\ UNCHANGED paint

clickSite(p) ==
  /\ source = "site"
  /\ shown' \in interrogateLngLat(siteScan, p)
  /\ point' = p /\ interrogationObservation' = siteScan
  /\ UNCHANGED <<paint, inspectionRequest, queue>>

(* Also what picking another source does first.                             *)
clearInspection ==
  /\ point # None
  /\ point' = None /\ interrogationObservation' = None /\ inspectionRequest' = 0
  /\ shown' = Idle
  /\ UNCHANGED <<paint, queue>>

-----------------------------------------------------------------------------
(* The layers paint.                                                        *)

nationalSelects ==
  /\ source = "national" /\ natReceipt # None /\ ~unheard
  /\ natReceipt' = None
  /\ UNCHANGED <<source, painted, unheard, siteScan, subject, shown, queue>>

nationalPaints ==
  /\ source = "national" /\ natReceipt = None
  /\ natReceipt' \in NationalScans
  /\ unheard' = TRUE
  /\ UNCHANGED <<source, painted, siteScan, subject, shown, queue>>

(* The point is looked up again, unless it was in this very observation.    *)
refreshNationalInterrogation(o) ==
  IF point # None /\ interrogationObservation # o
    THEN lookup(o, point)
    ELSE UNCHANGED <<subject, shown, queue>>

onPaint ==
  /\ unheard
  /\ painted' = natReceipt /\ unheard' = FALSE
  /\ refreshNationalInterrogation(natReceipt)
  /\ UNCHANGED <<source, natReceipt, siteScan>>

(* The layer of a Site that is being loaded over National paints too.       *)
handleSiteRendererSnapshot(o) ==
  /\ o # siteScan
  /\ siteScan' = o
  /\ painted' = IF source = "site" THEN o ELSE painted
  /\ IF point # None /\ interrogationObservation # o
       THEN interrogationObservation' = o /\ shown' \in interrogateLngLat(o, point)
       ELSE UNCHANGED <<interrogationObservation, shown>>
  /\ UNCHANGED <<source, natReceipt, unheard, point, inspectionRequest, queue>>

-----------------------------------------------------------------------------
(* The source changes.                                                      *)

Unasked == point' = None /\ interrogationObservation' = None /\ shown' = Idle

(* National stays hidden behind the Site, or is torn down.                  *)
acceptSiteBootstrap ==
  /\ source = "national" /\ siteScan # None
  /\ source' = "site" /\ painted' = siteScan
  /\ natReceipt' = None /\ unheard' = FALSE
  /\ Unasked
  /\ \E hidden \in BOOLEAN : pending' = IF hidden THEN NoRequest ELSE pending
  /\ UNCHANGED <<siteScan, inspectionRequest, running>>

siteBootstrapFails ==
  /\ source = "national" /\ siteScan # None
  /\ siteScan' = None
  /\ UNCHANGED <<source, painted, natReceipt, unheard, subject, shown, queue>>

(* A Site's loop starts over.                                               *)
acquireLive ==
  /\ source = "site" /\ point # None
  /\ Unasked
  /\ UNCHANGED <<paint, inspectionRequest, queue>>

(* A National that is new looks the Site's point up before it is dropped.   *)
acceptNational(o) ==
  /\ source = "site"
  /\ source' = "national" /\ painted' = o /\ natReceipt' = o /\ siteScan' = None
  /\ Unasked
  /\ inspectionRequest' = 0 /\ pending' = NoRequest
  /\ \/ UNCHANGED running
     \/ running = NoRequest /\ point # None /\ running' = Request(o, point)
  /\ UNCHANGED unheard

-----------------------------------------------------------------------------
Operator == (\E p \in Points : clickNational(p) \/ clickSite(p)) \/ clearInspection

Paints == nationalSelects \/ nationalPaints \/ onPaint
            \/ \E o \in SiteScans : handleSiteRendererSnapshot(o)

Switches == acceptSiteBootstrap \/ siteBootstrapFails \/ acquireLive
              \/ \E o \in NationalScans : acceptNational(o)

Next == Operator \/ Paints \/ Switches \/ lookupAnswered \/ lookupFails

Spec == Init /\ [][Next]_vars

-----------------------------------------------------------------------------
(* A value that is shown or awaited is that of the marked point, in the     *)
(* observation that is painted: no lookup that was overtaken by a click, a  *)
(* paint or a switch of the source shows its value.  Over National there    *)
(* may be the value of the Site that is being loaded, not painted yet.      *)
ShownIsPainted ==
  shown.state \in {"pending", "settled"} =>
    /\ shown.point = point
    /\ \/ shown.observation = painted
       \/ source = "national" /\ shown.observation \in SiteScans
=============================================================================
