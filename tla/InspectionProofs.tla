-------------------------- MODULE InspectionProofs --------------------------
(***************************************************************************)
(* Proof that the readout follows what is painted, for any scans and any   *)
(* points.  A lookup that may still answer is the latest one, so what must *)
(* be invariant is that the latest one, queued or running, is of the       *)
(* marked point and of the scan the readout stands for.                    *)
(***************************************************************************)
EXTENDS Inspection, TLAPS

Scans == NationalScans \cup SiteScans
Lookups == [id : 0 .. 4, observation : Scans \cup {None}, point : Points \cup {None}]
Live == {"pending", "settled"}

TypeOK ==
  /\ source \in {"site", "national"}
  /\ painted \in Scans
  /\ natReceipt \in NationalScans \cup {None}
  /\ unheard \in BOOLEAN
  /\ siteScan \in SiteScans \cup {None}
  /\ point \in Points \cup {None}
  /\ interrogationObservation \in Scans \cup {None}
  /\ inspectionRequest \in 0 .. 4
  /\ shown \in [state : Live \cup {"idle", "outside", "unavailable"},
                observation : Scans \cup {None}, point : Points \cup {None}]
  /\ pending \in Lookups /\ running \in Lookups

(* What each source has painted.                                            *)
PaintInv ==
  /\ source = "site" => painted = siteScan /\ painted \in SiteScans
  /\ source = "national" => painted \in NationalScans
  /\ unheard => source = "national" /\ natReceipt # None

(* The latest lookup.                                                       *)
LookupInv(r) ==
  /\ r # NoRequest => r.id # 0
  /\ source = "national" /\ r.id # 0 /\ r.id = inspectionRequest =>
       /\ point # None /\ r.point = point
       /\ interrogationObservation \in SiteScans \cup {r.observation}

(* What the readout stands for.                                             *)
ReadoutInv ==
  shown.state \in Live =>
    /\ point # None /\ shown.point = point
    /\ source = "site" => shown.observation = painted /\ interrogationObservation = painted
    /\ source = "national" =>
         \/ shown.observation \in SiteScans
         \/ /\ shown.observation = painted
            /\ interrogationObservation \in SiteScans \cup {painted}

InspectionInv == TypeOK /\ PaintInv /\ LookupInv(pending) /\ LookupInv(running) /\ ReadoutInv

-----------------------------------------------------------------------------
(* Of four names three are in use at most.                                  *)
LEMMA NewIdIsNew ==
  ASSUME TypeOK
  PROVE  /\ NewId \in 1 .. 4
         /\ NewId \notin {inspectionRequest, pending.id, running.id}
<1>1. \E id \in 1 .. 4 : id \notin {inspectionRequest, pending.id, running.id}
  BY DEF TypeOK, Lookups
<1>2. QED
  BY <1>1 DEF NewId

(* A lookup of the painted scan becomes the latest one, alone.              *)
LEMMA LookupStarts ==
  ASSUME InspectionInv, NEW o \in NationalScans, NEW p \in Points, lookup(o, p),
         source' = "national", painted' = o
  PROVE  /\ point' \in Points \cup {None} /\ interrogationObservation' \in Scans \cup {None}
         /\ inspectionRequest' \in 0 .. 4
         /\ shown' \in [state : Live \cup {"idle", "outside", "unavailable"},
                        observation : Scans \cup {None}, point : Points \cup {None}]
         /\ pending' \in Lookups /\ running' \in Lookups
         /\ LookupInv(pending)' /\ LookupInv(running)' /\ ReadoutInv'
<1> DEFINE r == Request(o, p)
<1>1. r \in Lookups /\ r.id = NewId /\ r.id # 0 /\ r.point = p /\ r.observation = o
  BY NewIdIsNew DEF InspectionInv, Request, Lookups, Scans
<1>2. /\ point' = p /\ interrogationObservation' = o /\ inspectionRequest' = NewId
      /\ shown' = [state |-> "pending", observation |-> o, point |-> p]
  BY DEF lookup, Readout
<1>3. p # None
  BY ScansAssumption
<1>4. \/ running' = r /\ pending' = pending
      \/ running' = running /\ pending' = r
  BY DEF lookup, enqueue
<1>5. pending' \in Lookups /\ running' \in Lookups
  BY <1>1, <1>4 DEF InspectionInv, TypeOK
<1>6. LookupInv(pending)' /\ LookupInv(running)'
  BY <1>1, <1>2, <1>3, <1>4, NewIdIsNew DEF InspectionInv, LookupInv
<1>7. ReadoutInv'
  BY <1>2, <1>3 DEF ReadoutInv, Live
<1>8. QED
  BY <1>2, <1>5, <1>6, <1>7, NewIdIsNew DEF InspectionInv, Scans, Live

(* The next lookup is the one that was queued, or none.                     *)
LEMMA QueueDrains ==
  ASSUME InspectionInv, drain, UNCHANGED <<paint, subject>>
  PROVE  /\ pending' \in Lookups /\ running' \in Lookups
         /\ LookupInv(pending)' /\ LookupInv(running)'
<1>1. NoRequest \in Lookups /\ NoRequest.id = 0
  BY DEF NoRequest, Lookups
<1>2. pending' = NoRequest /\ running' \in {pending, NoRequest}
  BY DEF drain
<1>3. QED
  BY <1>1, <1>2 DEF InspectionInv, TypeOK, LookupInv, paint, subject

(* A lookup that is not the latest any more, or that ended while nothing    *)
(* was painted of it, leaves the readout alone.                             *)
LEMMA LookupsEnd ==
  ASSUME InspectionInv, lookupAnswered \/ lookupFails
  PROVE  InspectionInv'
<1>1. drain /\ UNCHANGED <<paint, subject>> /\ running # NoRequest
  BY DEF lookupAnswered, lookupFails
<1>2. /\ pending' \in Lookups /\ running' \in Lookups
      /\ LookupInv(pending)' /\ LookupInv(running)'
  BY <1>1, QueueDrains
<1>3. \/ shown' = shown \/ shown'.state \notin Live
      \/ /\ shown' = Readout("settled", running.observation, running.point)
         /\ IsCurrent(running)
  BY DEF lookupAnswered, lookupFails, failed, Readout, Live
<1>4. shown' \in [state : Live \cup {"idle", "outside", "unavailable"},
                  observation : Scans \cup {None}, point : Points \cup {None}]
  BY DEF lookupAnswered, lookupFails, failed, Readout, Live, InspectionInv, TypeOK, Lookups
<1>5. ReadoutInv'
  <2>1. CASE shown' = shown \/ shown'.state \notin Live
    BY <1>1, <2>1 DEF InspectionInv, ReadoutInv, paint, subject
  <2>2. CASE /\ shown' = Readout("settled", running.observation, running.point)
             /\ IsCurrent(running)
    <3>1. /\ shown' = [state |-> "settled", observation |-> running.observation,
                       point |-> running.point]
          /\ source = "national" /\ painted = running.observation
          /\ running.id = inspectionRequest
      BY <2>2 DEF IsCurrent, Readout
    <3>2. /\ point # None /\ running.point = point
          /\ interrogationObservation \in SiteScans \cup {running.observation}
      BY <1>1, <3>1 DEF InspectionInv, LookupInv
    <3>3. QED
      BY <1>1, <3>1, <3>2 DEF ReadoutInv, paint, subject
  <2>3. QED
    BY <1>3, <2>1, <2>2
<1>6. QED
  BY <1>1, <1>2, <1>4, <1>5 DEF InspectionInv, TypeOK, PaintInv, paint, subject

(* The operator's clicks, and clearing what they marked.                    *)
LEMMA OperatorKeeps == ASSUME InspectionInv, Operator PROVE InspectionInv'
<1>1. ASSUME NEW p \in Points, clickNational(p)
      PROVE  InspectionInv'
  <2>1. CASE natReceipt # painted
    BY <1>1, <2>1 DEF clickNational, InspectionInv, TypeOK, PaintInv, LookupInv, ReadoutInv,
                      paint, subject, queue, Idle, Readout, Live
  <2>2. CASE natReceipt = painted
    <3>1. /\ UNCHANGED paint /\ lookup(painted, p)
          /\ source = "national" /\ painted \in NationalScans
      BY <1>1, <2>2 DEF clickNational, InspectionInv, PaintInv
    <3>2. source' = "national" /\ painted' = painted
      BY <3>1 DEF paint
    <3>3. TypeOK' /\ LookupInv(pending)' /\ LookupInv(running)' /\ ReadoutInv'
      <4>1. /\ point' \in Points \cup {None} /\ interrogationObservation' \in Scans \cup {None}
            /\ inspectionRequest' \in 0 .. 4
            /\ shown' \in [state : Live \cup {"idle", "outside", "unavailable"},
                           observation : Scans \cup {None}, point : Points \cup {None}]
            /\ pending' \in Lookups /\ running' \in Lookups
            /\ LookupInv(pending)' /\ LookupInv(running)' /\ ReadoutInv'
        BY <3>1, <3>2, LookupStarts
      <4>2. QED
        BY <3>1, <4>1 DEF InspectionInv, TypeOK, paint
    <3>4. QED
      BY <3>1, <3>3 DEF InspectionInv, PaintInv, paint
  <2>3. QED
    BY <2>1, <2>2
<1>2. ASSUME NEW p \in Points, clickSite(p)
      PROVE  InspectionInv'
  <2>1. shown' = Readout("settled", siteScan, p) \/ shown' = Readout("outside", siteScan, p)
    BY <1>2 DEF clickSite, interrogateLngLat
  <2>2. siteScan = painted /\ siteScan \in SiteScans /\ source = "site"
    BY <1>2 DEF clickSite, InspectionInv, PaintInv
  <2>3. p # None
    BY ScansAssumption
  <2>4. TypeOK'
    BY <1>2, <2>1, <2>2 DEF clickSite, InspectionInv, TypeOK, paint, queue, Readout, Scans, Live
  <2>5. PaintInv' /\ LookupInv(pending)' /\ LookupInv(running)'
    BY <1>2, <2>2 DEF clickSite, InspectionInv, PaintInv, LookupInv, paint, queue
  <2>6. ReadoutInv'
    BY <1>2, <2>1, <2>2, <2>3 DEF clickSite, ReadoutInv, Readout, Live, paint
  <2>7. QED
    BY <2>4, <2>5, <2>6 DEF InspectionInv
<1>3. CASE clearInspection
  BY <1>3 DEF clearInspection, InspectionInv, TypeOK, PaintInv, LookupInv, ReadoutInv,
              paint, queue, Idle, Readout, Live
<1>4. QED
  BY <1>1, <1>2, <1>3 DEF Operator

(* A scan National has painted is looked up, unless the marked point was    *)
(* looked up in it already.                                                 *)
LEMMA OnPaintKeeps == ASSUME InspectionInv, onPaint PROVE InspectionInv'
<1>1. /\ source = "national" /\ source' = "national" /\ natReceipt \in NationalScans
      /\ painted' = natReceipt /\ unheard' = FALSE
      /\ natReceipt' = natReceipt /\ siteScan' = siteScan
  BY DEF onPaint, InspectionInv, TypeOK, PaintInv
<1>2. CASE point # None /\ interrogationObservation # natReceipt
  <2>1. point \in Points /\ lookup(natReceipt, point)
    BY <1>2 DEF onPaint, refreshNationalInterrogation, InspectionInv, TypeOK
  <2>2. /\ point' \in Points \cup {None} /\ interrogationObservation' \in Scans \cup {None}
        /\ inspectionRequest' \in 0 .. 4
        /\ shown' \in [state : Live \cup {"idle", "outside", "unavailable"},
                       observation : Scans \cup {None}, point : Points \cup {None}]
        /\ pending' \in Lookups /\ running' \in Lookups
        /\ LookupInv(pending)' /\ LookupInv(running)' /\ ReadoutInv'
    BY <1>1, <2>1, LookupStarts
  <2>3. QED
    BY <1>1, <2>2 DEF InspectionInv, TypeOK, PaintInv, Scans
<1>3. CASE point = None \/ interrogationObservation = natReceipt
  <2>1. UNCHANGED <<subject, shown, queue>>
    BY <1>3 DEF onPaint, refreshNationalInterrogation
  <2>2. TypeOK' /\ PaintInv' /\ LookupInv(pending)' /\ LookupInv(running)'
    <3>1. TypeOK' /\ PaintInv'
      BY <1>1, <2>1 DEF InspectionInv, TypeOK, PaintInv, subject, queue, Scans
    <3>2. LookupInv(pending)' /\ LookupInv(running)'
      BY <1>1, <2>1 DEF InspectionInv, LookupInv, subject, queue
    <3>3. QED
      BY <3>1, <3>2
  <2>3. ReadoutInv'
    BY <1>1, <1>3, <2>1, ScansAssumption DEF InspectionInv, ReadoutInv, subject
  <2>4. QED
    BY <2>2, <2>3 DEF InspectionInv
<1>4. QED
  BY <1>2, <1>3

(* The other paints: National selecting and painting a scan it has not      *)
(* reported yet, and the layer of a Site.                                   *)
LEMMA PaintsKeep == ASSUME InspectionInv, Paints PROVE InspectionInv'
<1>1. CASE nationalSelects \/ nationalPaints
  <2>1. /\ UNCHANGED <<source, painted, siteScan, subject, shown, queue>>
        /\ natReceipt' \in NationalScans \cup {None} /\ unheard' \in BOOLEAN
        /\ unheard' => source = "national" /\ natReceipt' # None
    <3>1. CASE nationalSelects
      BY <3>1 DEF nationalSelects, InspectionInv, TypeOK
    <3>2. CASE nationalPaints
      BY <3>2, ScansAssumption DEF nationalPaints
    <3>3. QED
      BY <1>1, <3>1, <3>2
  <2>2. TypeOK' /\ PaintInv'
    BY <2>1 DEF InspectionInv, TypeOK, PaintInv, subject, queue, Scans, Live, Lookups
  <2>3. LookupInv(pending)' /\ LookupInv(running)' /\ ReadoutInv'
    BY <2>1 DEF InspectionInv, LookupInv, ReadoutInv, subject, queue
  <2>4. QED
    BY <2>2, <2>3 DEF InspectionInv
<1>2. ASSUME NEW o \in SiteScans, handleSiteRendererSnapshot(o)
      PROVE  InspectionInv'
  <2>1. /\ source' = source /\ siteScan' = o /\ o # siteScan
        /\ painted' = IF source = "site" THEN o ELSE painted
        /\ UNCHANGED <<natReceipt, unheard, point, inspectionRequest, queue>>
    BY <1>2 DEF handleSiteRendererSnapshot
  <2>2. PaintInv' /\ o \in Scans
    BY <2>1 DEF InspectionInv, TypeOK, PaintInv, Scans
  <2>3. CASE point # None /\ interrogationObservation # o
    <3>1. /\ interrogationObservation' = o
          /\ shown' = Readout("settled", o, point) \/ shown' = Readout("outside", o, point)
      BY <1>2, <2>3 DEF handleSiteRendererSnapshot, interrogateLngLat
    <3>2. TypeOK' /\ LookupInv(pending)' /\ LookupInv(running)'
      BY <2>1, <2>2, <3>1 DEF InspectionInv, TypeOK, LookupInv, queue, Readout, Live
    <3>3. ReadoutInv'
      BY <2>1, <2>3, <3>1 DEF InspectionInv, TypeOK, ReadoutInv, Readout
    <3>4. QED
      BY <2>2, <3>2, <3>3 DEF InspectionInv
  <2>4. CASE point = None \/ interrogationObservation = o
    <3>1. UNCHANGED <<interrogationObservation, shown>>
      BY <1>2, <2>4 DEF handleSiteRendererSnapshot
    <3>2. TypeOK' /\ LookupInv(pending)' /\ LookupInv(running)'
      BY <2>1, <2>2, <3>1 DEF InspectionInv, TypeOK, LookupInv, queue
    <3>3. ReadoutInv'
      BY <2>1, <2>4, <3>1 DEF InspectionInv, TypeOK, PaintInv, ReadoutInv
    <3>4. QED
      BY <2>2, <3>2, <3>3 DEF InspectionInv
  <2>5. QED
    BY <2>3, <2>4
<1>3. QED
  BY <1>1, <1>2, OnPaintKeeps DEF Paints

(* Every change of the source forgets the point, and that of National to a  *)
(* Site leaves lookups behind that nobody waits for.                        *)
LEMMA SwitchesKeep == ASSUME InspectionInv, Switches PROVE InspectionInv'
<1>1. NoRequest \in Lookups /\ NoRequest.id = 0
  BY DEF NoRequest, Lookups
<1>2. CASE acceptSiteBootstrap
  <2>1. pending' = NoRequest \/ pending' = pending
    BY <1>2 DEF acceptSiteBootstrap
  <2>2. /\ source' = "site" /\ painted' = siteScan /\ siteScan' = siteScan /\ siteScan \in SiteScans
        /\ natReceipt' = None /\ unheard' = FALSE /\ point' = None
        /\ interrogationObservation' = None /\ shown' = Readout("idle", None, None)
        /\ UNCHANGED <<inspectionRequest, running>>
    BY <1>2 DEF acceptSiteBootstrap, Unasked, Idle, InspectionInv, TypeOK
  <2>3. QED
    BY <1>1, <2>1, <2>2 DEF InspectionInv, TypeOK, PaintInv, LookupInv, ReadoutInv, Readout, Live, Scans
<1>3. CASE siteBootstrapFails
  BY <1>3 DEF siteBootstrapFails, InspectionInv, TypeOK, PaintInv, LookupInv, ReadoutInv,
              subject, queue
<1>4. CASE acquireLive
  BY <1>4 DEF acquireLive, Unasked, Idle, Readout, InspectionInv, TypeOK, PaintInv, LookupInv,
              ReadoutInv, paint, queue, Live
<1>5. ASSUME NEW o \in NationalScans, acceptNational(o)
      PROVE  InspectionInv'
  <2>1. /\ source' = "national" /\ painted' = o /\ natReceipt' = o /\ siteScan' = None
        /\ point' = None /\ interrogationObservation' = None
        /\ shown' = Readout("idle", None, None)
        /\ inspectionRequest' = 0 /\ pending' = NoRequest /\ unheard' = unheard
    BY <1>5 DEF acceptNational, Unasked, Idle
  <2>2. running' \in Lookups /\ (running' # NoRequest => running'.id # 0)
    <3>1. CASE UNCHANGED running
      BY <3>1 DEF InspectionInv, TypeOK, LookupInv
    <3>2. CASE point # None /\ running' = Request(o, point)
      BY <3>2, NewIdIsNew DEF Request, Lookups, Scans, InspectionInv, TypeOK
    <3>3. QED
      BY <1>5, <3>1, <3>2 DEF acceptNational
  <2>3. o # None
    BY ScansAssumption
  <2>4. QED
    BY <1>1, <2>1, <2>2, <2>3
    DEF InspectionInv, TypeOK, PaintInv, LookupInv, ReadoutInv, Readout, Live, Scans
<1>6. QED
  BY <1>2, <1>3, <1>4, <1>5 DEF Switches

-----------------------------------------------------------------------------
(* A value that is shown or awaited is that of the marked point in the      *)
(* painted observation, for any scans and points: the answers of lookups    *)
(* that a click, a paint or a switch of the source overtook are dropped.    *)
THEOREM ReadoutFollowsPaint == Spec => []ShownIsPainted
<1>1. Init => InspectionInv
  <2> SUFFICES ASSUME Init PROVE InspectionInv
    OBVIOUS
  <2>1. TypeOK
    <3>1. /\ painted \in Scans /\ natReceipt \in NationalScans \cup {None}
          /\ siteScan \in SiteScans \cup {None} /\ source \in {"site", "national"}
      BY DEF Init, Scans
    <3>2. shown \in [state : Live \cup {"idle", "outside", "unavailable"},
                     observation : Scans \cup {None}, point : Points \cup {None}]
      BY DEF Init, Idle, Readout
    <3>3. pending \in Lookups /\ running \in Lookups
      BY DEF Init, NoRequest, Lookups
    <3>4. point \in Points \cup {None} /\ interrogationObservation \in Scans \cup {None}
      BY DEF Init
    <3>5. inspectionRequest \in 0 .. 4
      BY DEF Init
    <3>6. unheard \in BOOLEAN
      BY Zenon DEF Init
    <3>7. QED
      BY <3>1, <3>2, <3>3, <3>4, <3>5, <3>6, Zenon DEF TypeOK
  <2>2. PaintInv /\ LookupInv(pending) /\ LookupInv(running) /\ ReadoutInv
    BY DEF Init, PaintInv, LookupInv, ReadoutInv, Idle, Readout, NoRequest, Live
  <2>3. QED
    BY <2>1, <2>2 DEF InspectionInv
<1>2. InspectionInv /\ [Next]_vars => InspectionInv'
  <2> SUFFICES ASSUME InspectionInv, [Next]_vars PROVE InspectionInv'
    OBVIOUS
  <2>1. CASE UNCHANGED vars
    BY <2>1 DEF vars, paint, subject, queue, InspectionInv, TypeOK, PaintInv, LookupInv, ReadoutInv
  <2>2. QED
    BY <2>1, OperatorKeeps, PaintsKeep, SwitchesKeep, LookupsEnd DEF Next
<1>3. InspectionInv => ShownIsPainted
  BY DEF InspectionInv, TypeOK, ReadoutInv, ShownIsPainted, Live
<1>4. QED
  BY <1>1, <1>2, <1>3, PTL DEF Spec
=============================================================================
