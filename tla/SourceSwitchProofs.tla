------------------------- MODULE SourceSwitchProofs -------------------------
(***************************************************************************)
(* The invariants of SourceSwitch for any Sites, cameras, calls, prefetches*)
(* and failures, and what the policy alone promises (AutoSourcePolicy).    *)
(*                                                                         *)
(* SwitchInv relates the calls under way (CallsInv), the slots left for    *)
(* more (SlotsInv), the generations that tell them apart (GenerationsInv), *)
(* National's lane, chain and layer (NationalInv), the Site's poll         *)
(* (PollingInv) and the one Site layer on the map (LayerInv). Every        *)
(* function of the code keeps it, whatever the call it is made for: a      *)
(* lemma says so of each, and then of each action of SwitchNext.           *)
(***************************************************************************)
EXTENDS SourceSwitch, FiniteSetTheorems, FunctionTheorems, WellFoundedInduction, TLAPS

(* The fields of the application's record.                                  *)
AppFields == DOMAIN Blank(None)
Drawn(a) == a.nationalLayer /\ a.nationalVisible /\ a.nationalPresents

(* A call of start, and a scan fetched ahead.                               *)
Call == [pc : {"idle", "preloading", "beginning", "downloading", "painting", "fading",
               "revealing", "preparing", "staging"},
         target : Source \cup {None}, generation : Nat, acquire : BOOLEAN, abandoned : BOOLEAN,
         waits : Prefetch \cup {None}, staged : BOOLEAN]
Ahead == [pc : {"idle", "beginning", "downloading"}, site : Site \cup {None}, generation : Nat]

(* Calls that hold a generation of their own, a Site layer, or the resident *)
(* history they reveal.                                                     *)
Named(c)    == c.pc \notin {"idle", "preloading"} /\ (c.target \in Site \/ c.acquire)
Layered(c)  == c.pc = "painting" \/ (c.pc = "fading" /\ c.target \in Site)
Revealing(c) == c.target = National /\ ~c.acquire

(* What a call may be at each of its steps.                                 *)
CallShape(c) ==
  /\ c.pc = "idle" => c = NoOp
  /\ c.acquire => c.target = National
  /\ c.pc \in {"preloading", "downloading", "painting"} => c.target \in Site
  /\ c.pc = "beginning" => c.target \in Site \/ c.acquire
  /\ c.pc \in {"preparing", "staging"} => c.acquire
  /\ c.pc = "revealing" => Revealing(c)
  /\ c.pc = "fading" => c.target \in Source
  /\ c.staged => c.acquire /\ c.pc \in {"staging", "fading"}

SwitchType(a) ==
  /\ DOMAIN a = AppFields
  /\ a.painted \in Source \cup {None} /\ a.transition \in Op \cup {None} /\ a.autoSwitch \in Op \cup {None}
  /\ a.transferGeneration \in Nat /\ a.nationalGeneration \in Nat /\ a.nationalChain \in Nat
  /\ a.lane \in [{"site", "national"} -> [generation : Nat, active : BOOLEAN]]
  /\ a.op \in [Op -> Call] /\ a.prefetch \in [Prefetch -> Ahead]
  /\ a.prefetchInFlight \in Prefetch \cup {None} /\ a.prefetchSession \in Prefetch \cup {None}
  /\ a.prefetchedSite \in [site : Site \cup {None}, generation : Nat]
  /\ a.layer \in [by : Op \cup {None}, site : Site \cup {None}]
  /\ a.mapped \in [by : Op \cup {None}, site : Site \cup {None}]
  /\ a.nationalLayer \in BOOLEAN /\ a.nationalVisible \in BOOLEAN /\ a.nationalPresents \in BOOLEAN
  /\ a.nationalResident \in BOOLEAN /\ a.nationalShown \in BOOLEAN
  /\ a.preferredSite \in Site \cup {None} /\ a.camera \in Camera
  /\ a.flight \in View \cup {None}
  /\ a.picking \in [source : Source, chosen : BOOLEAN] \cup {NoPick}
  /\ \A o \in Op : CallShape(a.op[o])

(* The switch that is current is under way and not given up; it is the      *)
(* automatic one unless nothing is painted yet. An automatic switch leads   *)
(* from National to a Site or from a Site to National, and only it is given *)
(* up, waits for a prefetch or reveals the resident history.                *)
CallsInv(a) ==
  /\ a.painted = None => a.autoSwitch = None /\ ~a.nationalShown /\ ~a.nationalResident
  /\ a.painted # None /\ a.transition # None => a.transition = a.autoSwitch
  /\ a.transition # None =>
       LET c == a.op[a.transition]
       IN  /\ c.pc \notin {"idle", "preloading"} /\ ~c.abandoned
           /\ c.target \in Site => a.painted \notin Site
  /\ a.autoSwitch # None =>
       LET c == a.op[a.autoSwitch]
       IN  /\ c.pc # "idle"
           /\ c.abandoned \/ c.pc = "preloading" \/ a.transition = a.autoSwitch
           /\ IF c.target \in Site THEN a.painted = National ELSE a.painted \in Site
  /\ \A o \in Op : a.op[o].abandoned \/ a.op[o].pc = "preloading" => a.autoSwitch = o
  /\ \A o \in Op : Revealing(a.op[o]) => a.autoSwitch = o /\ a.nationalResident

(* A call is left for an automatic switch, and one more for a first pick.   *)
SlotsInv(a) ==
  /\ a.autoSwitch = None => FreeOp(a) # {}
  /\ a.picking.chosen /\ a.picking.source \in Site /\ a.painted = None => Cardinality(FreeOp(a)) > 1

(* No two calls or prefetches hold the same generation, only the switch     *)
(* under way holds the newest, and what was given up has lost its lane.     *)
GenerationsInv(a) ==
  /\ \A o, q \in Op : o # q /\ Named(a.op[o]) /\ Named(a.op[q]) => a.op[o].generation # a.op[q].generation
  /\ \A p \in Prefetch : a.prefetch[p].pc # "idle" =>
       /\ \A o \in Op : Named(a.op[o]) => a.op[o].generation # a.prefetch[p].generation
       /\ \A q \in Prefetch : q # p /\ a.prefetch[q].pc # "idle" => a.prefetch[q].generation # a.prefetch[p].generation
       /\ a.prefetchedSite.site # None => a.prefetchedSite.generation # a.prefetch[p].generation
  /\ a.prefetchedSite.site # None =>
       \A o \in Op : Named(a.op[o]) => a.op[o].generation # a.prefetchedSite.generation
  /\ \A o \in Op : Named(a.op[o]) /\ a.op[o].generation = a.transferGeneration =>
       a.transition = o \/ a.autoSwitch = o
  /\ \A o \in Op : a.op[o].abandoned =>
       /\ a.op[o].pc = "downloading" => ~LaneIs(a, "site", a.op[o].generation)
       /\ a.op[o].pc = "preparing" => ~LaneIs(a, "national", a.op[o].generation)

(* National that is painted or resident owns its lane and its chain, and    *)
(* has its layer.                                                           *)
OwnedInv(a) ==
  /\ a.painted = National \/ a.nationalResident =>
       a.nationalChain = a.nationalGeneration /\ LaneIs(a, "national", a.nationalGeneration)
  /\ a.painted = National => ~a.nationalResident /\ Drawn(a)
  /\ a.nationalResident => a.nationalLayer /\ a.nationalPresents

(* An acquisition that is current replaces everything: no history is        *)
(* resident, no Site polls and the newest generation is its own.            *)
AcquiringInv(a) ==
  /\ \A o \in Op : a.op[o].acquire /\ (a.transition = o \/ a.autoSwitch = o) =>
        a.painted # National /\ ~a.nationalResident
  /\ \A o \in Op : a.op[o].acquire /\ a.transition = o =>
       /\ a.nationalGeneration = a.op[o].generation
       /\ a.transferGeneration = a.op[o].generation
       /\ a.polling = None
       /\ a.op[o].pc = "fading" => LaneIs(a, "national", a.op[o].generation)
       /\ a.op[o].pc \in {"staging", "fading"} => Drawn(a)
       /\ \A q \in Op : a.op[q].staged => q = o

(* National drawn without being painted is on its way: it is revealed or    *)
(* staged by a call, which undoes that if it fails.                         *)
DrawnInv(a) ==
  /\ \A o \in Op : a.transition = o /\ Revealing(a.op[o]) => a.nationalVisible
  /\ Drawn(a) /\ a.painted # National => \E o \in Op : Revealing(a.op[o]) \/ a.op[o].staged
  /\ \A o \in Op : a.op[o].staged => a.transition = o \/ a.autoSwitch = o \/ a.painted = None

NationalInv(a) == OwnedInv(a) /\ AcquiringInv(a) /\ DrawnInv(a)

(* A painted Site polls, or an acquisition begun by an automatic switch has *)
(* stopped it, with the generations by which its end will resume it.        *)
PollingInv(a) ==
  /\ a.painted \in Site =>
       \/ a.polling = a.painted
       \/ /\ a.polling = None /\ a.transferGeneration = a.nationalGeneration
          /\ a.autoSwitch # None /\ a.op[a.autoSwitch].acquire
  /\ a.transition # None /\ a.op[a.transition].target \in Site => a.pollingBy = a.transition

(* The Site layer on the map is the painted Site's or that of the one call  *)
(* about to paint, and a painted Site is opaque unless it is faded out.     *)
LayerInv(a) ==
  /\ a.layer = a.mapped
  /\ \A o \in Op : Layered(a.op[o]) =>
       /\ a.mapped = [by |-> o, site |-> a.op[o].target]
       /\ a.painted \notin Site
       /\ a.transition # None => a.op[a.transition].target \in Site
  /\ a.mapped # NoLayer => a.painted \in Site \/ (a.mapped.by \in Op /\ Layered(a.op[a.mapped.by]))
  /\ a.painted \in Site => a.layer.site = a.painted
  /\ a.painted \in Site => a.opacity = "full" \/ \E o \in Op : a.op[o].pc = "fading" /\ a.op[o].target = National

SwitchInv(a) ==
  /\ SwitchType(a) /\ CallsInv(a) /\ SlotsInv(a) /\ GenerationsInv(a)
  /\ NationalInv(a) /\ PollingInv(a) /\ LayerInv(a)

-----------------------------------------------------------------------------
(* The fields by name, which a step on the record needs to see.             *)
LEMMA FieldsAre ==
  AppFields = {"painted", "transition", "transferGeneration", "lane", "op", "prefetch",
    "prefetchInFlight", "prefetchSession", "prefetchedSite", "layer", "mapped", "opacity",
    "nationalLayer", "nationalVisible", "nationalPresents", "nationalUsable", "nationalResident",
    "nationalShown", "nationalGeneration", "nationalChain", "polling", "pollingBy",
    "preferredSite", "evaluateOnNextMove", "pendingAutoEvaluation", "autoSwitch", "evaluate",
    "picking", "heeded", "autoSiteFailures", "autoSiteRetryTimer", "autoErrorSite",
    "siteRequestError", "nationalRequestError", "camera", "flight"}
BY DEF AppFields, Blank

(* Of some names, one is the first.                                         *)
LEMMA FirstOf ==
  ASSUME NEW S \in SUBSET Nat, S # {}
  PROVE  Min(S) \in S
<1> DEFINE Less == {ss \in Nat \X Nat : ss[1] < ss[2]}
<1>1. IsWellFoundedOn(Less, Nat)
  BY NatLessThanWellFounded DEF OpToRel
<1>2. PICK m \in S : \A y \in S : ~ (<<y, m>> \in Less)
  <2> HIDE DEF Less
  <2> QED BY <1>1, WFMin
<1>3. ASSUME NEW y \in S PROVE m <= y
  <2>1. y \in Nat /\ m \in Nat
    OBVIOUS
  <2>2. y < m => <<y, m>> \in Less
    BY <2>1
  <2> QED
    BY <1>2, <2>1, <2>2
<1>4. \E x \in S : \A y \in S : x =< y
  BY <1>3
<1> QED
  BY <1>4 DEF Min

Small(S, n) == IsFiniteSet(S) /\ Cardinality(S) <= n

(* What a function maps a finite set onto is no larger.                     *)
LEMMA ImageIsSmall ==
  ASSUME NEW S, IsFiniteSet(S), NEW f, NEW T, f \in [S -> T], \A t \in T : \E s \in S : f[s] = t
  PROVE  Small(T, Cardinality(S))
<1>1. f \in Surjection(S, T)
  BY Fun_IsSurj
<1> QED
  BY <1>1, FS_Surjection DEF Small

(* One thing.                                                               *)
LEMMA SmallSingleton == \A x : Small({x}, 1)
<1>1. \A x : IsFiniteSet({x}) /\ Cardinality({x}) = 1
  BY FS_Singleton, Zenon
<1> TAKE x
<1>2. IsFiniteSet({x}) /\ Cardinality({x}) = 1
  BY <1>1
<1> QED
  BY <1>2 DEF Small

(* Two small sets together.                                                 *)
LEMMA SmallUnion ==
  ASSUME NEW S, NEW T, NEW m \in Nat, NEW n \in Nat, Small(S, m), Small(T, n)
  PROVE  Small(S \cup T, m + n)
<1>1. IsFiniteSet(S) /\ IsFiniteSet(T) /\ IsFiniteSet(S \cap T)
  BY FS_Subset DEF Small
<1>2. Cardinality(S) \in Nat /\ Cardinality(T) \in Nat /\ Cardinality(S \cap T) \in Nat
  BY <1>1, FS_CardinalityType
<1>3. IsFiniteSet(S \cup T) /\ Cardinality(S \cup T) = Cardinality(S) + Cardinality(T) - Cardinality(S \cap T)
  BY <1>1, FS_Union
<1> QED
  BY <1>2, <1>3 DEF Small

(* A generation that is begun is nobody's.                                  *)
LEMMA FreshGeneration ==
  ASSUME NEW a, SwitchType(a)
  PROVE  nextGeneration(a) \in Nat /\ nextGeneration(a) \notin InUse(a)
<1> DEFINE own   == {a.transferGeneration, a.nationalGeneration, a.nationalChain,
                     a.prefetchedSite.generation}
           lanes == {a.lane[l].generation : l \in {"site", "national"}}
           ops   == {a.op[o].generation : o \in Op}
           ahead == {a.prefetch[p].generation : p \in Prefetch}
<1>1. Small(own, 4)
  <2>1. \A x : Small({x}, 1)
    BY SmallSingleton
  <2> DEFINE first  == {a.transferGeneration} \cup {a.nationalGeneration}
             second == {a.nationalChain} \cup {a.prefetchedSite.generation}
  <2>2. Small(first, 1 + 1) /\ Small(second, 1 + 1)
    BY <2>1, SmallUnion
  <2>3. own = first \cup second
    OBVIOUS
  <2> HIDE DEF first, second, own
  <2>4. Small(first, 2) /\ Small(second, 2)
    BY <2>2
  <2>5. Small(own, 2 + 2)
    BY <2>3, <2>4, SmallUnion
  <2> QED
    BY <2>5
<1>2. Small(lanes, 2)
  <2>1. \A x : Small({x}, 1)
    BY SmallSingleton
  <2>2. Small({a.lane["site"].generation} \cup {a.lane["national"].generation}, 1 + 1)
    BY <2>1, SmallUnion
  <2>3. lanes = {a.lane["site"].generation} \cup {a.lane["national"].generation}
    OBVIOUS
  <2>4. Small(lanes, 1 + 1)
    BY <2>2, <2>3
  <2> HIDE DEF lanes
  <2> QED
    BY <2>4
<1>3. Small(ops, Cardinality(Op))
  <2> DEFINE f == [o \in Op |-> a.op[o].generation]
  <2>1. f \in [Op -> ops] /\ \A t \in ops : \E o \in Op : f[o] = t
    OBVIOUS
  <2> HIDE DEF f, ops
  <2> QED BY <2>1, ImageIsSmall, NamesSuffice
<1>4. Small(ahead, Cardinality(Prefetch))
  <2> DEFINE f == [p \in Prefetch |-> a.prefetch[p].generation]
  <2>1. f \in [Prefetch -> ahead] /\ \A t \in ahead : \E p \in Prefetch : f[p] = t
    OBVIOUS
  <2> HIDE DEF f, ahead
  <2> QED BY <2>1, ImageIsSmall, NamesSuffice
<1>5. InUse(a) = (own \cup lanes) \cup (ops \cup ahead)
  BY DEF InUse
<1> HIDE DEF own, lanes, ops, ahead
<1>6. Small(InUse(a), (4 + 2) + (Cardinality(Op) + Cardinality(Prefetch)))
  <2>1. Cardinality(Op) \in Nat /\ Cardinality(Prefetch) \in Nat
    BY NamesSuffice, FS_CardinalityType
  <2>2. Small(own \cup lanes, 4 + 2)
    BY <1>1, <1>2, SmallUnion
  <2>3. Small(ops \cup ahead, Cardinality(Op) + Cardinality(Prefetch))
    BY <2>1, <1>3, <1>4, SmallUnion
  <2>4. Cardinality(Op) + Cardinality(Prefetch) \in Nat /\ 4 + 2 \in Nat
    BY <2>1
  <2> QED
    BY <1>5, <2>2, <2>3, <2>4, SmallUnion
<1>7. Generation \ InUse(a) # {}
  <2> SUFFICES ASSUME Generation \in SUBSET InUse(a) PROVE FALSE
    OBVIOUS
  <2>1. IsFiniteSet(InUse(a)) /\ Cardinality(InUse(a)) <= 6 + (Cardinality(Op) + Cardinality(Prefetch))
    BY <1>6 DEF Small
  <2>2. IsFiniteSet(Generation) /\ Cardinality(Generation) <= Cardinality(InUse(a))
    BY <2>1, FS_Subset
  <2>3. /\ Cardinality(Op) \in Nat /\ Cardinality(Prefetch) \in Nat
        /\ Cardinality(Generation) \in Nat /\ Cardinality(InUse(a)) \in Nat
    BY <2>1, <2>2, NamesSuffice, FS_CardinalityType
  <2> QED
    BY <2>1, <2>2, <2>3, NamesSuffice
<1>8. nextGeneration(a) \in Generation \ InUse(a)
  BY <1>7, FirstOf, NamesSuffice DEF nextGeneration
<1> QED
  BY <1>8, NamesSuffice

(* Nobody holds a generation that is begun.                                 *)
LEMMA FreshIsNew ==
  ASSUME NEW a, SwitchType(a), NEW g, g = nextGeneration(a)
  PROVE  /\ g \in Nat
         /\ g # a.transferGeneration /\ g # a.nationalGeneration /\ g # a.nationalChain
         /\ g # a.prefetchedSite.generation
         /\ g # a.lane["site"].generation /\ g # a.lane["national"].generation
         /\ \A o \in Op : g # a.op[o].generation
         /\ \A p \in Prefetch : g # a.prefetch[p].generation
  BY FreshGeneration DEF InUse

-----------------------------------------------------------------------------
(* What the operator is at, and everything else the invariant reads.        *)
OperatorType(a) ==
  /\ a.preferredSite \in Site \cup {None} /\ a.camera \in Camera
  /\ a.flight \in View \cup {None}
  /\ a.picking \in [source : Source, chosen : BOOLEAN] \cup {NoPick}

SameCalls(a, b) ==
  /\ b.painted = a.painted /\ b.transition = a.transition /\ b.autoSwitch = a.autoSwitch
  /\ b.op = a.op
SameAhead(a, b) ==
  /\ b.prefetch = a.prefetch /\ b.prefetchedSite = a.prefetchedSite
  /\ b.prefetchInFlight = a.prefetchInFlight /\ b.prefetchSession = a.prefetchSession
SameLanes(a, b) ==
  /\ b.lane = a.lane /\ b.transferGeneration = a.transferGeneration
  /\ b.nationalGeneration = a.nationalGeneration /\ b.nationalChain = a.nationalChain
SameNational(a, b) ==
  /\ b.nationalLayer = a.nationalLayer /\ b.nationalVisible = a.nationalVisible
  /\ b.nationalPresents = a.nationalPresents /\ b.nationalResident = a.nationalResident
  /\ b.nationalShown = a.nationalShown
SamePolling(a, b) == b.polling = a.polling /\ b.pollingBy = a.pollingBy
SameLayer(a, b) == b.layer = a.layer /\ b.mapped = a.mapped /\ b.opacity = a.opacity
SameOperator(a, b) ==
  /\ b.preferredSite = a.preferredSite /\ b.camera = a.camera /\ b.flight = a.flight
  /\ b.picking = a.picking

(* A step the invariant does not see.                                       *)
LEMMA Unseen ==
  ASSUME NEW a, NEW b, SwitchInv(a), DOMAIN b = AppFields,
         SameCalls(a, b), SameAhead(a, b), SameLanes(a, b), SameNational(a, b),
         SamePolling(a, b), SameLayer(a, b), OperatorType(b),
         \/ b.picking = a.picking \/ ~b.picking.chosen \/ b.picking.source \notin Site
         \/ Cardinality(FreeOp(a)) > 1
  PROVE  SwitchInv(b)
<1> USE DEF SameCalls, SameAhead, SameLanes, SameNational, SamePolling, SameLayer
<1>1. SwitchType(b)
  BY DEF SwitchInv, SwitchType, OperatorType
<1>2. CallsInv(b)
  BY DEF SwitchInv, CallsInv
<1>3. SlotsInv(b)
  <2>1. FreeOp(b) = FreeOp(a)
    BY DEF FreeOp
  <2> QED
    BY <2>1 DEF SwitchInv, SlotsInv
<1>4. GenerationsInv(b)
  BY DEF SwitchInv, GenerationsInv, LaneIs
<1>5. NationalInv(b)
  BY DEF SwitchInv, NationalInv, OwnedInv, AcquiringInv, DrawnInv, LaneIs, Drawn
<1>6. PollingInv(b)
  BY DEF SwitchInv, PollingInv
<1>7. LayerInv(b)
  BY DEF SwitchInv, LayerInv
<1> QED
  BY <1>1, <1>2, <1>3, <1>4, <1>5, <1>6, <1>7 DEF SwitchInv

(* A Site's lane is stopped.                                                *)
LEMMA SiteLaneStops ==
  ASSUME NEW a, SwitchInv(a) PROVE SwitchInv(cancel(a, "site"))
<1> DEFINE b == cancel(a, "site")
<1>1. /\ DOMAIN b = AppFields
      /\ SameCalls(a, b) /\ SameAhead(a, b) /\ SameNational(a, b)
      /\ SamePolling(a, b) /\ SameLayer(a, b) /\ SameOperator(a, b)
      /\ b.transferGeneration = a.transferGeneration
      /\ b.nationalGeneration = a.nationalGeneration /\ b.nationalChain = a.nationalChain
      /\ b.lane = [a.lane EXCEPT !["site"].active = FALSE]
  BY FieldsAre DEF cancel, SwitchInv, SwitchType, SameCalls, SameAhead, SameNational, SamePolling,
                   SameLayer, SameOperator
<1>2. a.lane \in [{"site", "national"} -> [generation : Nat, active : BOOLEAN]]
  BY DEF SwitchInv, SwitchType
<1>3. /\ b.lane \in [{"site", "national"} -> [generation : Nat, active : BOOLEAN]]
      /\ b.lane["national"] = a.lane["national"] /\ ~b.lane["site"].active
  BY <1>1, <1>2
<1> HIDE DEF b
<1> USE DEF SameCalls, SameAhead, SameNational, SamePolling, SameLayer, SameOperator
<1>4. SwitchType(b)
  BY <1>1, <1>3 DEF SwitchInv, SwitchType
<1>5. CallsInv(b)
  BY <1>1 DEF SwitchInv, CallsInv
<1>6. SlotsInv(b)
  <2>1. FreeOp(b) = FreeOp(a)
    BY <1>1 DEF FreeOp
  <2> QED
    BY <1>1, <2>1 DEF SwitchInv, SlotsInv
<1>7. GenerationsInv(b)
  BY <1>1, <1>3 DEF SwitchInv, GenerationsInv, LaneIs
<1>8. NationalInv(b)
  BY <1>1, <1>3 DEF SwitchInv, NationalInv, OwnedInv, AcquiringInv, DrawnInv, LaneIs, Drawn
<1>9. PollingInv(b) /\ LayerInv(b)
  BY <1>1 DEF SwitchInv, PollingInv, LayerInv
<1> QED
  BY <1>4, <1>5, <1>6, <1>7, <1>8, <1>9 DEF SwitchInv, b

-----------------------------------------------------------------------------
(* The end of this call makes the painted Site poll again.                  *)
ResumesPolling(a, o) ==
  /\ a.painted \in Site /\ a.layer.site = a.painted
  /\ a.transition \in {o, None}
  /\ \/ /\ a.transition = o /\ a.op[o].target = National
        /\ a.transferGeneration = a.op[o].generation
     \/ /\ a.autoSwitch = o /\ a.op[o].abandoned /\ a.op[o].acquire
        /\ a.transferGeneration = a.nationalGeneration

(* A call that has failed is free again, and the Site may poll again.       *)
Failed(a, b, o) ==
  /\ DOMAIN b = AppFields
  /\ b.painted = a.painted
  /\ b.op = [a.op EXCEPT ![o] = NoOp]
  /\ b.transition = IF a.transition = o THEN None ELSE a.transition
  /\ b.autoSwitch = IF a.autoSwitch = o THEN None ELSE a.autoSwitch
  /\ SameAhead(a, b) /\ SameOperator(a, b)
  /\ b.lane = a.lane \/ b.lane = [a.lane EXCEPT !["site"].active = FALSE]
  /\ b.transferGeneration = a.transferGeneration
  /\ b.nationalGeneration = a.nationalGeneration /\ b.nationalChain = a.nationalChain
  /\ IF ResumesPolling(a, o) THEN b.polling = a.painted /\ b.pollingBy = None ELSE SamePolling(a, b)

(* What a switch that fails does to each part of the state.                 *)
LEMMA FailsFields ==
  ASSUME NEW a, DOMAIN a = AppFields, NEW o \in Op, NEW s \in BOOLEAN
  PROVE  LET b == SwitchFails(a, o, s)
         IN  Failed(a, b, o) /\ SameNational(a, b) /\ SameLayer(a, b)
<1> DEFINE failed == [a EXCEPT !.transition = IF a.transition = o THEN None ELSE @]
           restored == IF a.transition # o THEN failed
                  ELSE IF a.op[o].target = National
                  THEN resumeSitePollingAfterNationalFailure(failed, a.op[o].generation)
                  ELSE restoreNationalAfterSiteFailure(failed)
           told == IF a.transition = o /\ ~s /\ ~a.op[o].abandoned
                   THEN reportFailure(restored, o) ELSE restored
           resumed == IF a.autoSwitch = o /\ a.op[o].abandoned /\ a.op[o].acquire
                 THEN resumeSitePollingAfterNationalFailure(told, told.nationalGeneration)
                 ELSE told
           b == settleAutoSwitch(resumed, o, FALSE)
           Fine(x) ==
             /\ DOMAIN x = AppFields
             /\ x.painted = a.painted /\ x.op = a.op /\ x.autoSwitch = a.autoSwitch
             /\ x.transition = IF a.transition = o THEN None ELSE a.transition
             /\ SameAhead(a, x) /\ SameOperator(a, x) /\ SameNational(a, x) /\ SameLayer(a, x)
             /\ x.lane = a.lane \/ x.lane = [a.lane EXCEPT !["site"].active = FALSE]
             /\ x.transferGeneration = a.transferGeneration
             /\ x.nationalGeneration = a.nationalGeneration /\ x.nationalChain = a.nationalChain
           First == a.transition = o /\ a.op[o].target = National
                      /\ a.transferGeneration = a.op[o].generation
                      /\ a.painted \in Site /\ a.layer.site = a.painted
<1> USE DEF SameAhead, SameOperator, SameNational, SameLayer, SamePolling
<1>1. DOMAIN a = AppFields /\ None \notin Op /\ None \notin Site
  BY NamesSuffice, SourcesDiffer
<1>2. Fine(failed) /\ SamePolling(a, failed)
  BY <1>1, FieldsAre
<1>3. Fine(restored) /\ IF First THEN restored.polling = a.painted /\ restored.pollingBy = None
                        ELSE SamePolling(a, restored)
  <2> HIDE DEF failed
  <2> QED
    BY <1>1, <1>2, FieldsAre DEF resumeSitePollingAfterNationalFailure,
       restoreNationalAfterSiteFailure, cancel
<1>4. Fine(told) /\ told.polling = restored.polling /\ told.pollingBy = restored.pollingBy
  <2> HIDE DEF restored
  <2> QED
    BY <1>3, FieldsAre DEF reportFailure
<1>5. Fine(resumed) /\ IF ResumesPolling(a, o) THEN resumed.polling = a.painted /\ resumed.pollingBy = None
                       ELSE SamePolling(a, resumed)
  <2> HIDE DEF told, restored
  <2>1. IF First THEN told.polling = a.painted /\ told.pollingBy = None ELSE SamePolling(a, told)
    BY <1>3, <1>4
  <2> QED
    BY <1>1, <1>4, <2>1, FieldsAre DEF resumeSitePollingAfterNationalFailure, ResumesPolling
<1>6. Failed(a, b, o) /\ SameNational(a, b) /\ SameLayer(a, b)
  <2> HIDE DEF resumed
  <2> QED
    BY <1>5, FieldsAre DEF settleAutoSwitch, Failed
<1>7. SwitchFails(a, o, s) = b
  BY DEF SwitchFails
<1> QED
  BY <1>6, <1>7

(* What the call's own catch has undone.                                    *)
Undone(a, b, o) ==
  LET c == a.op[o]
  IN  /\ b.nationalLayer = a.nationalLayer /\ b.nationalResident = a.nationalResident
      /\ b.nationalShown = a.nationalShown
      /\ b.nationalVisible = (a.nationalVisible /\ ~(Revealing(c) /\ a.nationalResident))
      /\ b.nationalPresents = IF c.staged THEN a.painted = National ELSE a.nationalPresents
      /\ b.mapped = IF Layered(c) THEN NoLayer ELSE a.mapped
      /\ b.layer = b.mapped
      /\ a.painted \in Site =>
           \/ b.opacity = "full"
           \/ (b.opacity = a.opacity /\ ~(c.pc = "fading" /\ c.target = National))

(* A switch that fails and has undone what it did leaves all in order.      *)
LEMMA FailedKeeps ==
  ASSUME NEW a, NEW b, SwitchInv(a), NEW o \in Op, a.op[o].pc # "idle",
         Failed(a, b, o), Undone(a, b, o)
  PROVE  SwitchInv(b)
<1> USE DEF SameAhead, SameOperator, SamePolling
<1>0. a.op \in [Op -> Call] /\ None \notin Op /\ None \notin Site /\ National \notin Site /\ National # None
  BY NamesSuffice, SourcesDiffer DEF SwitchInv, SwitchType
<1>1. /\ b.op \in [Op -> Call] /\ b.op[o] = NoOp
      /\ \A q \in Op : q # o => b.op[q] = a.op[q]
  <2>1. NoOp \in Call
    BY DEF NoOp, Call
  <2> QED
    BY <1>0, <2>1 DEF Failed
<1>2. ~Named(NoOp) /\ ~Layered(NoOp) /\ ~Revealing(NoOp) /\ CallShape(NoOp) /\ ~NoOp.abandoned
      /\ ~NoOp.acquire /\ ~NoOp.staged /\ NoOp.pc = "idle"
  BY <1>0 DEF NoOp, Named, Layered, Revealing, CallShape
<1>3. /\ b.lane \in [{"site", "national"} -> [generation : Nat, active : BOOLEAN]]
      /\ b.lane["national"] = a.lane["national"]
      /\ b.lane["site"].active => b.lane["site"] = a.lane["site"]
  <2>1. a.lane \in [{"site", "national"} -> [generation : Nat, active : BOOLEAN]]
    BY DEF SwitchInv, SwitchType
  <2> QED
    BY <2>1 DEF Failed
<1>4. SwitchType(b)
  <2>1. a.mapped \in [by : Op \cup {None}, site : Site \cup {None}] /\ NoLayer \in [by : Op \cup {None}, site : Site \cup {None}]
    BY DEF SwitchInv, SwitchType, NoLayer
  <2>2. \A q \in Op : CallShape(b.op[q])
    BY <1>1, <1>2 DEF SwitchInv, SwitchType
  <2>3. /\ b.nationalLayer \in BOOLEAN /\ b.nationalVisible \in BOOLEAN /\ b.nationalPresents \in BOOLEAN
        /\ b.nationalResident \in BOOLEAN /\ b.nationalShown \in BOOLEAN
        /\ b.mapped \in [by : Op \cup {None}, site : Site \cup {None}] /\ b.layer = b.mapped
    BY <2>1 DEF Undone, SwitchInv, SwitchType
  <2> QED
    BY <1>1, <1>3, <2>2, <2>3 DEF SwitchInv, SwitchType, Failed
<1>5. CallsInv(b)
  BY <1>0, <1>1, <1>2 DEF SwitchInv, CallsInv, Failed, Undone
<1>6. SlotsInv(b)
  <2>1. FreeOp(b) = FreeOp(a) \cup {o}
    BY <1>1, <1>2 DEF FreeOp
  <2>2. b.picking.chosen /\ b.picking.source \in Site /\ b.painted = None => Cardinality(FreeOp(b)) > 1
    <3>1. IsFiniteSet(FreeOp(a))
      BY FS_Subset, NamesSuffice DEF FreeOp
    <3>2. Cardinality(FreeOp(a)) \in Nat
      BY <3>1, FS_CardinalityType
    <3>3. \/ Cardinality(FreeOp(a) \cup {o}) = Cardinality(FreeOp(a))
          \/ Cardinality(FreeOp(a) \cup {o}) = Cardinality(FreeOp(a)) + 1
      BY <3>1, FS_AddElement
    <3> QED
      BY <2>1, <3>2, <3>3 DEF SwitchInv, SlotsInv, Failed
  <2> QED
    BY <2>1, <2>2 DEF SlotsInv
<1>7. GenerationsInv(b)
  <2>1. \A q \in Op : Named(b.op[q]) => q # o /\ Named(a.op[q])
    BY <1>1, <1>2
  <2>2. \A q \in Op : b.op[q].abandoned => q # o /\ a.op[q].abandoned
    BY <1>1, <1>2
  <2>3. \A g : LaneIs(b, "site", g) => LaneIs(a, "site", g)
    BY <1>3 DEF LaneIs
  <2>4. \A g : LaneIs(b, "national", g) => LaneIs(a, "national", g)
    BY <1>3 DEF LaneIs
  <2>5. \A q \in Op : Named(b.op[q]) /\ b.op[q].generation = b.transferGeneration =>
           b.transition = q \/ b.autoSwitch = q
    BY <1>1, <2>1 DEF SwitchInv, GenerationsInv, Failed
  <2> QED
    BY <1>1, <2>1, <2>2, <2>3, <2>4, <2>5 DEF SwitchInv, GenerationsInv, Failed
<1>8. NationalInv(b)
  <2>1. \A g : LaneIs(b, "national", g) <=> LaneIs(a, "national", g)
    BY <1>3 DEF LaneIs
  <2>2. \A q \in Op : /\ b.op[q].acquire => q # o /\ a.op[q].acquire
                      /\ Revealing(b.op[q]) => q # o /\ Revealing(a.op[q])
                      /\ b.op[q].staged => q # o /\ a.op[q].staged
                      /\ b.transition = q => a.transition = q /\ q # o
                      /\ b.autoSwitch = q => a.autoSwitch = q /\ q # o
    BY <1>0, <1>1, <1>2 DEF Failed
  <2>3. a.op[o].staged => ~a.nationalResident
    <3>1. a.op[o].staged => a.op[o].acquire
      BY DEF SwitchInv, SwitchType, CallShape
    <3>2. a.op[o].staged => a.transition = o \/ a.autoSwitch = o \/ a.painted = None
      BY DEF SwitchInv, NationalInv, DrawnInv
    <3> QED
      BY <3>1, <3>2 DEF SwitchInv, NationalInv, AcquiringInv, CallsInv
  <2>4. Revealing(a.op[o]) => a.nationalResident
    BY DEF SwitchInv, CallsInv
  <2>5. OwnedInv(b)
    BY <1>0, <2>1, <2>3 DEF SwitchInv, NationalInv, OwnedInv, Drawn, Failed, Undone
  <2>6. ASSUME NEW q \in Op, b.op[q].acquire, b.transition = q \/ b.autoSwitch = q
        PROVE  b.painted # National /\ ~b.nationalResident
    BY <2>2, <2>6 DEF SwitchInv, NationalInv, AcquiringInv, Failed, Undone
  <2>7. ASSUME NEW q \in Op, b.op[q].acquire, b.transition = q
        PROVE  /\ b.nationalGeneration = b.op[q].generation
               /\ b.transferGeneration = b.op[q].generation
               /\ b.polling = None
               /\ b.op[q].pc = "fading" => LaneIs(b, "national", b.op[q].generation)
               /\ b.op[q].pc \in {"staging", "fading"} => Drawn(b)
               /\ \A x \in Op : b.op[x].staged => x = q
    <3>1. q # o /\ a.op[q].acquire /\ a.transition = q /\ b.op[q] = a.op[q] /\ ~a.op[o].staged
          /\ ~a.nationalResident
      BY <1>1, <2>2, <2>7 DEF SwitchInv, NationalInv, AcquiringInv
    <3>2. ~ResumesPolling(a, o)
      BY <1>0, <3>1 DEF ResumesPolling
    <3>3. Drawn(a) => Drawn(b)
      BY <3>1 DEF Drawn, Undone
    <3> QED
      BY <2>1, <2>2, <3>1, <3>2, <3>3 DEF SwitchInv, NationalInv, AcquiringInv, Failed
  <2>8. DrawnInv(b)
    <3>1. \A q \in Op : b.transition = q /\ Revealing(b.op[q]) => b.nationalVisible
      <4> SUFFICES ASSUME NEW q \in Op, b.transition = q, Revealing(b.op[q]) PROVE b.nationalVisible
        OBVIOUS
      <4>1. a.transition = q /\ Revealing(a.op[q]) /\ q # o
        BY <2>2
      <4>2. ~Revealing(a.op[o])
        BY <4>1 DEF SwitchInv, CallsInv
      <4> QED
        BY <4>1, <4>2 DEF SwitchInv, NationalInv, DrawnInv, Undone
    <3>2. ASSUME Drawn(b), b.painted # National
          PROVE  \E q \in Op : Revealing(b.op[q]) \/ b.op[q].staged
      <4>1. Drawn(a) /\ ~a.op[o].staged /\ ~Revealing(a.op[o]) /\ a.painted # National
        BY <2>4, <3>2 DEF Drawn, Undone, Failed
      <4>2. PICK q \in Op : Revealing(a.op[q]) \/ a.op[q].staged
        BY <4>1 DEF SwitchInv, NationalInv, DrawnInv
      <4> QED
        BY <1>1, <4>1, <4>2
    <3>3. \A q \in Op : b.op[q].staged => b.transition = q \/ b.autoSwitch = q \/ b.painted = None
      BY <2>2 DEF SwitchInv, NationalInv, DrawnInv, Failed
    <3> QED
      BY <3>1, <3>2, <3>3 DEF DrawnInv
  <2> QED
    BY <2>5, <2>6, <2>7, <2>8 DEF NationalInv, AcquiringInv
<1>9. PollingInv(b)
  <2>1. b.transition # None => b.transition = a.transition /\ a.transition # o /\ ~ResumesPolling(a, o)
    BY DEF Failed, ResumesPolling
  <2>2. b.transition # None /\ b.op[b.transition].target \in Site => b.pollingBy = b.transition
    BY <1>1, <2>1 DEF SwitchInv, SwitchType, PollingInv, Failed
  <2>3. ASSUME b.painted \in Site, b.polling # b.painted
        PROVE  /\ b.polling = None /\ b.transferGeneration = b.nationalGeneration
               /\ b.autoSwitch # None /\ b.op[b.autoSwitch].acquire
    <3>1. ~ResumesPolling(a, o) /\ a.painted \in Site /\ b.polling = a.polling
      BY <2>3 DEF Failed
    <3>2. /\ a.polling = None /\ a.transferGeneration = a.nationalGeneration
          /\ a.autoSwitch # None /\ a.op[a.autoSwitch].acquire
      BY <2>3, <3>1 DEF SwitchInv, PollingInv, Failed
    <3>3. a.autoSwitch \in Op /\ a.autoSwitch # o
      <4>1. a.layer.site = a.painted
        BY <3>1 DEF SwitchInv, LayerInv
      <4>2. ASSUME a.autoSwitch = o, a.transition = o PROVE FALSE
        BY <3>1, <3>2, <4>1, <4>2 DEF ResumesPolling, SwitchInv, SwitchType, CallShape, NationalInv, AcquiringInv
      <4>3. ASSUME a.autoSwitch = o, a.transition # o PROVE FALSE
        <5>1. a.op[o].pc # "preloading"
          BY <1>0, <3>2, <4>3 DEF SwitchInv, SwitchType, CallShape
        <5>2. a.op[o].abandoned /\ a.transition = None
          BY <1>0, <3>1, <3>2, <4>3, <5>1 DEF SwitchInv, CallsInv
        <5> QED
          BY <3>1, <3>2, <4>1, <4>3, <5>2 DEF ResumesPolling
      <4> QED
        BY <3>2, <4>2, <4>3 DEF SwitchInv, SwitchType
    <3> QED
      BY <1>1, <3>1, <3>2, <3>3 DEF Failed
  <2> QED
    BY <2>2, <2>3 DEF PollingInv
<1>10. LayerInv(b)
  <2>1. b.layer = b.mapped
    BY DEF Undone
  <2>2. ASSUME NEW q \in Op, Layered(b.op[q])
        PROVE  /\ b.mapped = [by |-> q, site |-> b.op[q].target]
               /\ b.painted \notin Site
               /\ b.transition # None => b.op[b.transition].target \in Site
    <3>1. q # o /\ Layered(a.op[q]) /\ b.op[q] = a.op[q]
      BY <1>1, <1>2, <2>2
    <3>2. /\ a.mapped = [by |-> q, site |-> a.op[q].target] /\ a.painted \notin Site
          /\ a.transition # None => a.op[a.transition].target \in Site
      BY <3>1 DEF SwitchInv, LayerInv
    <3>3. Layered(a.op[o]) => a.mapped = [by |-> o, site |-> a.op[o].target]
      BY DEF SwitchInv, LayerInv
    <3>4. ~Layered(a.op[o])
      BY <3>1, <3>2, <3>3
    <3>5. b.transition # None => b.transition = a.transition /\ a.transition \in Op /\ a.transition # o
      BY DEF Failed, SwitchInv, SwitchType
    <3> QED
      BY <1>1, <3>1, <3>2, <3>4, <3>5 DEF Failed, Undone
  <2>3. b.mapped # NoLayer => b.painted \in Site \/ (b.mapped.by \in Op /\ Layered(b.op[b.mapped.by]))
    BY <1>1 DEF SwitchInv, LayerInv, Failed, Undone
  <2>4. b.painted \in Site => b.layer.site = b.painted
    BY DEF SwitchInv, LayerInv, Failed, Undone
  <2>5. b.painted \in Site => b.opacity = "full" \/ \E q \in Op : b.op[q].pc = "fading" /\ b.op[q].target = National
    BY <1>1 DEF SwitchInv, LayerInv, Failed, Undone
  <2> QED
    BY <2>1, <2>2, <2>3, <2>4, <2>5 DEF LayerInv
<1> QED
  BY <1>4, <1>5, <1>6, <1>7, <1>8, <1>9, <1>10 DEF SwitchInv

(* The catch of a switch does nothing its end does not allow for.           *)
LEMMA FailedFromCatch ==
  ASSUME NEW a, NEW x, NEW b, NEW o \in Op, DOMAIN b = AppFields,
         SameCalls(a, x), SameAhead(a, x), SameLanes(a, x), SamePolling(a, x), SameOperator(a, x),
         a.painted \in Site => x.layer = a.layer,
         Failed(x, b, o)
  PROVE  Failed(a, b, o)
<1>1. ResumesPolling(x, o) <=> ResumesPolling(a, o)
  BY DEF ResumesPolling, SameCalls, SameLanes
<1> QED
  BY <1>1 DEF Failed, SameCalls, SameAhead, SameLanes, SamePolling, SameOperator

(* A call that has nothing to undo.                                         *)
LEMMA PlainFailureKeeps ==
  ASSUME NEW a, SwitchInv(a), NEW o \in Op, NEW s \in BOOLEAN,
         a.op[o].pc \in {"preloading", "beginning", "downloading", "preparing"}
  PROVE  SwitchInv(SwitchFails(a, o, s))
<1> DEFINE b == SwitchFails(a, o, s)
<1>1. Failed(a, b, o) /\ SameNational(a, b) /\ SameLayer(a, b)
  BY FailsFields DEF SwitchInv, SwitchType
<1>2. CallShape(a.op[o]) /\ a.layer = a.mapped /\ a.nationalVisible \in BOOLEAN
  BY DEF SwitchInv, SwitchType, LayerInv
<1>3. ~Layered(a.op[o]) /\ ~Revealing(a.op[o]) /\ ~a.op[o].staged
  BY <1>2, SourcesDiffer DEF Layered, Revealing, CallShape
<1> HIDE DEF b
<1>4. Undone(a, b, o)
  BY <1>1, <1>2, <1>3 DEF Undone, SameNational, SameLayer
<1> QED
  BY <1>1, <1>4, FailedKeeps DEF b

(* A Site's layer is removed again.                                         *)
LEMMA RemovalKeeps ==
  ASSUME NEW a, SwitchInv(a), NEW o \in Op, NEW s \in BOOLEAN, Layered(a.op[o])
  PROVE  SwitchInv(SwitchFails(siteRemoved(a, o), o, s))
<1> DEFINE x == siteRemoved(a, o)
           b == SwitchFails(x, o, s)
<1>1. /\ a.mapped = [by |-> o, site |-> a.op[o].target] /\ a.layer = a.mapped
      /\ a.painted \notin Site /\ CallShape(a.op[o]) /\ a.op[o].target \in Site
      /\ SwitchType(a) /\ DOMAIN a = AppFields /\ a.nationalVisible \in BOOLEAN
  BY DEF SwitchInv, LayerInv, SwitchType, CallShape, Layered
<1>2. /\ DOMAIN x = AppFields /\ SameCalls(a, x) /\ SameAhead(a, x) /\ SameLanes(a, x)
      /\ SamePolling(a, x) /\ SameOperator(a, x) /\ SameNational(a, x)
      /\ x.mapped = NoLayer /\ x.layer = NoLayer
  BY <1>1, FieldsAre DEF siteRemoved, SameCalls, SameAhead, SameLanes, SamePolling, SameOperator,
     SameNational
<1> HIDE DEF x
<1>4. Failed(x, b, o) /\ SameNational(x, b) /\ SameLayer(x, b)
  BY <1>2, FailsFields
<1> HIDE DEF b
<1>5. Failed(a, b, o)
  BY <1>1, <1>2, <1>4, FailedFromCatch DEF Failed
<1>6. ~Revealing(a.op[o]) /\ ~a.op[o].staged
  BY <1>1, SourcesDiffer DEF Revealing, CallShape
<1>7. Undone(a, b, o)
  BY <1>1, <1>2, <1>4, <1>6 DEF Undone, SameNational, SameLayer
<1>8. a.op[o].pc # "idle"
  BY DEF Layered
<1> QED
  BY <1>5, <1>7, <1>8, FailedKeeps DEF b, x

(* A painted Site has its layer.                                            *)
LEMMA PaintedHasLayer ==
  ASSUME NEW a, SwitchInv(a), a.painted \in Site PROVE a.layer # NoLayer /\ a.painted # None
  BY SourcesDiffer DEF SwitchInv, LayerInv, NoLayer

(* National is hidden again, and a Site that was fading out is opaque.      *)
LEMMA ConcealmentKeeps ==
  ASSUME NEW a, SwitchInv(a), NEW o \in Op, NEW s \in BOOLEAN, Revealing(a.op[o])
  PROVE  SwitchInv(SwitchFails(concealed(a), o, s))
<1> DEFINE x == concealed(a)
           b == SwitchFails(x, o, s)
<1>1. /\ a.layer = a.mapped /\ CallShape(a.op[o]) /\ SwitchType(a) /\ DOMAIN a = AppFields
      /\ a.nationalVisible \in BOOLEAN /\ a.nationalResident
  BY DEF SwitchInv, LayerInv, SwitchType, CallsInv
<1>2. /\ DOMAIN x = AppFields /\ SameCalls(a, x) /\ SameAhead(a, x) /\ SameLanes(a, x)
      /\ SamePolling(a, x) /\ SameOperator(a, x) /\ x.mapped = a.mapped /\ x.layer = a.layer
      /\ x.nationalVisible = (a.nationalVisible /\ ~a.nationalResident)
      /\ x.nationalLayer = a.nationalLayer /\ x.nationalPresents = a.nationalPresents
      /\ x.nationalResident = a.nationalResident /\ x.nationalShown = a.nationalShown
      /\ a.layer # NoLayer => x.opacity = "full"
  BY <1>1, FieldsAre DEF concealed, siteRestored, SameCalls, SameAhead, SameLanes, SamePolling,
     SameOperator
<1> HIDE DEF x
<1>4. Failed(x, b, o) /\ SameNational(x, b) /\ SameLayer(x, b)
  BY <1>2, FailsFields
<1> HIDE DEF b
<1>5. Failed(a, b, o)
  BY <1>1, <1>2, <1>4, FailedFromCatch DEF Failed
<1>6. ~Layered(a.op[o]) /\ ~a.op[o].staged /\ a.op[o].pc # "idle"
  BY <1>1, SourcesDiffer DEF Revealing, CallShape, Layered, NoOp
<1>7. a.painted \in Site => b.opacity = "full"
  BY <1>2, <1>4, PaintedHasLayer DEF SameLayer
<1>8. Undone(a, b, o)
  BY <1>1, <1>2, <1>4, <1>6, <1>7 DEF Undone, SameNational, SameLayer
<1> QED
  BY <1>5, <1>6, <1>8, FailedKeeps DEF b, x

(* What an acquisition staged is not presented any more.                    *)
LEMMA UnstagingKeeps ==
  ASSUME NEW a, SwitchInv(a), NEW o \in Op, NEW s \in BOOLEAN, a.op[o].acquire,
         NEW y, \/ y = a /\ a.op[o].pc = "staging"
                \/ y = siteRestored(a) /\ a.op[o].pc = "fading"
  PROVE  SwitchInv(SwitchFails(unpresented(y, o), o, s))
<1> DEFINE x == unpresented(y, o)
           b == SwitchFails(x, o, s)
<1>1. /\ a.layer = a.mapped /\ CallShape(a.op[o]) /\ SwitchType(a) /\ DOMAIN a = AppFields
      /\ a.nationalVisible \in BOOLEAN
  BY DEF SwitchInv, LayerInv, SwitchType
<1>2. /\ DOMAIN y = AppFields /\ SameCalls(a, y) /\ SameAhead(a, y) /\ SameLanes(a, y)
      /\ SamePolling(a, y) /\ SameOperator(a, y) /\ SameNational(a, y)
      /\ y.mapped = a.mapped /\ y.layer = a.layer
      /\ a.op[o].pc # "fading" => y.opacity = a.opacity
      /\ a.layer # NoLayer /\ a.op[o].pc = "fading" => y.opacity = "full"
  BY <1>1, FieldsAre DEF siteRestored, SameCalls, SameAhead, SameLanes, SamePolling,
     SameOperator, SameNational
<1>3. /\ DOMAIN x = AppFields /\ SameCalls(a, x) /\ SameAhead(a, x) /\ SameLanes(a, x)
      /\ SamePolling(a, x) /\ SameOperator(a, x) /\ x.mapped = a.mapped /\ x.layer = a.layer
      /\ x.nationalPresents = IF a.op[o].staged THEN a.painted = National ELSE a.nationalPresents
      /\ x.nationalLayer = a.nationalLayer /\ x.nationalVisible = a.nationalVisible
      /\ x.nationalResident = a.nationalResident /\ x.nationalShown = a.nationalShown
      /\ x.opacity = y.opacity
  BY <1>2, FieldsAre DEF unpresented, SameCalls, SameAhead, SameLanes, SamePolling,
     SameOperator, SameNational
<1> HIDE DEF x
<1>5. Failed(x, b, o) /\ SameNational(x, b) /\ SameLayer(x, b)
  BY <1>3, FailsFields
<1> HIDE DEF b
<1>6. Failed(a, b, o)
  BY <1>1, <1>3, <1>5, FailedFromCatch DEF Failed
<1>7. ~Layered(a.op[o]) /\ ~Revealing(a.op[o]) /\ a.op[o].pc # "idle"
  <2>1. a.op[o].acquire /\ a.op[o].pc \in {"staging", "fading"}
    OBVIOUS
  <2> QED
    BY <1>1, <2>1, SourcesDiffer DEF Revealing, CallShape, Layered
<1>8. ASSUME a.painted \in Site
      PROVE  b.opacity = "full" \/ (b.opacity = a.opacity /\ a.op[o].pc # "fading")
  BY <1>2, <1>3, <1>5, <1>8, PaintedHasLayer DEF SameLayer
<1>9. Undone(a, b, o)
  BY <1>1, <1>3, <1>5, <1>7, <1>8 DEF Undone, SameNational, SameLayer
<1> QED
  BY <1>6, <1>7, <1>9, FailedKeeps DEF b, x

-----------------------------------------------------------------------------
(* A switch to a Site begins: on its own for a picked Site while nothing is *)
(* painted, otherwise for the camera, from National.                        *)
MayBegin(a, o) ==
  /\ a.op[o].pc \in {"idle", "preloading"}
  /\ a.painted = None => a.op[o].pc = "idle" /\ \E q \in FreeOp(a) : q # o
  /\ a.painted # None => a.transition = None /\ a.autoSwitch \in {None, o}
  /\ a.op[o].pc = "idle" => a.autoSwitch = None

SiteCall(site, g) == [NoOp EXCEPT !.pc = "beginning", !.target = site, !.generation = g]

(* What it has become when the switch is begun on generation g.             *)
Begun(a, b, o, site, g) ==
  /\ DOMAIN b = AppFields
  /\ b.painted = a.painted /\ b.transition = o
  /\ b.autoSwitch = IF a.painted = None THEN None ELSE o
  /\ b.op = [a.op EXCEPT ![o] = SiteCall(site, g)]
  /\ b.prefetch = a.prefetch /\ b.prefetchInFlight = a.prefetchInFlight
  /\ b.prefetchedSite = NoSweep /\ b.prefetchSession = None
  /\ b.transferGeneration = g
  /\ b.nationalGeneration = a.nationalGeneration /\ b.nationalChain = a.nationalChain
  /\ b.lane = a.lane \/ b.lane = [a.lane EXCEPT !["site"] = [generation |-> g, active |-> FALSE]]
  /\ b.polling = None /\ b.pollingBy = o
  /\ SameNational(a, b) /\ SameLayer(a, b)

(* A switch to a Site is begun, on a generation nothing else holds.         *)
LEMMA BegunKeeps ==
  ASSUME NEW a, NEW b, SwitchInv(a), NEW o \in Op, NEW site \in Site, NEW g \in Nat,
         MayBegin(a, o), a.painted \notin Site, Begun(a, b, o, site, g),
         OperatorType(b), a.painted = None => ~b.picking.chosen,
         \A q \in Op : Named(a.op[q]) => a.op[q].generation # g,
         \A p \in Prefetch : a.prefetch[p].pc # "idle" => a.prefetch[p].generation # g
  PROVE  SwitchInv(b)
<1> DEFINE c == SiteCall(site, g)
<1>0. /\ a.op \in [Op -> Call] /\ None \notin Op /\ None \notin Site /\ National \notin Site
      /\ National # None /\ a.painted \in {None, National} /\ CallShape(a.op[o])
  BY NamesSuffice, SourcesDiffer DEF SwitchInv, SwitchType, Source
<1>1. /\ b.op \in [Op -> Call] /\ b.op[o] = c
      /\ \A q \in Op : q # o => b.op[q] = a.op[q]
  <2>1. c \in Call
    BY DEF NoOp, Call, SiteCall, Source
  <2> QED
    BY <1>0, <2>1 DEF Begun
<1>2. /\ Named(c) /\ ~Layered(c) /\ ~Revealing(c) /\ CallShape(c) /\ ~c.abandoned
      /\ ~c.acquire /\ ~c.staged /\ c.pc = "beginning" /\ c.target = site /\ c.generation = g
  BY <1>0 DEF NoOp, Named, Layered, Revealing, CallShape, SiteCall
<1>3. /\ ~Named(a.op[o]) /\ ~Layered(a.op[o]) /\ ~Revealing(a.op[o]) /\ ~a.op[o].acquire
      /\ ~a.op[o].staged
  BY <1>0 DEF MayBegin, NoOp, Named, Layered, Revealing, CallShape
<1> HIDE DEF c
<1>4. /\ b.lane \in [{"site", "national"} -> [generation : Nat, active : BOOLEAN]]
      /\ b.lane["national"] = a.lane["national"]
      /\ b.lane["site"].active => b.lane["site"] = a.lane["site"]
  <2>1. a.lane \in [{"site", "national"} -> [generation : Nat, active : BOOLEAN]]
    BY DEF SwitchInv, SwitchType
  <2> DEFINE n == [generation |-> g, active |-> FALSE]
  <2>2. n \in [generation : Nat, active : BOOLEAN] /\ ~n.active
    OBVIOUS
  <2>3. b.lane = a.lane \/ b.lane = [a.lane EXCEPT !["site"] = n]
    BY DEF Begun
  <2> HIDE DEF n
  <2> QED
    BY <2>1, <2>2, <2>3
<1>5. /\ \A h : LaneIs(b, "national", h) <=> LaneIs(a, "national", h)
      /\ \A h : LaneIs(b, "site", h) => LaneIs(a, "site", h)
  BY <1>4 DEF LaneIs
<1>6. SwitchType(b)
  <2>1. \A q \in Op : CallShape(b.op[q])
    BY <1>1, <1>2 DEF SwitchInv, SwitchType
  <2>2. NoSweep \in [site : Site \cup {None}, generation : Nat]
    BY DEF NoSweep
  <2> QED
    BY <1>1, <1>4, <2>1, <2>2 DEF SwitchInv, SwitchType, Begun, SameNational, SameLayer, OperatorType
<1>7. CallsInv(b)
  <2>1. \A q \in Op : b.op[q].abandoned \/ b.op[q].pc = "preloading" => b.autoSwitch = q
    BY <1>0, <1>1, <1>2 DEF SwitchInv, CallsInv, Begun, MayBegin
  <2>2. \A q \in Op : Revealing(b.op[q]) => b.autoSwitch = q /\ b.nationalResident
    BY <1>0, <1>1, <1>2 DEF SwitchInv, CallsInv, Begun, MayBegin, SameNational
  <2>3. b.painted = None => b.autoSwitch = None /\ ~b.nationalShown /\ ~b.nationalResident
    BY DEF SwitchInv, CallsInv, Begun, SameNational
  <2>4. /\ b.transition = o /\ b.op[o].pc = "beginning" /\ ~b.op[o].abandoned
        /\ b.op[o].target \in Site /\ b.painted \notin Site
        /\ b.autoSwitch = None \/ (b.autoSwitch = o /\ b.painted = National)
        /\ b.painted # None => b.autoSwitch = o
    BY <1>0, <1>1, <1>2 DEF Begun
  <2>5. b.painted # None /\ b.transition # None => b.transition = b.autoSwitch
    BY <2>4
  <2>6. b.transition # None =>
          LET d == b.op[b.transition]
          IN  /\ d.pc \notin {"idle", "preloading"} /\ ~d.abandoned
              /\ d.target \in Site => b.painted \notin Site
    BY <2>4
  <2>7. b.autoSwitch # None =>
       LET d == b.op[b.autoSwitch]
       IN  /\ d.pc # "idle"
           /\ d.abandoned \/ d.pc = "preloading" \/ b.transition = b.autoSwitch
           /\ IF d.target \in Site THEN b.painted = National ELSE b.painted \in Site
    BY <2>4
  <2> QED
    BY <2>1, <2>2, <2>3, <2>5, <2>6, <2>7 DEF CallsInv
<1>8. SlotsInv(b)
  BY <1>0, <1>1, <1>2 DEF SlotsInv, FreeOp, MayBegin, Begun
<1>9. GenerationsInv(b)
  <2>1. \A q \in Op : b.op[q].abandoned => q # o /\ a.op[q].abandoned /\ b.op[q] = a.op[q]
    BY <1>1, <1>2
  <2>2. \A q, r \in Op : q # r /\ Named(b.op[q]) /\ Named(b.op[r]) => b.op[q].generation # b.op[r].generation
    BY <1>1, <1>2 DEF SwitchInv, GenerationsInv
  <2>3. \A p \in Prefetch : b.prefetch[p].pc # "idle" =>
          \A q \in Op : Named(b.op[q]) => b.op[q].generation # b.prefetch[p].generation
    BY <1>1, <1>2 DEF SwitchInv, GenerationsInv, Begun
  <2>4. \A p, q \in Prefetch : b.prefetch[p].pc # "idle" /\ q # p /\ b.prefetch[q].pc # "idle"
          => b.prefetch[q].generation # b.prefetch[p].generation
    BY DEF SwitchInv, GenerationsInv, Begun
  <2>5. b.prefetchedSite.site = None
    BY DEF Begun, NoSweep
  <2>6. \A q \in Op : Named(b.op[q]) /\ b.op[q].generation = b.transferGeneration => q = o
    BY <1>1 DEF Begun
  <2> QED
    BY <1>5, <2>1, <2>2, <2>3, <2>4, <2>5, <2>6 DEF SwitchInv, GenerationsInv, Begun
<1>10. NationalInv(b)
  <2>1. \A q \in Op : /\ b.op[q].acquire => q # o /\ a.op[q].acquire
                      /\ Revealing(b.op[q]) => q # o /\ Revealing(a.op[q])
                      /\ b.op[q].staged => q # o /\ a.op[q].staged
                      /\ b.transition = q \/ b.autoSwitch = q => q = o
    BY <1>0, <1>1, <1>2 DEF Begun
  <2>2. OwnedInv(b)
    BY <1>5 DEF SwitchInv, NationalInv, OwnedInv, Drawn, Begun, SameNational
  <2>3. AcquiringInv(b)
    BY <2>1 DEF AcquiringInv
  <2>4. Drawn(b) /\ b.painted # National => \E q \in Op : Revealing(b.op[q]) \/ b.op[q].staged
    BY <1>1, <1>3 DEF SwitchInv, NationalInv, DrawnInv, Drawn, Begun, SameNational
  <2>5. \A q \in Op : b.op[q].staged => b.painted = None
    BY <1>0, <2>1 DEF SwitchInv, NationalInv, DrawnInv, Begun, MayBegin
  <2> QED
    BY <2>1, <2>2, <2>3, <2>4, <2>5 DEF NationalInv, DrawnInv
<1>11. PollingInv(b)
  BY <1>0 DEF PollingInv, Begun
<1>12. LayerInv(b)
  <2>1. \A q \in Op : Layered(b.op[q]) <=> q # o /\ Layered(a.op[q])
    BY <1>1, <1>2
  <2>2. \A q \in Op : Layered(a.op[q]) => q # o
    BY <1>3
  <2>3. b.op[o].target \in Site /\ b.transition = o /\ b.painted \notin Site /\ b.painted = a.painted
    BY <1>1, <1>2 DEF Begun
  <2>4. ASSUME NEW q \in Op, Layered(b.op[q]) PROVE b.mapped = [by |-> q, site |-> b.op[q].target]
    BY <1>1, <2>1, <2>4 DEF SwitchInv, LayerInv, SameLayer, Begun
  <2>5. b.mapped # NoLayer => b.mapped.by \in Op /\ Layered(b.op[b.mapped.by])
    BY <2>1, <2>2, <2>3 DEF SwitchInv, LayerInv, SameLayer, Begun
  <2>6. b.layer = b.mapped
    BY DEF SwitchInv, LayerInv, SameLayer, Begun
  <2>7. \A q \in Op : Layered(b.op[q]) =>
          /\ b.mapped = [by |-> q, site |-> b.op[q].target]
          /\ b.painted \notin Site
          /\ b.transition # None => b.op[b.transition].target \in Site
    BY <2>3, <2>4
  <2> QED
    BY <2>3, <2>5, <2>6, <2>7 DEF LayerInv
<1> QED
  BY <1>6, <1>7, <1>8, <1>9, <1>10, <1>11, <1>12 DEF SwitchInv

-----------------------------------------------------------------------------
(* The layer of a Site whose scan is there is put on the map: y is how the  *)
(* call stood before.                                                       *)
LEMMA InstallKeeps ==
  ASSUME NEW x, NEW y, SwitchInv(y), NEW o \in Op, DOMAIN x = AppFields, x.op \in [Op -> Call],
         NEW pc \in {"beginning", "downloading"}, y.op = [x.op EXCEPT ![o].pc = pc],
         y.painted = x.painted, y.transition = x.transition, y.autoSwitch = x.autoSwitch,
         SameAhead(x, y), SameLanes(x, y), SameNational(x, y), SamePolling(x, y),
         SameLayer(x, y), SameOperator(x, y),
         x.op[o].target \in Site, y.painted \notin Site,
         y.transition # None => y.op[y.transition].target \in Site
  PROVE  SwitchInv(installSite(x, o))
<1> DEFINE b == installSite(x, o)
<1>0. /\ None \notin Op /\ None \notin Site /\ National \notin Site
      /\ National # None /\ SwitchType(y) /\ CallShape(y.op[o])
  BY NamesSuffice, SourcesDiffer DEF SwitchInv, SwitchType
<1>1. /\ y.op[o].pc = pc /\ y.op[o].target = x.op[o].target /\ y.op[o].generation = x.op[o].generation
      /\ y.op[o].acquire = x.op[o].acquire /\ y.op[o].abandoned = x.op[o].abandoned
      /\ y.op[o].staged = x.op[o].staged
      /\ \A q \in Op : q # o => y.op[q] = x.op[q]
  BY DEF Call
<1>2. ~x.op[o].acquire /\ ~x.op[o].staged
  BY <1>0, <1>1 DEF CallShape
<1>3. CASE x.mapped = NoLayer
  <2> DEFINE layer == [by |-> o, site |-> x.op[o].target]
  <2>1. b = Moves([x EXCEPT !.layer = layer, !.mapped = layer, !.opacity = "none"], o, "painting")
    BY <1>3 DEF installSite
  <2>2. /\ DOMAIN b = AppFields
        /\ b.painted = x.painted /\ b.transition = x.transition /\ b.autoSwitch = x.autoSwitch
        /\ b.op = [x.op EXCEPT ![o].pc = "painting"]
        /\ SameAhead(x, b) /\ SameLanes(x, b) /\ SameNational(x, b) /\ SamePolling(x, b)
        /\ SameOperator(x, b) /\ b.mapped = layer /\ b.layer = layer
    BY <2>1, FieldsAre DEF Moves, SameAhead, SameLanes, SameNational, SamePolling, SameOperator
  <2>3. layer \in [by : Op \cup {None}, site : Site \cup {None}] /\ layer # NoLayer
        /\ layer.by = o
    BY <1>0 DEF NoLayer
  <2> HIDE DEF b, layer
  <2>4. /\ b.op \in [Op -> Call]
        /\ b.op[o].pc = "painting" /\ b.op[o].target = y.op[o].target
        /\ b.op[o].generation = y.op[o].generation
        /\ b.op[o].acquire = y.op[o].acquire /\ b.op[o].abandoned = y.op[o].abandoned
        /\ b.op[o].staged = y.op[o].staged
        /\ \A q \in Op : q # o => b.op[q] = y.op[q]
    BY <1>1, <2>2 DEF Call
  <2>5. /\ b.painted = y.painted /\ b.transition = y.transition /\ b.autoSwitch = y.autoSwitch
        /\ SameAhead(y, b) /\ SameLanes(y, b) /\ SameNational(y, b) /\ SamePolling(y, b)
        /\ SameOperator(y, b)
    BY <2>2 DEF SameAhead, SameLanes, SameNational, SamePolling, SameOperator
  <2>6. \A q \in Op : /\ Named(b.op[q]) <=> Named(y.op[q])
                      /\ b.op[q].generation = y.op[q].generation
                      /\ b.op[q].acquire = y.op[q].acquire /\ b.op[q].staged = y.op[q].staged
                      /\ b.op[q].abandoned = y.op[q].abandoned
                      /\ b.op[q].target = y.op[q].target
                      /\ Revealing(b.op[q]) <=> Revealing(y.op[q])
                      /\ Layered(b.op[q]) <=> q = o \/ Layered(y.op[q])
                      /\ b.op[q].pc = IF q = o THEN "painting" ELSE y.op[q].pc
    BY <1>1, <1>0, <2>4 DEF Named, Revealing, Layered
  <2>7. \A q \in Op : ~Layered(y.op[q])
    <3> SUFFICES ASSUME NEW q \in Op, Layered(y.op[q]) PROVE FALSE
      OBVIOUS
    <3>1. y.mapped = [by |-> q, site |-> y.op[q].target] /\ y.mapped = NoLayer
      BY <1>3 DEF SwitchInv, LayerInv, SameLayer
    <3>2. y.mapped.by = q /\ y.mapped.by = None
      BY <3>1 DEF NoLayer
    <3> QED
      BY <1>0, <3>2
  <2>8. SwitchType(b)
    <3>1. CallShape(b.op[o])
      BY <1>1, <1>2, <2>4 DEF CallShape
    <3>2. \A q \in Op : CallShape(b.op[q])
      BY <1>0, <2>4, <3>1 DEF SwitchType
    <3> QED
      BY <1>0, <2>2, <2>3, <2>4, <2>5, <3>2 DEF SwitchType, SameAhead, SameLanes, SameNational, SameOperator
  <2>9. CallsInv(b)
    <3>1. y.op[o].pc \notin {"idle", "preloading"}
      BY <1>1
    <3>2. b.transition # None =>
            LET d == b.op[b.transition]
            IN  /\ d.pc \notin {"idle", "preloading"} /\ ~d.abandoned
                /\ d.target \in Site => b.painted \notin Site
      BY <1>0, <2>5, <2>6 DEF SwitchInv, SwitchType, CallsInv
    <3>3. b.autoSwitch # None =>
         LET d == b.op[b.autoSwitch]
         IN  /\ d.pc # "idle"
             /\ d.abandoned \/ d.pc = "preloading" \/ b.transition = b.autoSwitch
             /\ IF d.target \in Site THEN b.painted = National ELSE b.painted \in Site
      BY <1>0, <1>1, <2>5, <2>6 DEF SwitchInv, SwitchType, CallsInv
    <3> QED
      BY <2>5, <2>6, <3>2, <3>3 DEF SwitchInv, CallsInv, SameNational
  <2>10. SlotsInv(b)
    <3>1. FreeOp(b) = FreeOp(y)
      BY <1>1, <2>6 DEF FreeOp
    <3> QED
      BY <2>5, <3>1 DEF SwitchInv, SlotsInv, SameOperator
  <2>11. GenerationsInv(b)
    <3>1. \A g, l : LaneIs(b, l, g) <=> LaneIs(y, l, g)
      BY <2>5 DEF LaneIs, SameLanes
    <3> QED
      BY <2>5, <2>6, <3>1 DEF SwitchInv, GenerationsInv, SameAhead, SameLanes
  <2>12. NationalInv(b)
    <3>1. \A g, l : LaneIs(b, l, g) <=> LaneIs(y, l, g)
      BY <2>5 DEF LaneIs, SameLanes
    <3>2. Drawn(b) <=> Drawn(y)
      BY <2>5 DEF Drawn, SameNational
    <3>3. OwnedInv(b)
      BY <2>5, <3>1, <3>2 DEF SwitchInv, NationalInv, OwnedInv, SameLanes, SameNational
    <3>4. AcquiringInv(b)
      BY <1>2, <2>5, <2>6, <3>1, <3>2 DEF SwitchInv, NationalInv, AcquiringInv, SameLanes, SameNational, SamePolling
    <3>5. DrawnInv(b)
      BY <2>5, <2>6, <3>2 DEF SwitchInv, NationalInv, DrawnInv, SameNational
    <3> QED
      BY <3>3, <3>4, <3>5 DEF NationalInv
  <2>13. PollingInv(b)
    BY <1>0, <2>5, <2>6 DEF SwitchInv, SwitchType, PollingInv, SamePolling, SameLanes
  <2>14. LayerInv(b)
    <3>1. b.transition # None => b.op[b.transition].target \in Site
      BY <1>0, <2>5, <2>6 DEF SwitchType
    <3>2. \A q \in Op : Layered(b.op[q]) => q = o
      BY <2>6, <2>7
    <3>3. b.mapped = [by |-> o, site |-> b.op[o].target]
      BY <1>1, <2>2, <2>4 DEF layer
    <3> QED
      BY <2>2, <2>3, <2>5, <2>6, <3>1, <3>2, <3>3 DEF LayerInv
  <2> QED
    BY <2>8, <2>9, <2>10, <2>11, <2>12, <2>13, <2>14 DEF SwitchInv, b
<1>4. CASE x.mapped # NoLayer
  <2> DEFINE other == x.mapped.by
             u == siteRemoved(x, other)
             v == SwitchFails(u, other, TRUE)
             w == [v EXCEPT !.op[o].pc = pc]
  <2>1. b = SwitchFails(v, o, FALSE)
    BY <1>4 DEF installSite
  <2>2. other \in Op /\ Layered(y.op[other]) /\ other # o /\ y.op[other] = x.op[other]
        /\ y.mapped = [by |-> other, site |-> y.op[other].target] /\ y.layer = y.mapped
    <3>1. y.mapped # NoLayer /\ y.mapped.by = other
      BY <1>4 DEF SameLayer
    <3>2. other \in Op /\ Layered(y.op[other])
      BY <3>1 DEF SwitchInv, LayerInv
    <3>3. ~Layered(y.op[o])
      BY <1>1 DEF Layered
    <3> QED
      BY <1>1, <3>2, <3>3 DEF SwitchInv, LayerInv
  <2>3. x.layer.by = other
    BY <2>2 DEF SameLayer
  <2>4. /\ DOMAIN u = AppFields /\ SameCalls(x, u) /\ SameAhead(x, u) /\ SameLanes(x, u)
        /\ SamePolling(x, u) /\ SameOperator(x, u) /\ SameNational(x, u)
        /\ u.mapped = NoLayer /\ u.layer = NoLayer
    BY <2>3, FieldsAre DEF siteRemoved, SameCalls, SameAhead, SameLanes, SamePolling, SameOperator,
       SameNational
  <2> HIDE DEF u
  <2>5. Failed(u, v, other) /\ SameNational(u, v) /\ SameLayer(u, v)
    BY <2>2, <2>4, FailsFields
  <2> HIDE DEF v
  <2>6. /\ DOMAIN w = AppFields
        /\ w.op = [v.op EXCEPT ![o].pc = pc]
        /\ w.painted = v.painted /\ w.transition = v.transition /\ w.autoSwitch = v.autoSwitch
        /\ SameAhead(v, w) /\ SameLanes(v, w) /\ SamePolling(v, w) /\ SameOperator(v, w)
        /\ SameNational(v, w) /\ SameLayer(v, w)
    BY <2>5, FieldsAre DEF Failed, SameAhead, SameLanes, SamePolling, SameOperator, SameNational,
       SameLayer
  <2> HIDE DEF w
  <2>7. w.op = [y.op EXCEPT ![other] = NoOp]
    <3>1. u.op = x.op /\ v.op = [u.op EXCEPT ![other] = NoOp]
      BY <2>4, <2>5 DEF SameCalls, Failed
    <3>2. DOMAIN w.op = Op /\ DOMAIN y.op = Op
      BY <2>6, <3>1
    <3>3. w.op = [q \in Op |-> w.op[q]] /\ [y.op EXCEPT ![other] = NoOp] = [q \in Op |-> [y.op EXCEPT ![other] = NoOp][q]]
      BY <2>6, <3>1
    <3>4. ASSUME NEW q \in Op PROVE w.op[q] = [y.op EXCEPT ![other] = NoOp][q]
      BY <2>2, <2>6, <3>1, <3>2
    <3> QED
      BY <3>3, <3>4
  <2>8. Failed(y, w, other)
    <3>1. ~ResumesPolling(u, other) /\ ~ResumesPolling(y, other)
      BY <2>4 DEF ResumesPolling, SameCalls
    <3> QED
      BY <2>4, <2>5, <2>6, <2>7, <3>1 DEF Failed, SameCalls, SameAhead, SameLanes, SamePolling, SameOperator
  <2>9. ~Revealing(y.op[other]) /\ ~y.op[other].staged /\ y.op[other].pc # "idle"
    <3>1. CallShape(y.op[other])
      BY <1>0, <2>2 DEF SwitchType
    <3> QED
      BY <1>0, <2>2, <3>1 DEF Revealing, Layered, CallShape
  <2>10. Undone(y, w, other)
    <3>1. y.nationalVisible \in BOOLEAN
      BY <1>0 DEF SwitchType
    <3> QED
      BY <2>2, <2>4, <2>5, <2>6, <2>9, <3>1 DEF Undone, SameNational, SameLayer
  <2>11. SwitchInv(w)
    BY <2>2, <2>8, <2>9, <2>10, FailedKeeps
  <2> HIDE DEF b
  <2>12. Failed(v, b, o) /\ SameNational(v, b) /\ SameLayer(v, b)
    <3>1. DOMAIN v = AppFields
      BY <2>5 DEF Failed
    <3> QED
      BY <2>1, <3>1, FailsFields
  <2>13. w.op[o] = y.op[o]
    BY <1>1, <2>2, <2>7
  <2>14. Failed(w, b, o)
    <3>1. ~ResumesPolling(v, o) /\ ~ResumesPolling(w, o)
      BY <2>4, <2>5, <2>6 DEF ResumesPolling, SameCalls, Failed
    <3>2. [v.op EXCEPT ![o] = NoOp] = [w.op EXCEPT ![o] = NoOp]
      BY <2>6
    <3> QED
      BY <2>6, <2>12, <3>1, <3>2 DEF Failed, SameAhead, SameLanes, SamePolling, SameOperator
  <2>15. ~Revealing(w.op[o]) /\ ~w.op[o].staged /\ w.op[o].pc # "idle" /\ ~Layered(w.op[o])
    BY <1>0, <1>1, <1>2, <2>13 DEF Revealing, Layered
  <2>16. Undone(w, b, o)
    <3>1. w.nationalVisible \in BOOLEAN /\ w.painted \notin Site /\ w.layer = w.mapped
      BY <2>4, <2>5, <2>6, <2>11 DEF SwitchInv, SwitchType, LayerInv, Failed, SameCalls
    <3> QED
      BY <2>6, <2>12, <2>15, <3>1 DEF Undone, SameNational, SameLayer
  <2> QED
    BY <2>11, <2>14, <2>15, <2>16, FailedKeeps DEF b
<1> QED
  BY <1>3, <1>4 DEF b

(* A state in which a switch is about to begin: as a, but for the           *)
(* automatic switch it may be and what the operator is at.                  *)
Beginning(a, x, o) ==
  /\ DOMAIN x = AppFields
  /\ x.op = a.op /\ x.painted = a.painted /\ x.transition = a.transition
  /\ x.autoSwitch = IF a.painted = None THEN None ELSE o
  /\ SameAhead(a, x) /\ SameLanes(a, x) /\ SameNational(a, x) /\ SamePolling(a, x)
  /\ SameLayer(a, x) /\ OperatorType(x)
  /\ a.painted = None => ~x.picking.chosen

(* What a switch begins from is typed.                                      *)
LEMMA BeginningType ==
  ASSUME NEW a, NEW x, SwitchInv(a), NEW o \in Op, Beginning(a, x, o)
  PROVE  SwitchType(x)
  BY DEF SwitchInv, SwitchType, Beginning, OperatorType, SameAhead, SameLanes, SameNational,
     SameLayer

(* A switch to a Site is started (startSiteFromNational).                   *)
LEMMA SiteStartKeeps ==
  ASSUME NEW a, NEW x, SwitchInv(a), NEW o \in Op, NEW site \in Site,
         MayBegin(a, o), a.painted \notin Site, Beginning(a, x, o)
  PROVE  SwitchInv(startSiteFromNational(x, o, site))
<1> DEFINE resident == prefetchIsUsable(x, site)
           g == IF resident THEN x.prefetchedSite.generation ELSE nextGeneration(x)
           b == [takePrefetchedSite(x) EXCEPT !.op[o] = [NoOp EXCEPT !.target = site, !.generation = g],
                                         !.transition = o, !.transferGeneration = g,
                                         !.polling = None, !.pollingBy = o]
           y == IF resident THEN Moves(b, o, "beginning") ELSE Moves(begin(b, "site", g), o, "beginning")
<1>1. SwitchType(x) /\ None \notin Site
  BY BeginningType, SourcesDiffer
<1>2. g \in Nat
  BY <1>1, FreshIsNew DEF SwitchType
<1>3. /\ \A q \in Op : Named(a.op[q]) => a.op[q].generation # g
      /\ \A p \in Prefetch : a.prefetch[p].pc # "idle" => a.prefetch[p].generation # g
  <2>1. CASE resident
    <3>1. a.prefetchedSite.site # None /\ g = a.prefetchedSite.generation
      BY <1>1, <2>1 DEF prefetchIsUsable, Beginning, SameAhead
    <3> HIDE DEF g
    <3> QED
      BY <3>1 DEF SwitchInv, GenerationsInv
  <2>2. CASE ~resident
    <3>1. g = nextGeneration(x)
      BY <2>2
    <3> HIDE DEF g
    <3>2. /\ \A q \in Op : g # x.op[q].generation
          /\ \A p \in Prefetch : g # x.prefetch[p].generation
      BY <1>1, <3>1, FreshIsNew
    <3> QED
      BY <3>2 DEF Beginning, SameAhead
  <2> QED
    BY <2>1, <2>2
<1>4. startSiteFromNational(x, o, site) = IF resident THEN installSite(b, o) ELSE y
  BY DEF startSiteFromNational
<1>5. /\ DOMAIN b = AppFields
      /\ b.op = [x.op EXCEPT ![o] = [NoOp EXCEPT !.target = site, !.generation = g]]
      /\ b.painted = x.painted /\ b.transition = o /\ b.autoSwitch = x.autoSwitch
      /\ b.prefetch = x.prefetch /\ b.prefetchInFlight = x.prefetchInFlight
      /\ b.prefetchedSite = NoSweep /\ b.prefetchSession = None
      /\ b.transferGeneration = g /\ b.nationalGeneration = x.nationalGeneration
      /\ b.nationalChain = x.nationalChain /\ b.lane = x.lane
      /\ b.polling = None /\ b.pollingBy = o
      /\ SameNational(x, b) /\ SameLayer(x, b) /\ SameOperator(x, b)
  <2> HIDE DEF g
  <2> QED
    BY <1>1, FieldsAre DEF takePrefetchedSite, SwitchType, SameNational, SameLayer, SameOperator
<1>6. /\ DOMAIN y = AppFields
      /\ y.op = [b.op EXCEPT ![o].pc = "beginning"]
      /\ y.painted = b.painted /\ y.transition = b.transition /\ y.autoSwitch = b.autoSwitch
      /\ SameAhead(b, y) /\ y.transferGeneration = b.transferGeneration
      /\ y.nationalGeneration = b.nationalGeneration /\ y.nationalChain = b.nationalChain
      /\ y.lane = IF resident THEN b.lane
                  ELSE [b.lane EXCEPT !["site"] = [generation |-> g, active |-> FALSE]]
      /\ SamePolling(b, y) /\ SameNational(b, y) /\ SameLayer(b, y) /\ SameOperator(b, y)
  <2> HIDE DEF g, b, resident
  <2> QED
    BY <1>5, FieldsAre DEF Moves, begin, SameAhead, SamePolling, SameNational, SameLayer, SameOperator
<1> HIDE DEF g, b, y, resident
<1>7. a.op \in [Op -> Call]
  BY DEF SwitchInv, SwitchType
<1>8. y.op = [a.op EXCEPT ![o] = SiteCall(site, g)]
  <2> DEFINE c == [NoOp EXCEPT !.target = site, !.generation = g]
  <2>1. SiteCall(site, g) = [c EXCEPT !.pc = "beginning"]
    BY DEF SiteCall, NoOp
  <2> HIDE DEF c
  <2>2. b.op = [a.op EXCEPT ![o] = c]
    BY <1>5 DEF Beginning, c
  <2> QED
    BY <1>6, <1>7, <2>1, <2>2
<1>9. Begun(a, y, o, site, g)
  BY <1>5, <1>6, <1>8 DEF Begun, Beginning, SameAhead, SameLanes, SamePolling, SameNational, SameLayer
<1>10. OperatorType(y) /\ (a.painted = None => ~y.picking.chosen)
  BY <1>5, <1>6 DEF Beginning, OperatorType, SameOperator
<1>11. SwitchInv(y)
  BY <1>2, <1>3, <1>9, <1>10, BegunKeeps
<1>12. ASSUME resident PROVE SwitchInv(installSite(b, o))
  <2>1. b.op \in [Op -> Call] /\ b.op[o].target = site
    <3> DEFINE c == [NoOp EXCEPT !.target = site, !.generation = g]
    <3>1. c \in Call /\ c.target = site
      BY <1>2 DEF NoOp, Call, Source
    <3>2. b.op = [a.op EXCEPT ![o] = c]
      BY <1>5 DEF Beginning
    <3> HIDE DEF c
    <3> QED
      BY <1>7, <3>1, <3>2
  <2>2. y.op[o].target = site
    BY <1>6, <2>1 DEF Call
  <2>3. SameAhead(b, y) /\ SameLanes(b, y)
    BY <1>6, <1>12 DEF SameLanes
  <2>4. y.transition # None => y.op[y.transition].target \in Site
    BY <1>5, <1>6, <2>2
  <2>5. y.painted \notin Site
    BY <1>9 DEF Begun
  <2> QED
    BY <1>5, <1>6, <1>11, <2>1, <2>3, <2>4, <2>5, InstallKeeps
<1> QED
  BY <1>4, <1>11, <1>12

(* A call that does not load anything yet joins: a switch to a Site that    *)
(* waits for the scan fetched ahead, or one that reveals National.          *)
Joins(a, b, o, c) ==
  /\ DOMAIN b = AppFields
  /\ b.painted = a.painted /\ b.autoSwitch = o
  /\ b.op = [a.op EXCEPT ![o] = c]
  /\ SameAhead(a, b) /\ SameLanes(a, b) /\ SamePolling(a, b) /\ SameLayer(a, b) /\ OperatorType(b)
  /\ \/ /\ c.pc = "preloading" /\ c.target \in Site
        /\ a.painted = National /\ b.transition = None /\ SameNational(a, b)
     \/ /\ c.pc = "revealing" /\ c.target = National
        /\ a.painted \in Site /\ b.transition = o
        /\ a.nationalResident /\ b.nationalVisible = TRUE
        /\ b.nationalLayer = a.nationalLayer /\ b.nationalPresents = a.nationalPresents
        /\ b.nationalResident = a.nationalResident /\ b.nationalShown = a.nationalShown

(* A free slot becomes the automatic switch.                                *)
LEMMA JoinKeeps ==
  ASSUME NEW a, NEW b, SwitchInv(a), NEW o \in Op, NEW c \in Call,
         a.op[o].pc = "idle", a.autoSwitch = None, a.transition = None, a.painted # None,
         ~c.abandoned, ~c.acquire, ~c.staged, Joins(a, b, o, c)
  PROVE  SwitchInv(b)
<1>0. /\ a.op \in [Op -> Call] /\ None \notin Op /\ None \notin Site /\ National \notin Site
      /\ National # None /\ a.op[o] = NoOp
  BY NamesSuffice, SourcesDiffer DEF SwitchInv, SwitchType, CallShape
<1>1. /\ b.op \in [Op -> Call] /\ b.op[o] = c
      /\ \A q \in Op : q # o => b.op[q] = a.op[q]
  BY <1>0 DEF Joins
<1>2. ~Named(c) /\ ~Layered(c) /\ CallShape(c) /\ (Revealing(c) <=> c.pc = "revealing")
  BY <1>0 DEF Joins, Named, Layered, CallShape, Revealing
<1>3. /\ ~Named(NoOp) /\ ~Layered(NoOp) /\ ~Revealing(NoOp) /\ ~NoOp.abandoned
      /\ ~NoOp.acquire /\ ~NoOp.staged /\ NoOp.pc = "idle"
  BY <1>0 DEF NoOp, Named, Layered, Revealing
<1>4. \A q \in Op : /\ Named(b.op[q]) <=> q # o /\ Named(a.op[q])
                    /\ Named(a.op[q]) => q # o
                    /\ Layered(b.op[q]) <=> q # o /\ Layered(a.op[q])
                    /\ Layered(a.op[q]) => q # o
                    /\ b.op[q].acquire => q # o /\ a.op[q].acquire
                    /\ ~b.op[q].abandoned
                    /\ ~b.op[q].staged
                    /\ b.op[q].pc = "preloading" => q = o
                    /\ Revealing(b.op[q]) => q = o
                    /\ ~a.op[q].staged /\ ~Revealing(a.op[q])
  <2>1. \A q \in Op : ~a.op[q].abandoned /\ a.op[q].pc # "preloading" /\ ~Revealing(a.op[q])
    BY <1>0 DEF SwitchInv, CallsInv
  <2>2. \A q \in Op : ~a.op[q].staged
    BY <1>0 DEF SwitchInv, NationalInv, DrawnInv
  <2> QED
    BY <1>0, <1>1, <1>2, <1>3, <2>1, <2>2
<1>5. SwitchType(b)
  <2>1. \A q \in Op : CallShape(b.op[q])
    BY <1>1, <1>2 DEF SwitchInv, SwitchType
  <2>2. /\ b.nationalLayer \in BOOLEAN /\ b.nationalVisible \in BOOLEAN /\ b.nationalPresents \in BOOLEAN
        /\ b.nationalResident \in BOOLEAN /\ b.nationalShown \in BOOLEAN
        /\ b.transition \in Op \cup {None}
    BY DEF SwitchInv, SwitchType, Joins, SameNational
  <2> QED
    BY <1>1, <2>1, <2>2 DEF SwitchInv, SwitchType, Joins, SameAhead, SameLanes, SameLayer, OperatorType
<1>6. CallsInv(b)
  <2>1. b.painted # None /\ b.autoSwitch = o
    BY DEF Joins
  <2>2. b.transition # None => b.transition = o /\ c.pc = "revealing" /\ c.target = National
    BY <1>0 DEF Joins
  <2>3. /\ c.pc # "idle" /\ (c.pc = "preloading" \/ b.transition = o)
        /\ IF c.target \in Site THEN b.painted = National ELSE b.painted \in Site
    BY <1>0 DEF Joins
  <2>4. \A q \in Op : Revealing(b.op[q]) => b.autoSwitch = q /\ b.nationalResident
    BY <1>0, <1>1, <1>2, <1>4 DEF Joins
  <2> QED
    BY <1>0, <1>1, <1>4, <2>1, <2>2, <2>3, <2>4 DEF CallsInv
<1>7. SlotsInv(b)
  BY <1>0 DEF SlotsInv, Joins
<1>8. GenerationsInv(b)
  <2>1. \A q \in Op : Named(b.op[q]) => b.op[q] = a.op[q] /\ Named(a.op[q])
    BY <1>1, <1>4
  <2>2. \A q \in Op : Named(b.op[q]) => b.op[q].generation # b.transferGeneration
    BY <1>0, <2>1 DEF SwitchInv, GenerationsInv, Joins, SameLanes
  <2> QED
    BY <1>4, <2>1, <2>2 DEF SwitchInv, GenerationsInv, Joins, SameAhead
<1>9. NationalInv(b)
  <2>1. OwnedInv(b)
    BY <1>0 DEF SwitchInv, NationalInv, OwnedInv, Joins, SameLanes, SameNational, LaneIs, Drawn
  <2>2. \A q \in Op : b.transition = q \/ b.autoSwitch = q => q = o
    BY <1>0 DEF Joins
  <2>3. AcquiringInv(b)
    BY <1>4, <2>2 DEF AcquiringInv
  <2>4. \A q \in Op : b.transition = q /\ Revealing(b.op[q]) => b.nationalVisible
    BY <1>0, <1>1 DEF Joins, Revealing
  <2>5. ASSUME Drawn(b), b.painted # National PROVE Revealing(b.op[o])
    BY <1>1, <1>2, <2>5 DEF Joins
  <2> QED
    BY <1>4, <2>1, <2>3, <2>4, <2>5 DEF NationalInv, DrawnInv
<1>10. PollingInv(b)
  <2>1. a.painted \in Site => a.polling = a.painted
    BY <1>0 DEF SwitchInv, PollingInv
  <2>2. b.transition # None => b.transition = o /\ b.op[o].target = National
    BY <1>0, <1>1 DEF Joins
  <2> QED
    BY <1>0, <2>1, <2>2 DEF PollingInv, Joins, SamePolling
<1>11. LayerInv(b)
  <2>1. ASSUME NEW q \in Op, Layered(b.op[q])
        PROVE  /\ b.mapped = [by |-> q, site |-> b.op[q].target]
               /\ b.painted \notin Site
               /\ b.transition = None
    <3>1. q # o /\ Layered(a.op[q]) /\ b.op[q] = a.op[q]
      BY <1>1, <1>4, <2>1
    <3>2. a.mapped = [by |-> q, site |-> a.op[q].target] /\ a.painted \notin Site
      BY <3>1 DEF SwitchInv, LayerInv
    <3> QED
      BY <3>1, <3>2 DEF Joins, SameLayer
  <2>2. b.mapped # NoLayer => b.painted \in Site \/ (b.mapped.by \in Op /\ Layered(b.op[b.mapped.by]))
    BY <1>4 DEF SwitchInv, LayerInv, Joins, SameLayer
  <2>3. b.painted \in Site => b.opacity = "full" \/ \E q \in Op : b.op[q].pc = "fading" /\ b.op[q].target = National
    <3> SUFFICES ASSUME b.painted \in Site, b.opacity # "full"
                 PROVE  \E q \in Op : b.op[q].pc = "fading" /\ b.op[q].target = National
      OBVIOUS
    <3>1. PICK q \in Op : a.op[q].pc = "fading" /\ a.op[q].target = National
      BY DEF SwitchInv, LayerInv, Joins, SameLayer
    <3> QED
      BY <1>1, <1>3, <1>0, <3>1
  <2>4. b.layer = b.mapped /\ (b.painted \in Site => b.layer.site = b.painted)
    BY DEF SwitchInv, LayerInv, Joins, SameLayer
  <2> QED
    BY <2>1, <2>2, <2>3, <2>4 DEF LayerInv
<1> QED
  BY <1>5, <1>6, <1>7, <1>8, <1>9, <1>10, <1>11 DEF SwitchInv

(* A switch to a Site waits for the scan that is being fetched.             *)
LEMMA SessionStartKeeps ==
  ASSUME NEW a, NEW x, SwitchInv(a), NEW o \in Op, NEW site \in Site,
         MayBegin(a, o), a.op[o].pc = "idle", a.painted = National, Beginning(a, x, o)
  PROVE  SwitchInv(startSiteSession(x, o, site))
<1>0. /\ None \notin Site /\ National \notin Site /\ National # None
      /\ a.autoSwitch = None /\ a.transition = None
  BY SourcesDiffer DEF MayBegin
<1>1. CASE ~IsPrefetching(x, site)
  BY <1>0, <1>1, SiteStartKeeps DEF startSiteSession
<1>2. CASE IsPrefetching(x, site)
  <2> DEFINE c == [NoOp EXCEPT !.pc = "preloading", !.target = site, !.waits = x.prefetchInFlight]
             b == [x EXCEPT !.op[o] = c]
  <2>1. SwitchType(x)
    BY BeginningType
  <2>2. c \in Call /\ ~c.abandoned /\ ~c.acquire /\ ~c.staged /\ c.pc = "preloading" /\ c.target = site
    BY <2>1 DEF SwitchType, NoOp, Call, Source
  <2> HIDE DEF c
  <2>3. /\ DOMAIN b = AppFields /\ b.op = [x.op EXCEPT ![o] = c]
        /\ b.painted = x.painted /\ b.transition = x.transition /\ b.autoSwitch = x.autoSwitch
        /\ SameAhead(x, b) /\ SameLanes(x, b) /\ SameNational(x, b) /\ SamePolling(x, b)
        /\ SameLayer(x, b) /\ SameOperator(x, b)
    BY <2>1, FieldsAre DEF SwitchType, SameAhead, SameLanes, SameNational, SamePolling, SameLayer,
       SameOperator
  <2>4. startSiteSession(x, o, site) = b
    BY <1>2 DEF startSiteSession, c
  <2> HIDE DEF b
  <2>5. Joins(a, b, o, c)
    BY <1>0, <2>2, <2>3 DEF Joins, Beginning, SameAhead, SameLanes, SameNational, SamePolling, SameLayer,
       SameOperator, OperatorType
  <2> QED
    BY <1>0, <2>2, <2>4, <2>5, JoinKeeps
<1> QED
  BY <1>1, <1>2

(* The resident National history is revealed.                               *)
LEMMA RevealStartKeeps ==
  ASSUME NEW a, NEW x, SwitchInv(a), NEW o \in Op,
         MayBegin(a, o), a.op[o].pc = "idle", a.painted \in Site, Beginning(a, x, o),
         nationalCanReveal(x)
  PROVE  SwitchInv(revealNational(x, o))
<1> DEFINE c == [NoOp EXCEPT !.pc = "revealing", !.target = National,
                             !.generation = x.nationalGeneration]
           b == [x EXCEPT !.op[o] = c, !.transition = o, !.nationalVisible = TRUE]
<1>0. /\ None \notin Site /\ National \notin Site /\ National # None
      /\ a.painted # None /\ a.autoSwitch = None /\ a.transition = None
  BY SourcesDiffer DEF MayBegin
<1>1. SwitchType(x)
  BY BeginningType
<1>2. /\ c \in Call /\ ~c.abandoned /\ ~c.acquire /\ ~c.staged /\ c.pc = "revealing"
      /\ c.target = National
  BY <1>1 DEF SwitchType, NoOp, Call, Source
<1> HIDE DEF c
<1>3. /\ DOMAIN b = AppFields /\ b.op = [x.op EXCEPT ![o] = c]
      /\ b.painted = x.painted /\ b.transition = o /\ b.autoSwitch = x.autoSwitch
      /\ SameAhead(x, b) /\ SameLanes(x, b) /\ SamePolling(x, b)
      /\ SameLayer(x, b) /\ SameOperator(x, b)
      /\ b.nationalVisible = TRUE
      /\ b.nationalLayer = x.nationalLayer /\ b.nationalPresents = x.nationalPresents
      /\ b.nationalResident = x.nationalResident /\ b.nationalShown = x.nationalShown
  BY <1>1, FieldsAre DEF SwitchType, SameAhead, SameLanes, SamePolling, SameLayer, SameOperator
<1>4. revealNational(x, o) = b
  BY DEF revealNational, c
<1> HIDE DEF b
<1>5. Joins(a, b, o, c)
  BY <1>0, <1>2, <1>3 DEF Joins, Beginning, SameAhead, SameLanes, SameNational, SamePolling, SameLayer,
     SameOperator, OperatorType, nationalCanReveal
<1> QED
  BY <1>0, <1>2, <1>4, <1>5, JoinKeeps

(* A current National frame is acquired: at the launch, or for the camera   *)
(* over a painted Site.                                                     *)
LEMMA AcquireStartKeeps ==
  ASSUME NEW a, NEW x, SwitchInv(a), NEW o \in Op,
         MayBegin(a, o), a.op[o].pc = "idle", a.painted # National, Beginning(a, x, o),
         a.painted = None => (\A q \in Op : a.op[q] = NoOp) /\ a.mapped = NoLayer
  PROVE  SwitchInv(acquireNational(x, o))
<1> DEFINE g == nextGeneration(x)
           c == [NoOp EXCEPT !.pc = "beginning", !.target = National,
                             !.generation = g, !.acquire = TRUE]
           b == acquireNational(x, o)
<1>0. /\ a.op \in [Op -> Call] /\ None \notin Op /\ None \notin Site /\ National \notin Site
      /\ National # None /\ a.op[o] = NoOp /\ a.autoSwitch = None
      /\ a.painted \in Site \cup {None}
  BY NamesSuffice, SourcesDiffer DEF SwitchInv, SwitchType, CallShape, MayBegin, Source
<1>1. SwitchType(x)
  BY BeginningType
<1>2. /\ g \in Nat /\ g # x.prefetchedSite.generation
      /\ \A q \in Op : g # x.op[q].generation
      /\ \A p \in Prefetch : g # x.prefetch[p].generation
  BY <1>1, FreshIsNew
<1> HIDE DEF g
<1>3. /\ c \in Call /\ c.pc = "beginning" /\ c.target = National /\ c.generation = g /\ c.acquire
      /\ ~c.abandoned /\ ~c.staged
  BY <1>2 DEF NoOp, Call, Source
<1> HIDE DEF c
<1>4. /\ DOMAIN b = AppFields /\ b.op = [x.op EXCEPT ![o] = c]
      /\ b.painted = x.painted /\ b.transition = o /\ b.autoSwitch = x.autoSwitch
      /\ SameAhead(x, b) /\ SameLayer(x, b) /\ SameOperator(x, b)
      /\ b.transferGeneration = g /\ b.nationalGeneration = g /\ b.nationalChain = 0
      /\ b.nationalResident = FALSE /\ b.polling = None /\ b.pollingBy = None
      /\ b.nationalLayer = x.nationalLayer /\ b.nationalPresents = x.nationalPresents
      /\ b.nationalVisible = x.nationalVisible /\ b.nationalShown = x.nationalShown
      /\ b.lane = [[x.lane EXCEPT !["site"].active = FALSE]
                     EXCEPT !["national"] = [generation |-> g, active |-> FALSE]]
  <2> DEFINE d == [x EXCEPT !.op[o] = c, !.transition = o, !.transferGeneration = g,
                            !.nationalGeneration = g, !.nationalResident = FALSE,
                            !.polling = None, !.pollingBy = None, !.nationalChain = 0]
             e == [d EXCEPT !.lane["site"].active = FALSE]
  <2>1. /\ DOMAIN d = AppFields /\ d.op = [x.op EXCEPT ![o] = c]
        /\ d.painted = x.painted /\ d.transition = o /\ d.autoSwitch = x.autoSwitch
        /\ SameAhead(x, d) /\ SameLayer(x, d) /\ SameOperator(x, d)
        /\ d.transferGeneration = g /\ d.nationalGeneration = g /\ d.nationalChain = 0
        /\ d.nationalResident = FALSE /\ d.polling = None /\ d.pollingBy = None
        /\ d.nationalLayer = x.nationalLayer /\ d.nationalPresents = x.nationalPresents
        /\ d.nationalVisible = x.nationalVisible /\ d.nationalShown = x.nationalShown
        /\ d.lane = x.lane
    BY <1>1, FieldsAre DEF SwitchType, SameAhead, SameLayer, SameOperator
  <2>2. b = [e EXCEPT !.lane["national"] = [generation |-> g, active |-> FALSE]]
    BY DEF acquireNational, begin, cancel, c, g
  <2> HIDE DEF d, b
  <2> QED
    BY <2>1, <2>2, FieldsAre DEF SameAhead, SameLayer, SameOperator
<1> HIDE DEF b
<1>5. /\ b.op \in [Op -> Call] /\ b.op[o] = c
      /\ \A q \in Op : q # o => b.op[q] = a.op[q]
  BY <1>0, <1>3, <1>4 DEF Beginning
<1>6. Named(c) /\ ~Layered(c) /\ CallShape(c) /\ ~Revealing(c)
  BY <1>0, <1>3 DEF Named, Layered, CallShape, Revealing
<1>7. /\ ~Named(NoOp) /\ ~Layered(NoOp) /\ ~Revealing(NoOp) /\ ~NoOp.abandoned
      /\ ~NoOp.acquire /\ ~NoOp.staged /\ NoOp.pc = "idle"
  BY <1>0 DEF NoOp, Named, Layered, Revealing
<1>8. a.painted # None => a.transition = None
  BY DEF MayBegin
<1>9. \A q \in Op : ~Layered(a.op[q]) /\ ~a.op[q].staged /\ ~Revealing(a.op[q]) /\ ~a.op[q].abandoned
                    /\ a.op[q].pc # "preloading"
  <2>1. \A q \in Op : ~a.op[q].abandoned /\ a.op[q].pc # "preloading" /\ ~Revealing(a.op[q])
    BY <1>0 DEF SwitchInv, CallsInv
  <2>2. \A q \in Op : ~a.op[q].staged
    BY <1>0, <1>7, <1>8 DEF SwitchInv, NationalInv, DrawnInv
  <2>3. \A q \in Op : ~Layered(a.op[q])
    BY <1>0, <1>7 DEF SwitchInv, LayerInv
  <2> QED
    BY <2>1, <2>2, <2>3
<1>10. \A q \in Op : /\ Named(b.op[q]) => q = o \/ (b.op[q] = a.op[q] /\ Named(a.op[q]))
                     /\ ~Layered(b.op[q]) /\ ~b.op[q].abandoned /\ ~b.op[q].staged
                     /\ ~Revealing(b.op[q]) /\ b.op[q].pc # "preloading"
                     /\ b.transition = q \/ b.autoSwitch = q => q = o
  BY <1>0, <1>3, <1>4, <1>5, <1>6, <1>9 DEF Beginning
<1>11. SwitchType(b)
  <2>1. \A q \in Op : CallShape(b.op[q])
    BY <1>5, <1>6 DEF SwitchInv, SwitchType
  <2>2. b.lane \in [{"site", "national"} -> [generation : Nat, active : BOOLEAN]]
    <3> DEFINE n == [generation |-> g, active |-> FALSE]
               m == [x.lane EXCEPT !["site"].active = FALSE]
    <3>1. n \in [generation : Nat, active : BOOLEAN]
      BY <1>2
    <3>2. m \in [{"site", "national"} -> [generation : Nat, active : BOOLEAN]]
      BY <1>1 DEF SwitchType
    <3>3. b.lane = [m EXCEPT !["national"] = n]
      BY <1>4
    <3> HIDE DEF n, m
    <3> QED
      BY <3>1, <3>2, <3>3
  <2>3. /\ b.transition \in Op /\ b.transferGeneration \in Nat /\ b.nationalGeneration \in Nat
        /\ b.nationalChain \in Nat /\ b.nationalResident \in BOOLEAN
    <3>1. /\ b.transition = o /\ b.transferGeneration = g /\ b.nationalGeneration = g
          /\ b.nationalChain = 0 /\ b.nationalResident = FALSE
      BY <1>4
    <3>2. g \in Nat
      BY <1>2
    <3>3. b.nationalResident \in BOOLEAN
      BY <3>1, Zenon
    <3> QED
      BY <3>1, <3>2, <3>3
  <2>4. /\ DOMAIN b = AppFields /\ b.painted = x.painted /\ b.autoSwitch = x.autoSwitch
        /\ SameAhead(x, b) /\ SameLayer(x, b) /\ SameOperator(x, b)
        /\ b.nationalLayer = x.nationalLayer /\ b.nationalPresents = x.nationalPresents
        /\ b.nationalVisible = x.nationalVisible /\ b.nationalShown = x.nationalShown
    BY <1>4
  <2>5. b.op \in [Op -> Call]
    BY <1>5
  <2> QED
    BY <1>1, <2>1, <2>2, <2>3, <2>4, <2>5 DEF SwitchType, SameAhead, SameLayer, SameOperator
<1>12. CallsInv(b)
  <2>1. /\ b.transition = o /\ b.painted = a.painted
        /\ b.autoSwitch = IF a.painted = None THEN None ELSE o
        /\ b.nationalShown = a.nationalShown /\ b.nationalResident = FALSE
    BY <1>4 DEF Beginning, SameNational
  <2>2. a.painted = None => ~a.nationalShown
    BY DEF SwitchInv, CallsInv
  <2> QED
    BY <1>0, <1>3, <1>5, <1>10, <2>1, <2>2 DEF CallsInv
<1>13. SlotsInv(b)
  <2>1. b.autoSwitch = None => a.painted = None
    BY <1>0, <1>4 DEF Beginning
  <2>2. a.painted = None => \E q \in Op : q # o /\ b.op[q].pc = "idle"
    BY <1>5 DEF MayBegin, FreeOp
  <2>3. b.painted = None => ~b.picking.chosen
    BY <1>4 DEF Beginning, SameOperator
  <2> QED
    BY <2>1, <2>2, <2>3 DEF SlotsInv, FreeOp
<1>14. GenerationsInv(b)
  <2>1. \A q \in Op : q # o /\ Named(b.op[q]) => b.op[q] = a.op[q] /\ Named(a.op[q]) /\ b.op[q].generation # g
    BY <1>2, <1>10 DEF Beginning
  <2>2. /\ b.op[o].generation = g
        /\ \A p \in Prefetch : b.prefetch[p] = a.prefetch[p] /\ g # b.prefetch[p].generation
        /\ b.prefetchedSite = a.prefetchedSite /\ g # b.prefetchedSite.generation
    BY <1>2, <1>3, <1>4, <1>5 DEF Beginning, SameAhead
  <2>3. \A q \in Op : Named(b.op[q]) /\ b.op[q].generation = b.transferGeneration => q = o
    BY <1>4, <2>1
  <2>4. \A q, r \in Op : q # r /\ Named(b.op[q]) /\ Named(b.op[r]) => b.op[q].generation # b.op[r].generation
    BY <2>1, <2>2 DEF SwitchInv, GenerationsInv
  <2>5. \A p \in Prefetch : b.prefetch[p].pc # "idle" =>
       /\ \A q \in Op : Named(b.op[q]) => b.op[q].generation # b.prefetch[p].generation
       /\ \A r \in Prefetch : r # p /\ b.prefetch[r].pc # "idle" => b.prefetch[r].generation # b.prefetch[p].generation
       /\ b.prefetchedSite.site # None => b.prefetchedSite.generation # b.prefetch[p].generation
    BY <2>1, <2>2 DEF SwitchInv, GenerationsInv
  <2>6. b.prefetchedSite.site # None =>
       \A q \in Op : Named(b.op[q]) => b.op[q].generation # b.prefetchedSite.generation
    BY <2>1, <2>2 DEF SwitchInv, GenerationsInv
  <2> QED
    BY <1>4, <1>10, <2>3, <2>4, <2>5, <2>6 DEF GenerationsInv
<1>15. NationalInv(b)
  <2>1. b.painted # National /\ b.nationalResident = FALSE
    BY <1>4 DEF Beginning
  <2>2. OwnedInv(b)
    BY <2>1 DEF OwnedInv
  <2>3. AcquiringInv(b)
    BY <1>3, <1>4, <1>5, <1>10, <2>1 DEF AcquiringInv
  <2>4. ~Drawn(b)
    <3>1. ~Drawn(a)
      BY <1>9 DEF SwitchInv, NationalInv, DrawnInv
    <3> QED
      BY <1>4, <3>1 DEF Drawn, Beginning, SameNational
  <2> QED
    BY <1>10, <2>2, <2>3, <2>4 DEF NationalInv, DrawnInv
<1>16. PollingInv(b)
  BY <1>0, <1>3, <1>4, <1>5 DEF PollingInv, Beginning
<1>17. LayerInv(b)
  <2>1. b.layer = a.layer /\ b.mapped = a.mapped /\ b.opacity = a.opacity /\ b.painted = a.painted
    BY <1>4 DEF Beginning, SameLayer
  <2>2. b.painted \in Site => b.opacity = "full" \/ \E q \in Op : b.op[q].pc = "fading" /\ b.op[q].target = National
    <3> SUFFICES ASSUME b.painted \in Site, b.opacity # "full"
                 PROVE  \E q \in Op : b.op[q].pc = "fading" /\ b.op[q].target = National
      OBVIOUS
    <3>1. PICK q \in Op : a.op[q].pc = "fading" /\ a.op[q].target = National
      BY <2>1 DEF SwitchInv, LayerInv
    <3> QED
      BY <1>0, <1>5, <1>7, <3>1
  <2>3. b.layer = b.mapped /\ (b.painted \in Site => b.layer.site = b.painted)
    BY <2>1 DEF SwitchInv, LayerInv
  <2>4. b.mapped # NoLayer => b.painted \in Site
    BY <1>9, <2>1 DEF SwitchInv, LayerInv
  <2> QED
    BY <1>10, <2>2, <2>3, <2>4 DEF LayerInv
<1> QED
  BY <1>11, <1>12, <1>13, <1>14, <1>15, <1>16, <1>17 DEF SwitchInv, b

(* National is revealed or acquired over a painted Site.                    *)
LEMMA NationalStartKeeps ==
  ASSUME NEW a, NEW x, SwitchInv(a), NEW o \in Op,
         MayBegin(a, o), a.op[o].pc = "idle", a.painted \in Site, Beginning(a, x, o)
  PROVE  SwitchInv(startNational(x, o))
<1>1. a.painted # National /\ a.painted # None
  BY SourcesDiffer
<1> QED
  BY <1>1, RevealStartKeeps, AcquireStartKeeps DEF startNational

-----------------------------------------------------------------------------
(* An automatic switch is given up: its download stops.                     *)
LEMMA AbandonKeeps ==
  ASSUME NEW a, SwitchInv(a) PROVE SwitchInv(abandonAutoSwitch(a))
<1> DEFINE o == a.autoSwitch
           c == [a.op[o] EXCEPT !.abandoned = TRUE]
           b == abandonAutoSwitch(a)
<1>0. /\ a.op \in [Op -> Call] /\ None \notin Op /\ None \notin Site /\ National \notin Site
      /\ National # None /\ o \in Op \cup {None} /\ DOMAIN a = AppFields
      /\ a.lane \in [{"site", "national"} -> [generation : Nat, active : BOOLEAN]]
  BY NamesSuffice, SourcesDiffer DEF SwitchInv, SwitchType
<1>1. CASE o = None \/ a.op[o].abandoned
  BY <1>1 DEF abandonAutoSwitch
<1>2. CASE o # None /\ ~a.op[o].abandoned
  <2>1. o \in Op /\ a.painted # None /\ a.transition \in {None, o}
    BY <1>0, <1>2 DEF SwitchInv, CallsInv
  <2>2. /\ DOMAIN b = AppFields
        /\ b.op = [a.op EXCEPT ![o].abandoned = TRUE]
        /\ b.painted = a.painted /\ b.transition = None /\ b.autoSwitch = o
        /\ SameAhead(a, b) /\ SamePolling(a, b) /\ SameNational(a, b) /\ SameLayer(a, b)
        /\ SameOperator(a, b)
        /\ b.transferGeneration = a.transferGeneration
        /\ b.nationalGeneration = a.nationalGeneration /\ b.nationalChain = a.nationalChain
        /\ b.lane = IF a.op[o].target \in Site THEN [a.lane EXCEPT !["site"].active = FALSE]
                    ELSE IF a.op[o].acquire THEN [a.lane EXCEPT !["national"].active = FALSE]
                    ELSE a.lane
    <3> DEFINE d == [a EXCEPT !.op[o].abandoned = TRUE,
                     !.transition = IF @ # None /\ a.op[@].target = a.op[o].target
                                    THEN None ELSE @]
    <3>1. /\ DOMAIN d = AppFields
          /\ d.op = [a.op EXCEPT ![o].abandoned = TRUE]
          /\ d.painted = a.painted /\ d.transition = None /\ d.autoSwitch = o
          /\ SameAhead(a, d) /\ SamePolling(a, d) /\ SameNational(a, d) /\ SameLayer(a, d)
          /\ SameOperator(a, d) /\ SameLanes(a, d)
      BY <1>0, <2>1, FieldsAre DEF SameAhead, SamePolling, SameNational, SameLayer,
         SameOperator, SameLanes
    <3>2. b = IF a.op[o].target \in Site THEN cancel(d, "site")
              ELSE IF a.op[o].acquire THEN cancel(d, "national") ELSE d
      BY <1>2 DEF abandonAutoSwitch
    <3> HIDE DEF d, b
    <3>3. CASE a.op[o].target \in Site
      BY <3>1, <3>2, <3>3, FieldsAre DEF SameAhead, SamePolling, SameNational, SameLayer,
         SameOperator, SameLanes, cancel
    <3>4. CASE a.op[o].target \notin Site /\ a.op[o].acquire
      BY <3>1, <3>2, <3>4, FieldsAre DEF SameAhead, SamePolling, SameNational, SameLayer,
         SameOperator, SameLanes, cancel
    <3>5. CASE a.op[o].target \notin Site /\ ~a.op[o].acquire
      BY <3>1, <3>2, <3>5 DEF SameAhead, SamePolling, SameNational, SameLayer,
         SameOperator, SameLanes
    <3> QED
      BY <3>3, <3>4, <3>5
  <2> HIDE DEF b
  <2>3. c \in Call /\ a.op[o] \in Call /\ CallShape(a.op[o])
    <3>1. a.op[o] \in Call
      BY <1>0, <2>1
    <3>2. CallShape(a.op[o])
      BY <2>1 DEF SwitchInv, SwitchType
    <3> QED
      BY <3>1, <3>2 DEF Call
  <2>4. /\ c.pc = a.op[o].pc /\ c.target = a.op[o].target /\ c.generation = a.op[o].generation
        /\ c.acquire = a.op[o].acquire /\ c.staged = a.op[o].staged /\ c.abandoned
    BY <2>3 DEF Call
  <2>5. b.op \in [Op -> Call] /\ b.op[o] = c /\ \A q \in Op : q # o => b.op[q] = a.op[q]
    BY <1>0, <2>1, <2>2, <2>3
  <2> HIDE DEF c
  <2>6. \A q \in Op : /\ b.op[q].pc = a.op[q].pc /\ b.op[q].target = a.op[q].target
                      /\ b.op[q].generation = a.op[q].generation
                      /\ b.op[q].acquire = a.op[q].acquire /\ b.op[q].staged = a.op[q].staged
                      /\ b.op[q].abandoned <=> q = o
    <3>1. \A q \in Op : a.op[q].abandoned => q = o
      BY DEF SwitchInv, CallsInv
    <3>2. \A q \in Op : q # o => ~a.op[q].abandoned
      BY <1>2, <3>1
    <3> QED
      BY <2>1, <2>4, <2>5, <3>2
  <2>7. \A q \in Op : /\ Named(b.op[q]) <=> Named(a.op[q])
                      /\ Layered(b.op[q]) <=> Layered(a.op[q])
                      /\ Revealing(b.op[q]) <=> Revealing(a.op[q])
    BY <2>6 DEF Named, Layered, Revealing
  <2>8. a.op[o].pc # "idle"
    BY <2>1, <1>2 DEF SwitchInv, CallsInv
  <2>9. /\ b.lane \in [{"site", "national"} -> [generation : Nat, active : BOOLEAN]]
        /\ a.op[o].target \in Site => ~b.lane["site"].active
        /\ a.op[o].acquire => ~b.lane["national"].active
        /\ ~a.op[o].acquire => b.lane["national"] = a.lane["national"]
    <3>1. a.op[o].acquire => a.op[o].target \notin Site
      BY <1>0, <2>3 DEF CallShape
    <3>2. b.lane \in {a.lane, [a.lane EXCEPT !["site"].active = FALSE], [a.lane EXCEPT !["national"].active = FALSE]}
      BY <2>2
    <3>3. b.lane \in [{"site", "national"} -> [generation : Nat, active : BOOLEAN]]
      BY <1>0, <3>2
    <3>4. a.op[o].target \in Site => b.lane = [a.lane EXCEPT !["site"].active = FALSE]
      BY <2>2
    <3>5. a.op[o].acquire => b.lane = [a.lane EXCEPT !["national"].active = FALSE]
      BY <2>2, <3>1
    <3>6. ~a.op[o].acquire => b.lane \in {a.lane, [a.lane EXCEPT !["site"].active = FALSE]}
      BY <2>2
    <3> QED
      BY <1>0, <3>3, <3>4, <3>5, <3>6
  <2>10. SwitchType(b)
    <3>1. \A q \in Op : CallShape(b.op[q])
      <4>1. CallShape(c)
        BY <2>3, <2>4, <2>8 DEF CallShape, Revealing
      <4> QED
        BY <2>5, <4>1 DEF SwitchInv, SwitchType
    <3>2. SwitchType(a)
      BY DEF SwitchInv
    <3>3. /\ DOMAIN b = AppFields /\ b.painted = a.painted /\ b.transition = None /\ b.autoSwitch = o
          /\ SameAhead(a, b) /\ SameNational(a, b) /\ SameLayer(a, b) /\ SameOperator(a, b)
          /\ b.transferGeneration = a.transferGeneration
          /\ b.nationalGeneration = a.nationalGeneration /\ b.nationalChain = a.nationalChain
      BY <2>2
    <3>4. b.op \in [Op -> Call] /\ b.lane \in [{"site", "national"} -> [generation : Nat, active : BOOLEAN]]
      BY <2>5, <2>9
    <3> QED
      BY <1>0, <3>1, <3>2, <3>3, <3>4 DEF SwitchType, SameAhead, SameLayer, SameOperator, SameNational
  <2>11. CallsInv(b)
    <3>1. b.transition = None /\ b.autoSwitch = o /\ b.painted = a.painted /\ b.nationalResident = a.nationalResident
      BY <2>2 DEF SameNational
    <3>2. IF a.op[o].target \in Site THEN a.painted = National ELSE a.painted \in Site
      BY <1>2 DEF SwitchInv, CallsInv
    <3>3. \A q \in Op : a.op[q].pc = "preloading" \/ Revealing(a.op[q]) => q = o
      BY DEF SwitchInv, CallsInv
    <3>4. \A q \in Op : Revealing(a.op[q]) => a.nationalResident
      BY DEF SwitchInv, CallsInv
    <3> QED
      BY <1>2, <2>1, <2>6, <2>7, <2>8, <3>1, <3>2, <3>3, <3>4 DEF CallsInv
  <2>12. SlotsInv(b)
    BY <1>2, <2>1, <2>2 DEF SlotsInv
  <2>13. GenerationsInv(b)
    <3>1. \A q \in Op : a.transition = q \/ a.autoSwitch = q => b.autoSwitch = q
      BY <1>0, <2>1, <2>2
    <3>2. \A q \in Op : b.op[q].abandoned =>
            /\ b.op[q].pc = "downloading" => ~LaneIs(b, "site", b.op[q].generation)
            /\ b.op[q].pc = "preparing" => ~LaneIs(b, "national", b.op[q].generation)
      <4>1. a.op[o].pc = "downloading" => ~b.lane["site"].active
        BY <2>3, <2>9 DEF CallShape
      <4>2. a.op[o].pc = "preparing" => ~b.lane["national"].active
        BY <2>3, <2>9 DEF CallShape
      <4> QED
        BY <2>6, <4>1, <4>2 DEF LaneIs
    <3>3. b.transferGeneration = a.transferGeneration /\ SameAhead(a, b)
      BY <2>2
    <3> QED
      BY <2>6, <2>7, <3>1, <3>2, <3>3 DEF SwitchInv, GenerationsInv, SameAhead
  <2>14. NationalInv(b)
    <3>1. a.op[o].acquire => a.painted # National /\ ~a.nationalResident
      BY <2>1 DEF SwitchInv, NationalInv, AcquiringInv
    <3>2. Drawn(b) <=> Drawn(a)
      BY <2>2 DEF Drawn, SameNational
    <3>3. OwnedInv(b)
      BY <2>2, <2>9, <3>1, <3>2 DEF SwitchInv, NationalInv, OwnedInv, LaneIs, SameNational
    <3>4. \A q \in Op : b.transition # q /\ (b.autoSwitch = q => q = o)
      BY <1>0, <2>2
    <3>5. AcquiringInv(b)
      BY <2>2, <2>6, <3>1, <3>4 DEF AcquiringInv, SameNational
    <3>6. \A q \in Op : a.op[q].staged => q = o
      BY <1>0, <2>1 DEF SwitchInv, NationalInv, DrawnInv
    <3>7. DrawnInv(b)
      <4>1. Drawn(b) /\ b.painted # National => \E q \in Op : Revealing(b.op[q]) \/ b.op[q].staged
        BY <2>2, <2>6, <2>7, <3>2 DEF SwitchInv, NationalInv, DrawnInv
      <4> QED
        BY <2>2, <2>6, <3>4, <3>6, <4>1 DEF DrawnInv
    <3> QED
      BY <3>3, <3>5, <3>7 DEF NationalInv
  <2>15. PollingInv(b)
    <3>1. b.op[o].acquire = a.op[o].acquire
      BY <2>1, <2>6
    <3> QED
      BY <1>2, <2>2, <3>1 DEF SwitchInv, PollingInv, SamePolling
  <2>16. LayerInv(b)
    <3>1. ASSUME NEW q \in Op, Layered(b.op[q])
          PROVE  b.mapped = [by |-> q, site |-> b.op[q].target] /\ b.painted \notin Site
      <4>1. Layered(a.op[q]) /\ b.op[q].target = a.op[q].target
        BY <2>6, <2>7, <3>1
      <4> QED
        BY <2>2, <4>1 DEF SwitchInv, LayerInv, SameLayer
    <3>2. b.mapped # NoLayer => b.painted \in Site \/ (b.mapped.by \in Op /\ Layered(b.op[b.mapped.by]))
      BY <2>2, <2>7 DEF SwitchInv, LayerInv, SameLayer
    <3>3. b.painted \in Site => b.opacity = "full" \/ \E q \in Op : b.op[q].pc = "fading" /\ b.op[q].target = National
      BY <2>2, <2>6 DEF SwitchInv, LayerInv, SameLayer
    <3>4. b.layer = b.mapped /\ (b.painted \in Site => b.layer.site = b.painted) /\ b.transition = None
      BY <2>2 DEF SwitchInv, LayerInv, SameLayer
    <3> QED
      BY <3>1, <3>2, <3>3, <3>4 DEF LayerInv
  <2> QED
    BY <2>10, <2>11, <2>12, <2>13, <2>14, <2>15, <2>16 DEF SwitchInv, b
<1> QED
  BY <1>1, <1>2

-----------------------------------------------------------------------------
(* A step of what is fetched ahead, which no switch notices.                *)
LEMMA AheadKeeps ==
  ASSUME NEW a, NEW b, SwitchInv(a), DOMAIN b = AppFields,
         SameCalls(a, b), SameLanes(a, b), SameNational(a, b), SamePolling(a, b), SameLayer(a, b),
         SameOperator(a, b),
         b.prefetch \in [Prefetch -> Ahead], b.prefetchInFlight \in Prefetch \cup {None},
         b.prefetchSession \in Prefetch \cup {None},
         b.prefetchedSite \in [site : Site \cup {None}, generation : Nat],
         \A p \in Prefetch : b.prefetch[p].pc # "idle" =>
           a.prefetch[p].pc # "idle" /\ b.prefetch[p].generation = a.prefetch[p].generation,
         \/ b.prefetchedSite = a.prefetchedSite
         \/ b.prefetchedSite.site = None
         \/ \E p \in Prefetch : /\ a.prefetch[p].pc # "idle" /\ b.prefetch[p].pc = "idle"
                                /\ b.prefetchedSite.generation = a.prefetch[p].generation
  PROVE  SwitchInv(b)
<1> USE DEF SameCalls, SameLanes, SameNational, SamePolling, SameLayer, SameOperator
<1>1. SwitchType(b)
  BY DEF SwitchInv, SwitchType
<1>2. CallsInv(b)
  BY DEF SwitchInv, CallsInv
<1>3. SlotsInv(b)
  <2>1. FreeOp(b) = FreeOp(a)
    BY DEF FreeOp
  <2> QED
    BY <2>1 DEF SwitchInv, SlotsInv
<1>4. GenerationsInv(b)
  <2>1. \A o, q \in Op : o # q /\ Named(b.op[o]) /\ Named(b.op[q]) => b.op[o].generation # b.op[q].generation
    BY DEF SwitchInv, GenerationsInv
  <2>2. \A p \in Prefetch : b.prefetch[p].pc # "idle" =>
       /\ \A o \in Op : Named(b.op[o]) => b.op[o].generation # b.prefetch[p].generation
       /\ \A q \in Prefetch : q # p /\ b.prefetch[q].pc # "idle" => b.prefetch[q].generation # b.prefetch[p].generation
    BY DEF SwitchInv, GenerationsInv
  <2>3. \A p \in Prefetch : b.prefetch[p].pc # "idle" /\ b.prefetchedSite.site # None
          => b.prefetchedSite.generation # b.prefetch[p].generation
    BY DEF SwitchInv, GenerationsInv
  <2>4. b.prefetchedSite.site # None =>
          \A o \in Op : Named(b.op[o]) => b.op[o].generation # b.prefetchedSite.generation
    BY DEF SwitchInv, GenerationsInv
  <2> QED
    BY <2>1, <2>2, <2>3, <2>4 DEF SwitchInv, GenerationsInv, LaneIs
<1>5. NationalInv(b)
  BY DEF SwitchInv, NationalInv, OwnedInv, AcquiringInv, DrawnInv, LaneIs, Drawn
<1>6. PollingInv(b)
  BY DEF SwitchInv, PollingInv
<1>7. LayerInv(b)
  BY DEF SwitchInv, LayerInv
<1> QED
  BY <1>1, <1>2, <1>3, <1>4, <1>5, <1>6, <1>7 DEF SwitchInv

(* A lane is opened, or another generation begun on it.                     *)
LEMMA LanesKeep ==
  ASSUME NEW a, NEW b, SwitchInv(a), DOMAIN b = AppFields,
         SameCalls(a, b), SameAhead(a, b), SameNational(a, b), SamePolling(a, b), SameLayer(a, b),
         SameOperator(a, b),
         b.nationalGeneration = a.nationalGeneration, b.nationalChain = a.nationalChain,
         b.lane \in [{"site", "national"} -> [generation : Nat, active : BOOLEAN]],
         b.transferGeneration \in Nat,
         \A o \in Op : a.op[o].abandoned =>
           /\ a.op[o].pc = "downloading" => ~LaneIs(b, "site", a.op[o].generation)
           /\ a.op[o].pc = "preparing" => ~LaneIs(b, "national", a.op[o].generation),
         \/ \A g : LaneIs(a, "national", g) => LaneIs(b, "national", g)
         \/ /\ a.painted # National /\ ~a.nationalResident
            /\ \A o \in Op : a.transition = o => ~a.op[o].acquire,
         \/ b.transferGeneration = a.transferGeneration
         \/ /\ \A o \in Op : b.transferGeneration # a.op[o].generation /\ (a.transition = o => ~a.op[o].acquire)
            /\ a.painted \in Site => a.polling = a.painted
  PROVE  SwitchInv(b)
<1> USE DEF SameCalls, SameAhead, SameNational, SamePolling, SameLayer, SameOperator
<1>1. SwitchType(b)
  BY DEF SwitchInv, SwitchType
<1>2. CallsInv(b)
  BY DEF SwitchInv, CallsInv
<1>3. SlotsInv(b)
  <2>1. FreeOp(b) = FreeOp(a)
    BY DEF FreeOp
  <2> QED
    BY <2>1 DEF SwitchInv, SlotsInv
<1>4. GenerationsInv(b)
  <2>1. \A o \in Op : Named(b.op[o]) /\ b.op[o].generation = b.transferGeneration =>
       b.transition = o \/ b.autoSwitch = o
    BY DEF SwitchInv, GenerationsInv
  <2>2. \A o \in Op : b.op[o].abandoned =>
           /\ b.op[o].pc = "downloading" => ~LaneIs(b, "site", b.op[o].generation)
           /\ b.op[o].pc = "preparing" => ~LaneIs(b, "national", b.op[o].generation)
    OBVIOUS
  <2> QED
    BY <2>1, <2>2 DEF SwitchInv, GenerationsInv
<1>5. NationalInv(b)
  <2>1. Drawn(b) <=> Drawn(a)
    BY DEF Drawn
  <2>2. OwnedInv(b)
    BY <2>1 DEF SwitchInv, NationalInv, OwnedInv
  <2>3. AcquiringInv(b)
    BY <2>1 DEF SwitchInv, NationalInv, AcquiringInv
  <2>4. DrawnInv(b)
    BY <2>1 DEF SwitchInv, NationalInv, DrawnInv
  <2> QED
    BY <2>2, <2>3, <2>4 DEF NationalInv
<1>6. PollingInv(b)
  BY DEF SwitchInv, PollingInv
<1>7. LayerInv(b)
  BY DEF SwitchInv, LayerInv
<1> QED
  BY <1>1, <1>2, <1>3, <1>4, <1>5, <1>6, <1>7 DEF SwitchInv

(* A Site's scan begins to be fetched ahead.                                *)
LEMMA PrefetchStartKeeps ==
  ASSUME NEW a, SwitchInv(a), NEW site \in Site PROVE SwitchInv(prefetchSite(a, site))
<1> DEFINE x == [a EXCEPT !.prefetchedSite = NoSweep]
           p == Min(FreePrefetch(a))
           g == nextGeneration(x)
           n == [pc |-> "beginning", site |-> site, generation |-> g]
           b == prefetchSite(a, site)
<1>0. /\ DOMAIN a = AppFields /\ SwitchType(a) /\ None \notin Site /\ None \notin Op /\ None # National
      /\ a.lane \in [{"site", "national"} -> [generation : Nat, active : BOOLEAN]]
      /\ a.prefetch \in [Prefetch -> Ahead] /\ National \notin Site
  BY NamesSuffice, SourcesDiffer DEF SwitchInv, SwitchType
<1>1. CASE ~MayPrefetch(a, site)
  BY <1>1 DEF prefetchSite
<1>2. CASE MayPrefetch(a, site)
  <2>1. p \in Prefetch /\ a.prefetch[p].pc = "idle"
    <3>1. FreePrefetch(a) \in SUBSET Nat /\ FreePrefetch(a) # {}
      BY <1>2, NamesSuffice DEF FreePrefetch, MayPrefetch
    <3>2. p \in FreePrefetch(a)
      BY <3>1, FirstOf
    <3> HIDE DEF p
    <3> QED
      BY <3>2 DEF FreePrefetch
  <2>2. /\ g \in Nat
        /\ \A o \in Op : g # a.op[o].generation
        /\ \A q \in Prefetch : g # a.prefetch[q].generation
    <3>1. x.op = a.op /\ x.prefetch = a.prefetch
      BY <1>0, FieldsAre
    <3>2. SwitchType(x)
      <4>1. NoSweep \in [site : Site \cup {None}, generation : Nat]
        BY DEF NoSweep
      <4> QED
        BY <1>0, <4>1, FieldsAre DEF SwitchType
    <3> HIDE DEF x
    <3> QED
      BY <3>1, <3>2, FreshIsNew
  <2> HIDE DEF g, p
  <2>3. n \in Ahead /\ n.pc = "beginning" /\ n.generation = g
    BY <2>2 DEF Ahead
  <2> HIDE DEF n
  <2>4. /\ DOMAIN b = AppFields
        /\ SameCalls(a, b) /\ SameNational(a, b) /\ SamePolling(a, b) /\ SameLayer(a, b)
        /\ SameOperator(a, b)
        /\ b.prefetch = [a.prefetch EXCEPT ![p] = n] /\ b.prefetchInFlight = p
        /\ b.prefetchSession = p /\ b.prefetchedSite = NoSweep
        /\ b.nationalGeneration = a.nationalGeneration /\ b.nationalChain = a.nationalChain
        /\ b.transferGeneration = g
        /\ b.lane = [a.lane EXCEPT !["site"] = [generation |-> g, active |-> FALSE]]
    <3> DEFINE d == [a EXCEPT !.prefetch[p] = n, !.prefetchInFlight = p,
                           !.prefetchSession = p, !.prefetchedSite = NoSweep,
                           !.transferGeneration = g]
    <3>1. b = begin(d, "site", g)
      BY <1>2 DEF prefetchSite, n, g, p
    <3>2. /\ DOMAIN d = AppFields
          /\ SameCalls(a, d) /\ SameNational(a, d) /\ SamePolling(a, d) /\ SameLayer(a, d)
          /\ SameOperator(a, d)
          /\ d.prefetch = [a.prefetch EXCEPT ![p] = n] /\ d.prefetchInFlight = p
          /\ d.prefetchSession = p /\ d.prefetchedSite = NoSweep
          /\ d.nationalGeneration = a.nationalGeneration /\ d.nationalChain = a.nationalChain
          /\ d.transferGeneration = g /\ d.lane = a.lane
      BY <1>0, FieldsAre DEF SameCalls, SameNational, SamePolling, SameLayer, SameOperator
    <3> HIDE DEF d, b
    <3> QED
      BY <3>1, <3>2, FieldsAre DEF begin, SameCalls, SameNational, SamePolling, SameLayer, SameOperator
  <2> HIDE DEF b
  <2>5. a.transition = None /\ a.painted = National
    BY <1>2 DEF MayPrefetch
  <2>6. /\ b.prefetch \in [Prefetch -> Ahead] /\ b.prefetch[p] = n
        /\ \A q \in Prefetch : q # p => b.prefetch[q] = a.prefetch[q]
    BY <1>0, <2>1, <2>3, <2>4
  <2>7. /\ b.lane \in [{"site", "national"} -> [generation : Nat, active : BOOLEAN]]
        /\ b.lane["national"] = a.lane["national"] /\ ~b.lane["site"].active
    <3> DEFINE m == [generation |-> g, active |-> FALSE]
    <3>1. m \in [generation : Nat, active : BOOLEAN] /\ ~m.active
      BY <2>2
    <3>2. b.lane = [a.lane EXCEPT !["site"] = m]
      BY <2>4
    <3> HIDE DEF m
    <3> QED
      BY <1>0, <3>1, <3>2
  <2>8. NoSweep \in [site : Site \cup {None}, generation : Nat] /\ NoSweep.site = None
    BY DEF NoSweep
  <2>9. SwitchType(b)
    BY <1>0, <2>1, <2>2, <2>4, <2>6, <2>7, <2>8 DEF SwitchType, SameCalls, SameNational, SameLayer, SameOperator
  <2>10. CallsInv(b)
    BY <2>4 DEF SwitchInv, CallsInv, SameCalls, SameNational
  <2>11. SlotsInv(b)
    <3>1. FreeOp(b) = FreeOp(a)
      BY <2>4 DEF FreeOp, SameCalls
    <3> QED
      BY <2>4, <3>1 DEF SwitchInv, SlotsInv, SameCalls, SameOperator
  <2>12. GenerationsInv(b)
    <3>1. \A q \in Prefetch : b.prefetch[q].pc # "idle" => q = p \/ (a.prefetch[q].pc # "idle" /\ b.prefetch[q] = a.prefetch[q])
      BY <2>6
    <3>2. \A q \in Prefetch : b.prefetch[q].pc # "idle" =>
       /\ \A o \in Op : Named(b.op[o]) => b.op[o].generation # b.prefetch[q].generation
       /\ \A r \in Prefetch : r # q /\ b.prefetch[r].pc # "idle" => b.prefetch[r].generation # b.prefetch[q].generation
      BY <2>2, <2>3, <2>4, <2>6, <3>1 DEF SwitchInv, GenerationsInv, SameCalls
    <3>3. \A o, q \in Op : o # q /\ Named(b.op[o]) /\ Named(b.op[q]) => b.op[o].generation # b.op[q].generation
      BY <2>4 DEF SwitchInv, GenerationsInv, SameCalls
    <3>4. \A o \in Op : b.op[o].generation # b.transferGeneration
      BY <2>2, <2>4 DEF SameCalls
    <3>5. \A o \in Op : b.op[o].abandoned =>
           /\ b.op[o].pc = "downloading" => ~LaneIs(b, "site", b.op[o].generation)
           /\ b.op[o].pc = "preparing" => ~LaneIs(b, "national", b.op[o].generation)
      BY <2>4, <2>7 DEF SwitchInv, GenerationsInv, SameCalls, LaneIs
    <3> QED
      BY <2>4, <2>8, <3>2, <3>3, <3>4, <3>5 DEF GenerationsInv
  <2>13. NationalInv(b)
    <3>1. \A h : LaneIs(b, "national", h) <=> LaneIs(a, "national", h)
      BY <2>7 DEF LaneIs
    <3>2. Drawn(b) <=> Drawn(a)
      BY <2>4 DEF Drawn, SameNational
    <3>3. OwnedInv(b)
      BY <2>4, <3>1, <3>2 DEF SwitchInv, NationalInv, OwnedInv, SameCalls, SameNational
    <3>4. AcquiringInv(b)
      BY <1>0, <2>4, <2>5 DEF SwitchInv, NationalInv, AcquiringInv, SameCalls, SameNational
    <3>5. DrawnInv(b)
      BY <2>4, <3>2 DEF SwitchInv, NationalInv, DrawnInv, SameCalls, SameNational
    <3> QED
      BY <3>3, <3>4, <3>5 DEF NationalInv
  <2>14. PollingInv(b)
    BY <1>0, <2>4, <2>5 DEF PollingInv, SameCalls
  <2>15. LayerInv(b)
    BY <2>4 DEF SwitchInv, LayerInv, SameCalls, SameLayer
  <2> QED
    BY <2>9, <2>10, <2>11, <2>12, <2>13, <2>14, <2>15 DEF SwitchInv, b
<1> QED
  BY <1>1, <1>2

(* What is fetched ahead is not waited for any more.                        *)
LEMMA CancelPrefetchKeeps ==
  ASSUME NEW a, SwitchInv(a) PROVE SwitchInv(cancelPrefetch(a))
<1> DEFINE b == [a EXCEPT !.prefetchInFlight = None, !.prefetchSession = None]
<1>1. SwitchInv(b)
  <2>1. /\ DOMAIN b = AppFields
        /\ SameCalls(a, b) /\ SameLanes(a, b) /\ SameNational(a, b) /\ SamePolling(a, b)
        /\ SameLayer(a, b) /\ SameOperator(a, b)
        /\ b.prefetchInFlight = None /\ b.prefetchSession = None
        /\ b.prefetch = a.prefetch /\ b.prefetchedSite = a.prefetchedSite
    BY FieldsAre DEF SwitchInv, SwitchType, SameCalls, SameLanes, SameNational, SamePolling,
       SameLayer, SameOperator
  <2>2. a.prefetch \in [Prefetch -> Ahead] /\ a.prefetchedSite \in [site : Site \cup {None}, generation : Nat]
    BY DEF SwitchInv, SwitchType
  <2> HIDE DEF b
  <2> QED
    BY <2>1, <2>2, AheadKeeps
<1> HIDE DEF b
<1>2. SwitchInv(cancel(b, "site"))
  BY <1>1, SiteLaneStops
<1> QED
  BY <1>1, <1>2 DEF cancelPrefetch, b

-----------------------------------------------------------------------------
(* A switch goes on: its call is then c.                                    *)
Moved(a, b, o, c) ==
  /\ DOMAIN b = AppFields
  /\ b.painted = a.painted /\ b.transition = a.transition /\ b.autoSwitch = a.autoSwitch
  /\ b.op = [a.op EXCEPT ![o] = c]
  /\ SameAhead(a, b) /\ SameLanes(a, b) /\ SamePolling(a, b) /\ SameOperator(a, b)
  /\ b.layer = a.layer /\ b.mapped = a.mapped
  /\ b.nationalResident = a.nationalResident /\ b.nationalShown = a.nationalShown
  /\ c.target = a.op[o].target /\ c.generation = a.op[o].generation
  /\ c.acquire = a.op[o].acquire /\ c.abandoned = a.op[o].abandoned

(* What the move may change on the screen, and what it needs.               *)
Allowed(a, b, o, c) ==
  /\ a.op[o].pc \notin {"idle", "preloading", "fading"} /\ c.pc \notin {"idle", "preloading"}
  /\ Layered(c) <=> Layered(a.op[o])
  /\ c.abandoned => c.pc \notin {"downloading", "preparing"}
  /\ \/ c.staged = a.op[o].staged /\ SameNational(a, b)
     \/ /\ c.staged /\ c.acquire /\ (a.transition = o \/ a.autoSwitch = o)
        /\ b.nationalLayer = TRUE /\ b.nationalVisible = TRUE /\ b.nationalPresents = TRUE
  /\ c.acquire /\ a.transition = o =>
       /\ c.pc = "fading" => LaneIs(a, "national", c.generation)
       /\ c.pc \in {"staging", "fading"} => Drawn(b)
  /\ \/ b.opacity = a.opacity
     \/ a.painted \notin Site
     \/ c.pc = "fading" /\ c.target = National

(* A call goes on to its next step.                                         *)
LEMMA MoveKeeps ==
  ASSUME NEW a, NEW b, SwitchInv(a), NEW o \in Op, NEW c \in Call, CallShape(c),
         Moved(a, b, o, c), Allowed(a, b, o, c)
  PROVE  SwitchInv(b)
<1>0. /\ a.op \in [Op -> Call] /\ None \notin Op /\ None \notin Site /\ National \notin Site
      /\ National # None /\ SwitchType(a)
  BY NamesSuffice, SourcesDiffer DEF SwitchInv, SwitchType
<1>1. /\ b.op \in [Op -> Call] /\ b.op[o] = c
      /\ \A q \in Op : q # o => b.op[q] = a.op[q]
  BY <1>0 DEF Moved
<1>2. \A q \in Op : /\ b.op[q].target = a.op[q].target /\ b.op[q].generation = a.op[q].generation
                    /\ b.op[q].acquire = a.op[q].acquire /\ b.op[q].abandoned = a.op[q].abandoned
                    /\ b.op[q].pc = "idle" <=> a.op[q].pc = "idle"
                    /\ b.op[q].pc = "preloading" <=> a.op[q].pc = "preloading"
                    /\ b.op[q].pc = "downloading" => q = o \/ a.op[q].pc = "downloading"
                    /\ b.op[q].pc = "preparing" => q = o \/ a.op[q].pc = "preparing"
                    /\ a.op[q].pc = "fading" => b.op[q].pc = "fading"
                    /\ Layered(b.op[q]) <=> Layered(a.op[q])
                    /\ q # o => b.op[q].staged = a.op[q].staged
  BY <1>1 DEF Moved, Allowed
<1>3. \A q \in Op : /\ Named(b.op[q]) <=> Named(a.op[q])
                    /\ Revealing(b.op[q]) <=> Revealing(a.op[q])
  BY <1>2 DEF Named, Revealing
<1>4. b.nationalLayer \in BOOLEAN /\ b.nationalVisible \in BOOLEAN /\ b.nationalPresents \in BOOLEAN
  <2>1. CASE SameNational(a, b)
    BY <1>0, <2>1 DEF SwitchType, SameNational
  <2>2. CASE b.nationalLayer = TRUE /\ b.nationalVisible = TRUE /\ b.nationalPresents = TRUE
    BY <2>2, Zenon
  <2> QED
    BY <2>1, <2>2 DEF Allowed
<1>5. Drawn(a) => Drawn(b)
  BY DEF Drawn, Allowed, SameNational
<1>6. SwitchType(b)
  <2>1. \A q \in Op : CallShape(b.op[q])
    BY <1>0, <1>1 DEF SwitchType
  <2> QED
    BY <1>0, <1>1, <1>4, <2>1 DEF SwitchType, Moved, SameAhead, SameLanes, SameOperator
<1>7. CallsInv(b)
  <2>1. b.transition # None =>
          LET d == b.op[b.transition]
          IN  /\ d.pc \notin {"idle", "preloading"} /\ ~d.abandoned
              /\ d.target \in Site => b.painted \notin Site
    BY <1>0, <1>2 DEF SwitchInv, SwitchType, CallsInv, Moved
  <2>2. b.autoSwitch # None =>
       LET d == b.op[b.autoSwitch]
       IN  /\ d.pc # "idle"
           /\ d.abandoned \/ d.pc = "preloading" \/ b.transition = b.autoSwitch
           /\ IF d.target \in Site THEN b.painted = National ELSE b.painted \in Site
    BY <1>0, <1>2 DEF SwitchInv, SwitchType, CallsInv, Moved
  <2>3. /\ \A q \in Op : b.op[q].abandoned \/ b.op[q].pc = "preloading" => b.autoSwitch = q
        /\ \A q \in Op : Revealing(b.op[q]) => b.autoSwitch = q /\ b.nationalResident
        /\ b.painted = None => b.autoSwitch = None /\ ~b.nationalShown /\ ~b.nationalResident
        /\ b.painted # None /\ b.transition # None => b.transition = b.autoSwitch
    BY <1>2, <1>3 DEF SwitchInv, CallsInv, Moved
  <2> QED
    BY <2>1, <2>2, <2>3 DEF CallsInv
<1>8. SlotsInv(b)
  <2>1. FreeOp(b) = FreeOp(a)
    BY <1>2 DEF FreeOp
  <2> QED
    BY <2>1 DEF SwitchInv, SlotsInv, Moved, SameOperator
<1>9. GenerationsInv(b)
  <2>1. \A l, g : LaneIs(b, l, g) <=> LaneIs(a, l, g)
    BY DEF LaneIs, Moved, SameLanes
  <2>2. \A q \in Op : b.op[q].abandoned =>
           /\ b.op[q].pc = "downloading" => ~LaneIs(b, "site", b.op[q].generation)
           /\ b.op[q].pc = "preparing" => ~LaneIs(b, "national", b.op[q].generation)
    BY <1>1, <1>2, <2>1 DEF SwitchInv, GenerationsInv, Allowed
  <2>3. \A q \in Op : Named(b.op[q]) /\ b.op[q].generation = b.transferGeneration =>
       b.transition = q \/ b.autoSwitch = q
    BY <1>2, <1>3 DEF SwitchInv, GenerationsInv, Moved, SameLanes
  <2> QED
    BY <1>2, <1>3, <2>2, <2>3 DEF SwitchInv, GenerationsInv, Moved, SameAhead
<1>10. NationalInv(b)
  <2>1. \A l, g : LaneIs(b, l, g) <=> LaneIs(a, l, g)
    BY DEF LaneIs, Moved, SameLanes
  <2>2. a.op[o].acquire /\ (a.transition = o \/ a.autoSwitch = o) => a.painted # National /\ ~a.nationalResident
    BY DEF SwitchInv, NationalInv, AcquiringInv
  <2>3. SameNational(a, b) \/ (a.painted # National /\ ~a.nationalResident)
    BY <2>2 DEF Allowed, Moved
  <2>4. OwnedInv(b)
    BY <1>5, <2>1, <2>3 DEF SwitchInv, NationalInv, OwnedInv, Moved, SameNational, SameLanes
  <2>5. ASSUME NEW q \in Op, b.op[q].acquire, b.transition = q
        PROVE  /\ b.nationalGeneration = b.op[q].generation
               /\ b.transferGeneration = b.op[q].generation
               /\ b.polling = None
               /\ b.op[q].pc = "fading" => LaneIs(b, "national", b.op[q].generation)
               /\ b.op[q].pc \in {"staging", "fading"} => Drawn(b)
               /\ \A r \in Op : b.op[r].staged => r = q
    <3>1. a.op[q].acquire /\ a.transition = q
      BY <1>2, <2>5 DEF Moved
    <3>2. /\ b.nationalGeneration = b.op[q].generation /\ b.transferGeneration = b.op[q].generation
          /\ b.polling = None
      BY <1>2, <3>1 DEF SwitchInv, NationalInv, AcquiringInv, Moved, SameLanes, SamePolling
    <3>3. b.op[q].pc = "fading" => LaneIs(b, "national", b.op[q].generation)
      BY <1>1, <1>2, <2>1, <3>1 DEF SwitchInv, NationalInv, AcquiringInv, Allowed, Moved
    <3>4. b.op[q].pc \in {"staging", "fading"} => Drawn(b)
      BY <1>1, <1>2, <1>5, <3>1 DEF SwitchInv, NationalInv, AcquiringInv, Allowed, Moved
    <3>5. ASSUME NEW r \in Op, b.op[r].staged PROVE r = q
      <4>1. CASE a.op[r].staged
        BY <3>1, <4>1 DEF SwitchInv, NationalInv, AcquiringInv
      <4>2. CASE ~a.op[r].staged
        <5>1. r = o /\ (a.transition = o \/ a.autoSwitch = o)
          BY <1>1, <1>2, <3>5, <4>2 DEF Allowed
        <5>2. a.autoSwitch # None => a.painted # None
          BY DEF SwitchInv, CallsInv
        <5>3. a.painted # None /\ a.transition # None => a.transition = a.autoSwitch
          BY DEF SwitchInv, CallsInv
        <5> QED
          BY <1>0, <3>1, <5>1, <5>2, <5>3
      <4> QED
        BY <4>1, <4>2
    <3> QED
      BY <3>2, <3>3, <3>4, <3>5
  <2>6. ASSUME NEW q \in Op, b.op[q].acquire, b.transition = q \/ b.autoSwitch = q
        PROVE  b.painted # National /\ ~b.nationalResident
    BY <1>2, <2>6 DEF SwitchInv, NationalInv, AcquiringInv, Moved
  <2>7. AcquiringInv(b)
    BY <2>5, <2>6 DEF AcquiringInv
  <2>8. \A q \in Op : b.transition = q /\ Revealing(b.op[q]) => b.nationalVisible
    BY <1>2, <1>3 DEF SwitchInv, NationalInv, DrawnInv, Allowed, Moved, SameNational
  <2>9. Drawn(b) /\ b.painted # National => \E q \in Op : Revealing(b.op[q]) \/ b.op[q].staged
    <3>1. CASE c.staged = a.op[o].staged /\ SameNational(a, b)
      <4>1. Drawn(b) => Drawn(a)
        BY <3>1 DEF Drawn, SameNational
      <4>2. \A q \in Op : b.op[q].staged = a.op[q].staged
        BY <1>1, <1>2, <3>1
      <4> QED
        BY <1>3, <4>1, <4>2 DEF SwitchInv, NationalInv, DrawnInv, Moved
    <3>2. CASE c.staged
      BY <1>1, <3>2
    <3> QED
      BY <3>1, <3>2 DEF Allowed
  <2>10. \A q \in Op : b.op[q].staged => b.transition = q \/ b.autoSwitch = q \/ b.painted = None
    BY <1>1, <1>2 DEF SwitchInv, NationalInv, DrawnInv, Allowed, Moved
  <2> QED
    BY <2>4, <2>7, <2>8, <2>9, <2>10 DEF NationalInv, DrawnInv
<1>11. PollingInv(b)
  BY <1>0, <1>2 DEF SwitchInv, SwitchType, PollingInv, Moved, SamePolling, SameLanes
<1>12. LayerInv(b)
  <2>1. b.transition # None => b.op[b.transition].target = a.op[a.transition].target
    BY <1>0, <1>2 DEF SwitchType, Moved
  <2>2. ASSUME NEW q \in Op, Layered(b.op[q])
        PROVE  /\ b.mapped = [by |-> q, site |-> b.op[q].target]
               /\ b.painted \notin Site
               /\ b.transition # None => b.op[b.transition].target \in Site
    <3>1. Layered(a.op[q]) /\ b.op[q].target = a.op[q].target
      BY <1>2, <2>2
    <3> QED
      BY <2>1, <3>1 DEF SwitchInv, LayerInv, Moved
  <2>3. b.mapped # NoLayer => b.painted \in Site \/ (b.mapped.by \in Op /\ Layered(b.op[b.mapped.by]))
    BY <1>2 DEF SwitchInv, LayerInv, Moved
  <2>4. b.painted \in Site => b.opacity = "full" \/ \E q \in Op : b.op[q].pc = "fading" /\ b.op[q].target = National
    <3> SUFFICES ASSUME b.painted \in Site, b.opacity # "full"
                 PROVE  \E q \in Op : b.op[q].pc = "fading" /\ b.op[q].target = National
      OBVIOUS
    <3>1. CASE b.opacity = a.opacity
      BY <1>2, <3>1 DEF SwitchInv, LayerInv, Moved
    <3>2. CASE c.pc = "fading" /\ c.target = National
      BY <1>1, <3>2
    <3> QED
      BY <3>1, <3>2 DEF Allowed, Moved
  <2>5. b.layer = b.mapped /\ (b.painted \in Site => b.layer.site = b.painted)
    BY DEF SwitchInv, LayerInv, Moved
  <2> QED
    BY <2>2, <2>3, <2>4, <2>5 DEF LayerInv
<1> QED
  BY <1>6, <1>7, <1>8, <1>9, <1>10, <1>11, <1>12 DEF SwitchInv

-----------------------------------------------------------------------------
(* The Site that faded in is painted.                                       *)
LEMMA SiteAcceptKeeps ==
  ASSUME NEW a, SwitchInv(a), NEW o \in Op, a.op[o].pc = "fading", a.op[o].target \in Site,
         a.transition = o, a.transferGeneration = a.op[o].generation
  PROVE  SwitchInv(settleAutoSwitch(acceptSiteBootstrap(a, o), o, TRUE))
<1> DEFINE site == a.op[o].target
           painted == [a EXCEPT !.painted = site, !.transition = None,
                           !.opacity = "full", !.autoErrorSite =
                               IF a.autoSwitch = o THEN None ELSE @,
                           !.siteRequestError = IF a.autoSwitch = o THEN @ ELSE FALSE]
           x == IF CanHide(a) THEN hideNationalBehindSite(painted) ELSE teardownNational(painted)
           y == [x EXCEPT !.polling = IF a.pollingBy = o THEN site ELSE @]
           b == settleAutoSwitch(y, o, TRUE)
<1>0. /\ a.op \in [Op -> Call] /\ None \notin Op /\ None \notin Site /\ National \notin Site
      /\ National # None /\ SwitchType(a) /\ DOMAIN a = AppFields
      /\ a.lane \in [{"site", "national"} -> [generation : Nat, active : BOOLEAN]]
  BY NamesSuffice, SourcesDiffer DEF SwitchInv, SwitchType
<1>1. a.painted \notin Site /\ a.painted # site /\ a.pollingBy = o
  BY <1>0 DEF SwitchInv, CallsInv, PollingInv
<1>2. a.autoSwitch \in {o, None} /\ (a.painted = None => a.autoSwitch = None)
  BY <1>0 DEF SwitchInv, CallsInv
<1>3. /\ DOMAIN painted = AppFields
      /\ painted.painted = site /\ painted.transition = None /\ painted.opacity = "full"
      /\ painted.op = a.op /\ painted.autoSwitch = a.autoSwitch
      /\ SameAhead(a, painted) /\ SameLanes(a, painted) /\ SameNational(a, painted)
      /\ SamePolling(a, painted) /\ SameOperator(a, painted)
      /\ painted.layer = a.layer /\ painted.mapped = a.mapped
  BY <1>0, FieldsAre DEF SameAhead, SameLanes, SameNational, SamePolling, SameOperator
<1> HIDE DEF painted
<1>4. /\ DOMAIN x = AppFields
      /\ x.painted = site /\ x.transition = None /\ x.opacity = "full"
      /\ x.autoSwitch = a.autoSwitch
      /\ SameAhead(a, x) /\ SameOperator(a, x)
      /\ x.layer = a.layer /\ x.mapped = a.mapped
      /\ x.transferGeneration = a.transferGeneration
      /\ x.nationalGeneration = a.nationalGeneration
      /\ \/ /\ CanHide(a) /\ x.op = a.op
            /\ x.nationalVisible = FALSE /\ x.nationalResident = TRUE
            /\ x.nationalLayer = a.nationalLayer /\ x.nationalPresents = a.nationalPresents
            /\ x.nationalShown = a.nationalShown
            /\ x.nationalChain = a.nationalChain /\ x.lane = a.lane
         \/ /\ ~CanHide(a) /\ x.op = [q \in Op |-> [a.op[q] EXCEPT !.staged = FALSE]]
            /\ x.nationalLayer = FALSE /\ x.nationalVisible = FALSE /\ x.nationalPresents = FALSE
            /\ x.nationalResident = FALSE /\ x.nationalShown = FALSE
            /\ x.nationalChain = 0 /\ x.lane = [a.lane EXCEPT !["national"].active = FALSE]
  <2>1. CASE CanHide(a)
    <3>1. x = hideNationalBehindSite(painted)
      BY <2>1
    <3> HIDE DEF x
    <3> QED
      BY <1>3, <2>1, <3>1, FieldsAre DEF hideNationalBehindSite, SameAhead, SameLanes, SameNational,
         SameOperator
  <2>2. CASE ~CanHide(a)
    <3> DEFINE t == [painted EXCEPT !.nationalLayer = FALSE, !.nationalVisible = FALSE,
                   !.nationalPresents = FALSE, !.nationalUsable = FALSE,
                   !.nationalChain = 0, !.nationalResident = FALSE,
                   !.nationalShown = FALSE,
                   !.op = [q \in Op |-> [@[q] EXCEPT !.staged = FALSE]]]
    <3>1. x = cancel(t, "national")
      BY <2>2 DEF teardownNational
    <3>2. /\ DOMAIN t = AppFields
          /\ t.painted = site /\ t.transition = None /\ t.opacity = "full"
          /\ t.autoSwitch = a.autoSwitch
          /\ SameAhead(a, t) /\ SameOperator(a, t)
          /\ t.layer = a.layer /\ t.mapped = a.mapped
          /\ t.transferGeneration = a.transferGeneration
          /\ t.nationalGeneration = a.nationalGeneration
          /\ t.op = [q \in Op |-> [a.op[q] EXCEPT !.staged = FALSE]]
          /\ t.nationalLayer = FALSE /\ t.nationalVisible = FALSE /\ t.nationalPresents = FALSE
          /\ t.nationalResident = FALSE /\ t.nationalShown = FALSE
          /\ t.nationalChain = 0 /\ t.lane = a.lane
      BY <1>3, FieldsAre DEF SameAhead, SameLanes, SameNational, SameOperator
    <3> HIDE DEF x, t
    <3>3. DOMAIN x = AppFields /\ x.lane = [a.lane EXCEPT !["national"].active = FALSE]
      BY <3>1, <3>2, FieldsAre DEF cancel
    <3>4. /\ x.painted = site /\ x.transition = None /\ x.opacity = "full"
          /\ x.autoSwitch = a.autoSwitch
          /\ SameAhead(a, x) /\ SameOperator(a, x)
          /\ x.layer = a.layer /\ x.mapped = a.mapped
          /\ x.transferGeneration = a.transferGeneration
          /\ x.nationalGeneration = a.nationalGeneration
          /\ x.op = t.op
          /\ x.nationalLayer = FALSE /\ x.nationalVisible = FALSE /\ x.nationalPresents = FALSE
          /\ x.nationalResident = FALSE /\ x.nationalShown = FALSE
          /\ x.nationalChain = 0
      BY <3>1, <3>2, FieldsAre DEF cancel, SameAhead, SameOperator
    <3> QED
      BY <2>2, <3>2, <3>3, <3>4
  <2> QED
    BY <2>1, <2>2
<1> HIDE DEF x
<1>5. /\ DOMAIN y = AppFields
      /\ y.painted = x.painted /\ y.transition = x.transition /\ y.opacity = x.opacity
      /\ y.autoSwitch = x.autoSwitch /\ y.op = x.op
      /\ SameAhead(x, y) /\ SameLanes(x, y) /\ SameNational(x, y) /\ SameOperator(x, y)
      /\ y.layer = x.layer /\ y.mapped = x.mapped /\ y.polling = site
  BY <1>1, <1>4, FieldsAre DEF SameAhead, SameLanes, SameNational, SameOperator
<1> HIDE DEF y
<1>6. /\ DOMAIN b = AppFields
      /\ b.painted = y.painted /\ b.transition = y.transition /\ b.opacity = y.opacity
      /\ b.autoSwitch = (IF y.autoSwitch = o THEN None ELSE y.autoSwitch)
      /\ b.op = [y.op EXCEPT ![o] = NoOp]
      /\ SameAhead(y, b) /\ SameLanes(y, b) /\ SameNational(y, b) /\ SameOperator(y, b)
      /\ b.layer = y.layer /\ b.mapped = y.mapped /\ b.polling = y.polling
  BY <1>5, FieldsAre DEF settleAutoSwitch, SameAhead, SameLanes, SameNational, SameOperator
<1>7. settleAutoSwitch(acceptSiteBootstrap(a, o), o, TRUE) = b
  BY DEF acceptSiteBootstrap, y, x, painted
<1> HIDE DEF b
<1>8. /\ b.painted = site /\ b.transition = None /\ b.autoSwitch = None /\ b.opacity = "full"
      /\ SameAhead(a, b) /\ SameOperator(a, b) /\ b.layer = a.layer /\ b.mapped = a.mapped
      /\ b.polling = site
      /\ b.transferGeneration = a.transferGeneration /\ b.nationalGeneration = a.nationalGeneration
  BY <1>2, <1>4, <1>5, <1>6 DEF SameAhead, SameOperator, SameLanes
<1>9. /\ b.op \in [Op -> Call] /\ b.op[o] = NoOp /\ \A q \in Op : CallShape(b.op[q])
      /\ \A q \in Op : q # o => /\ b.op[q].pc = a.op[q].pc /\ b.op[q].target = a.op[q].target
                                /\ b.op[q].generation = a.op[q].generation
                                /\ b.op[q].acquire = a.op[q].acquire
                                /\ b.op[q].abandoned = a.op[q].abandoned
                                /\ b.op[q].staged => CanHide(a) /\ a.op[q].staged
  <2>1. NoOp \in Call /\ CallShape(NoOp)
    BY <1>0 DEF NoOp, Call, CallShape
  <2> DEFINE Unstaged(c) == [c EXCEPT !.staged = FALSE]
  <2>2. ASSUME NEW c \in Call, CallShape(c)
        PROVE  /\ Unstaged(c) \in Call /\ CallShape(Unstaged(c)) /\ ~Unstaged(c).staged
               /\ Unstaged(c).pc = c.pc /\ Unstaged(c).target = c.target
               /\ Unstaged(c).generation = c.generation
               /\ Unstaged(c).acquire = c.acquire /\ Unstaged(c).abandoned = c.abandoned
    <3> DEFINE d == Unstaged(c)
    <3>1. /\ d \in Call /\ ~d.staged
          /\ d.pc = c.pc /\ d.target = c.target /\ d.generation = c.generation
          /\ d.acquire = c.acquire /\ d.abandoned = c.abandoned
      BY DEF Call
    <3>2. c.pc = "idle" => d = NoOp
      <4>1. [NoOp EXCEPT !.staged = FALSE] = NoOp
        <5>1. NoOp.staged = FALSE
          BY Zenon DEF NoOp
        <5>2. NoOp = [f \in DOMAIN NoOp |-> NoOp[f]]
          BY DEF NoOp
        <5> QED
          BY <5>1, <5>2
      <4>2. c.pc = "idle" => c = NoOp
        BY <2>2 DEF CallShape
      <4> QED
        BY <4>1, <4>2
    <3> HIDE DEF d
    <3>3. CallShape(d)
      BY <2>2, <3>1, <3>2 DEF CallShape, Revealing
    <3> QED
      BY <3>1, <3>3 DEF d
  <2>3. b.op = [x.op EXCEPT ![o] = NoOp]
    BY <1>5, <1>6
  <2>4. \A q \in Op : a.op[q] \in Call /\ CallShape(a.op[q])
    BY <1>0 DEF SwitchType
  <2>5. CASE x.op = a.op /\ CanHide(a)
    <3>1. b.op = [a.op EXCEPT ![o] = NoOp]
      BY <2>3, <2>5
    <3>2. b.op \in [Op -> Call] /\ b.op[o] = NoOp /\ \A q \in Op : q # o => b.op[q] = a.op[q]
      BY <1>0, <2>1, <3>1
    <3> QED
      BY <2>1, <2>4, <2>5, <3>2
  <2>6. CASE x.op = [q \in Op |-> Unstaged(a.op[q])]
    <3> HIDE DEF Unstaged
    <3>1. x.op \in [Op -> Call]
      BY <2>2, <2>4, <2>6
    <3>2. b.op \in [Op -> Call] /\ b.op[o] = NoOp
          /\ \A q \in Op : q # o => b.op[q] = Unstaged(a.op[q])
      BY <2>1, <2>3, <2>6, <3>1
    <3> QED
      BY <2>1, <2>2, <2>4, <3>2
  <2> QED
    BY <1>4, <2>5, <2>6
<1>10. /\ ~Named(NoOp) /\ ~Layered(NoOp) /\ ~Revealing(NoOp) /\ ~NoOp.abandoned
      /\ ~NoOp.acquire /\ ~NoOp.staged /\ NoOp.pc = "idle"
  BY <1>0 DEF NoOp, Named, Layered, Revealing
<1>11. \A q \in Op : /\ ~b.op[q].abandoned /\ b.op[q].pc # "preloading"
                     /\ Named(b.op[q]) => q # o /\ Named(a.op[q]) /\ b.op[q].generation = a.op[q].generation
                     /\ ~Revealing(b.op[q]) /\ ~Layered(b.op[q])
  <2>1. \A q \in Op : q # o => ~a.op[q].abandoned /\ a.op[q].pc # "preloading" /\ ~Revealing(a.op[q])
    BY <1>0, <1>2 DEF SwitchInv, CallsInv
  <2>2. ASSUME NEW q \in Op, q # o, Layered(a.op[q]) PROVE FALSE
    <3>1. Layered(a.op[o])
      BY DEF Layered
    <3>2. a.mapped = [by |-> o, site |-> a.op[o].target] /\ a.mapped = [by |-> q, site |-> a.op[q].target]
      BY <2>2, <3>1 DEF SwitchInv, LayerInv
    <3>3. a.mapped.by = o /\ a.mapped.by = q
      BY <3>2
    <3> QED
      BY <2>2, <3>3
  <2>3. \A q \in Op : q # o => (Named(b.op[q]) <=> Named(a.op[q])) /\ (Revealing(b.op[q]) <=> Revealing(a.op[q]))
                               /\ (Layered(b.op[q]) <=> Layered(a.op[q]))
    BY <1>9 DEF Named, Revealing, Layered
  <2> QED
    BY <1>9, <1>10, <2>1, <2>2, <2>3
<1>12. CanHide(a) =>
         /\ a.painted = National /\ a.nationalChain = a.nationalGeneration
         /\ LaneIs(a, "national", a.nationalGeneration) /\ a.nationalLayer /\ a.nationalPresents
         /\ \A q \in Op : ~a.op[q].staged
  <2> SUFFICES ASSUME CanHide(a)
               PROVE  /\ a.painted = National /\ a.nationalChain = a.nationalGeneration
                      /\ LaneIs(a, "national", a.nationalGeneration) /\ a.nationalLayer /\ a.nationalPresents
                      /\ \A q \in Op : ~a.op[q].staged
    OBVIOUS
  <2>1. a.nationalShown /\ a.painted # None
    BY DEF CanHide, SwitchInv, CallsInv
  <2>2. a.painted = National
    BY <1>0, <1>1, <2>1 DEF SwitchType, Source
  <2>3. ~a.op[o].staged
    BY <1>0 DEF SwitchType, CallShape
  <2>4. \A q \in Op : ~a.op[q].staged
    BY <1>0, <1>2, <2>1, <2>3 DEF SwitchInv, NationalInv, DrawnInv
  <2> QED
    BY <2>2, <2>4 DEF SwitchInv, NationalInv, OwnedInv, Drawn
<1>13. SwitchType(b)
  <2>1. b.lane \in [{"site", "national"} -> [generation : Nat, active : BOOLEAN]]
    <3>1. b.lane = x.lane
      BY <1>5, <1>6 DEF SameLanes
    <3>2. x.lane = a.lane \/ x.lane = [a.lane EXCEPT !["national"].active = FALSE]
      BY <1>4
    <3>3. a.lane \in [{"site", "national"} -> [generation : Nat, active : BOOLEAN]]
      BY <1>0
    <3>4. CASE x.lane = a.lane
      BY <3>1, <3>3, <3>4
    <3>5. CASE x.lane = [a.lane EXCEPT !["national"].active = FALSE]
      <4> DEFINE n == [a.lane["national"] EXCEPT !.active = FALSE]
      <4>1. n \in [generation : Nat, active : BOOLEAN]
        BY <3>3
      <4>2. x.lane = [a.lane EXCEPT !["national"] = n]
        BY <3>5
      <4> HIDE DEF n
      <4> QED
        BY <3>1, <3>3, <4>1, <4>2
    <3> QED
      BY <3>2, <3>4, <3>5
  <2>2. /\ b.nationalLayer \in BOOLEAN /\ b.nationalVisible \in BOOLEAN /\ b.nationalPresents \in BOOLEAN
        /\ b.nationalResident \in BOOLEAN /\ b.nationalShown \in BOOLEAN /\ b.nationalChain \in Nat
    <3>1. SameNational(x, b) /\ b.nationalChain = x.nationalChain
      BY <1>5, <1>6 DEF SameNational, SameLanes
    <3>2. CASE CanHide(a)
      <4>1. /\ x.nationalVisible = FALSE /\ x.nationalResident = TRUE
            /\ x.nationalLayer = a.nationalLayer /\ x.nationalPresents = a.nationalPresents
            /\ x.nationalShown = a.nationalShown /\ x.nationalChain = a.nationalChain
        BY <1>4, <3>2
      <4>2. b.nationalVisible \in BOOLEAN /\ b.nationalResident \in BOOLEAN
        BY <3>1, <4>1, Zenon DEF SameNational
      <4> QED
        BY <1>0, <3>1, <4>1, <4>2 DEF SwitchType, SameNational
    <3>3. CASE ~CanHide(a)
      <4>1. /\ x.nationalLayer = FALSE /\ x.nationalVisible = FALSE /\ x.nationalPresents = FALSE
            /\ x.nationalResident = FALSE /\ x.nationalShown = FALSE /\ x.nationalChain = 0
        BY <1>4, <3>3
      <4>2. /\ b.nationalLayer \in BOOLEAN /\ b.nationalVisible \in BOOLEAN /\ b.nationalPresents \in BOOLEAN
            /\ b.nationalResident \in BOOLEAN /\ b.nationalShown \in BOOLEAN
        BY <3>1, <4>1, Zenon DEF SameNational
      <4> QED
        BY <3>1, <4>1, <4>2
    <3> QED
      BY <3>2, <3>3
  <2>3. /\ b.painted \in Source \cup {None} /\ b.transition \in Op \cup {None} /\ b.autoSwitch \in Op \cup {None}
    BY <1>8 DEF Source
  <2> QED
    BY <1>0, <1>6, <1>8, <1>9, <2>1, <2>2, <2>3 DEF SwitchType, SameAhead, SameOperator
<1>14. CallsInv(b)
  BY <1>0, <1>8, <1>11 DEF CallsInv
<1>15. SlotsInv(b)
  BY <1>0, <1>8, <1>9, <1>10 DEF SlotsInv, FreeOp
<1>16. GenerationsInv(b)
  <2>1. \A q \in Op : Named(b.op[q]) => b.op[q].generation # b.transferGeneration
    <3>1. Named(a.op[o])
      BY DEF Named
    <3> QED
      BY <1>8, <1>11, <3>1 DEF SwitchInv, GenerationsInv
  <2> QED
    BY <1>8, <1>11, <2>1 DEF SwitchInv, GenerationsInv, SameAhead
<1>17. NationalInv(b)
  <2>1. /\ SameNational(x, b) /\ b.nationalChain = x.nationalChain /\ b.lane = x.lane
    BY <1>5, <1>6 DEF SameNational, SameLanes
  <2>2. b.nationalResident => CanHide(a) /\ b.lane = a.lane /\ b.nationalChain = a.nationalChain
                              /\ b.nationalLayer = a.nationalLayer /\ b.nationalPresents = a.nationalPresents
    BY <1>4, <2>1 DEF SameNational
  <2>3. OwnedInv(b)
    BY <1>0, <1>8, <1>12, <2>2 DEF OwnedInv, LaneIs
  <2>4. ~b.nationalVisible
    BY <1>4, <2>1 DEF SameNational
  <2>5. \A q \in Op : ~b.op[q].staged
    BY <1>9, <1>10, <1>12
  <2>6. \A q \in Op : b.transition # q /\ b.autoSwitch # q
    BY <1>0, <1>8
  <2>7. AcquiringInv(b)
    BY <2>6 DEF AcquiringInv
  <2>8. DrawnInv(b)
    BY <1>11, <2>4, <2>5 DEF DrawnInv, Drawn
  <2> QED
    BY <2>3, <2>7, <2>8 DEF NationalInv
<1>18. PollingInv(b)
  BY <1>8 DEF PollingInv
<1>19. LayerInv(b)
  <2>1. a.layer = a.mapped /\ a.mapped = [by |-> o, site |-> site]
    BY DEF SwitchInv, LayerInv, Layered
  <2> QED
    BY <1>8, <1>11, <2>1 DEF LayerInv
<1> QED
  BY <1>7, <1>13, <1>14, <1>15, <1>16, <1>17, <1>18, <1>19 DEF SwitchInv

(* National, revealed or acquired, is painted, and the Site removed.        *)
LEMMA NationalAcceptKeeps ==
  ASSUME NEW a, SwitchInv(a), NEW o \in Op, a.transition = o,
         \/ /\ a.op[o].acquire /\ a.op[o].pc \in {"staging", "fading"}
            /\ a.transferGeneration = a.op[o].generation
            /\ LaneIs(a, "national", a.op[o].generation)
         \/ Revealing(a.op[o]) /\ a.op[o].pc # "idle"
  PROVE  SwitchInv(settleAutoSwitch(nationalAccepted(a, o), o, TRUE))
<1> DEFINE d == [a EXCEPT !.painted = National, !.transition = None,
                          !.nationalShown = TRUE, !.nationalResident = FALSE]
           e == [d EXCEPT !.polling = None, !.pollingBy = None, !.opacity = "none",
                          !.layer = NoLayer,
                          !.mapped = IF d.layer = NoLayer THEN @ ELSE NoLayer]
           f == cancel(e, "site")
           x == nationalAccepted(a, o)
           b == settleAutoSwitch(x, o, TRUE)
<1>0. /\ a.op \in [Op -> Call] /\ None \notin Op /\ None \notin Site /\ National \notin Site
      /\ National # None /\ SwitchType(a) /\ DOMAIN a = AppFields
      /\ CallShape(a.op[o])
  BY NamesSuffice, SourcesDiffer DEF SwitchInv, SwitchType
<1>1. a.autoSwitch \in {o, None} /\ (a.painted = None => a.autoSwitch = None)
  BY <1>0 DEF SwitchInv, CallsInv
<1>2. /\ DOMAIN d = AppFields
      /\ d.painted = National /\ d.transition = None
      /\ d.op = a.op /\ d.autoSwitch = a.autoSwitch
      /\ SameAhead(a, d) /\ SameLanes(a, d) /\ SameOperator(a, d)
      /\ d.layer = a.layer /\ d.mapped = a.mapped
      /\ d.nationalShown = TRUE /\ d.nationalResident = FALSE
      /\ d.nationalLayer = a.nationalLayer /\ d.nationalVisible = a.nationalVisible
      /\ d.nationalPresents = a.nationalPresents
  BY <1>0, FieldsAre DEF SameAhead, SameLanes, SameOperator
<1> HIDE DEF d
<1>3. /\ DOMAIN e = AppFields
      /\ e.painted = National /\ e.transition = None
      /\ e.op = a.op /\ e.autoSwitch = a.autoSwitch
      /\ SameAhead(a, e) /\ SameLanes(a, e) /\ SameOperator(a, e) /\ SameNational(d, e)
      /\ e.layer = NoLayer /\ e.mapped = NoLayer
  <2>1. a.layer = a.mapped
    BY DEF SwitchInv, LayerInv
  <2> QED
    BY <1>2, <2>1, FieldsAre DEF SameAhead, SameLanes, SameOperator, SameNational
<1> HIDE DEF e
<1>4. /\ DOMAIN f = AppFields
      /\ f.painted = National /\ f.transition = None
      /\ f.op = a.op /\ f.autoSwitch = a.autoSwitch
      /\ SameAhead(a, f) /\ SameOperator(a, f) /\ SameNational(d, f)
      /\ f.layer = NoLayer /\ f.mapped = NoLayer
      /\ f.transferGeneration = a.transferGeneration /\ f.nationalGeneration = a.nationalGeneration
      /\ f.nationalChain = a.nationalChain
      /\ f.lane = [a.lane EXCEPT !["site"].active = FALSE]
  BY <1>3, FieldsAre DEF cancel, SameAhead, SameLanes, SameOperator, SameNational
<1> HIDE DEF f
<1>5. f = removeSiteAfterNationalPaint(d)
  BY DEF removeSiteAfterNationalPaint, f, e
<1>6. x = [f EXCEPT !.nationalChain = IF a.op[o].acquire THEN a.op[o].generation ELSE @,
                    !.nationalRequestError = IF a.autoSwitch = o THEN @ ELSE FALSE]
  BY <1>5 DEF nationalAccepted, d
<1> HIDE DEF x
<1>7. /\ DOMAIN x = AppFields
      /\ x.painted = National /\ x.transition = None
      /\ x.op = a.op /\ x.autoSwitch = a.autoSwitch
      /\ SameAhead(a, x) /\ SameOperator(a, x) /\ SameNational(d, x)
      /\ x.layer = NoLayer /\ x.mapped = NoLayer
      /\ x.transferGeneration = a.transferGeneration /\ x.nationalGeneration = a.nationalGeneration
      /\ x.nationalChain = (IF a.op[o].acquire THEN a.op[o].generation ELSE a.nationalChain)
      /\ x.lane = f.lane
  BY <1>4, <1>6, FieldsAre DEF SameAhead, SameOperator, SameNational
<1>8. /\ DOMAIN b = AppFields
      /\ b.painted = National /\ b.transition = None
      /\ b.op = [a.op EXCEPT ![o] = NoOp]
      /\ b.autoSwitch = (IF a.autoSwitch = o THEN None ELSE a.autoSwitch)
      /\ SameAhead(a, b) /\ SameOperator(a, b) /\ SameNational(d, b)
      /\ b.layer = NoLayer /\ b.mapped = NoLayer
      /\ b.transferGeneration = a.transferGeneration /\ b.nationalGeneration = a.nationalGeneration
      /\ b.nationalChain = (IF a.op[o].acquire THEN a.op[o].generation ELSE a.nationalChain)
      /\ b.lane = f.lane
  BY <1>7, FieldsAre DEF settleAutoSwitch, SameAhead, SameOperator, SameNational
<1> HIDE DEF b
<1>9. b.autoSwitch = None
  BY <1>1, <1>8
<1>10. /\ b.op \in [Op -> Call] /\ b.op[o] = NoOp
       /\ \A q \in Op : q # o => b.op[q] = a.op[q]
  <2>1. NoOp \in Call
    BY DEF NoOp, Call
  <2> QED
    BY <1>0, <1>8, <2>1
<1>11. /\ ~Named(NoOp) /\ ~Layered(NoOp) /\ ~Revealing(NoOp) /\ ~NoOp.abandoned
       /\ ~NoOp.acquire /\ ~NoOp.staged /\ NoOp.pc = "idle" /\ CallShape(NoOp)
  BY <1>0 DEF NoOp, Named, Layered, Revealing, CallShape
<1>12. b.lane \in [{"site", "national"} -> [generation : Nat, active : BOOLEAN]]
       /\ b.lane["national"] = a.lane["national"] /\ ~b.lane["site"].active
  <2>1. a.lane \in [{"site", "national"} -> [generation : Nat, active : BOOLEAN]]
    BY <1>0 DEF SwitchType
  <2>2. b.lane = [a.lane EXCEPT !["site"].active = FALSE]
    BY <1>4, <1>8
  <2> QED
    BY <2>1, <2>2
<1>13. \A g : LaneIs(b, "national", g) <=> LaneIs(a, "national", g)
  BY <1>12 DEF LaneIs
<1>14. a.op[o].target \notin Site
  BY <1>0 DEF CallShape, Revealing
<1>15. \A q \in Op : /\ ~b.op[q].abandoned /\ b.op[q].pc # "preloading"
                     /\ Named(b.op[q]) => q # o /\ Named(a.op[q]) /\ b.op[q] = a.op[q]
                     /\ ~Revealing(b.op[q]) /\ ~Layered(b.op[q]) /\ ~b.op[q].staged
  <2>1. \A q \in Op : q # o => ~a.op[q].abandoned /\ a.op[q].pc # "preloading" /\ ~Revealing(a.op[q])
    BY <1>0, <1>1 DEF SwitchInv, CallsInv
  <2>2. \A q \in Op : ~Layered(a.op[q])
    BY <1>0, <1>14 DEF SwitchInv, LayerInv
  <2>3. ASSUME NEW q \in Op, q # o, a.op[q].staged PROVE FALSE
    <3>1. CASE a.op[o].acquire
      BY <2>3, <3>1 DEF SwitchInv, NationalInv, AcquiringInv
    <3>2. CASE Revealing(a.op[o])
      <4>1. a.autoSwitch = o /\ a.painted # None
        BY <1>0, <3>2 DEF SwitchInv, CallsInv
      <4> QED
        BY <2>3, <4>1 DEF SwitchInv, NationalInv, DrawnInv
    <3> QED
      BY <3>1, <3>2
  <2> QED
    BY <1>10, <1>11, <2>1, <2>2, <2>3
<1>16. SwitchType(b)
  <2>1. \A q \in Op : CallShape(b.op[q])
    BY <1>0, <1>10, <1>11 DEF SwitchType
  <2>2. NoLayer \in [by : Op \cup {None}, site : Site \cup {None}]
    BY DEF NoLayer
  <2>3. b.nationalShown \in BOOLEAN /\ b.nationalResident \in BOOLEAN
    BY <1>2, <1>8, Zenon DEF SameNational
  <2>4. b.nationalLayer \in BOOLEAN /\ b.nationalVisible \in BOOLEAN /\ b.nationalPresents \in BOOLEAN
    BY <1>0, <1>2, <1>8 DEF SwitchType, SameNational
  <2>5. b.nationalChain \in Nat /\ b.transferGeneration \in Nat /\ b.nationalGeneration \in Nat
    <3>1. a.op[o].generation \in Nat
      BY <1>0 DEF Call
    <3> QED
      BY <1>0, <1>8, <3>1 DEF SwitchType
  <2>6. b.painted \in Source \cup {None} /\ b.transition \in Op \cup {None} /\ b.autoSwitch \in Op \cup {None}
    BY <1>8, <1>9 DEF Source
  <2>7. b.op \in [Op -> Call] /\ b.lane \in [{"site", "national"} -> [generation : Nat, active : BOOLEAN]]
    BY <1>10, <1>12
  <2>8. DOMAIN b = AppFields /\ SameAhead(a, b) /\ SameOperator(a, b) /\ b.layer = NoLayer /\ b.mapped = NoLayer
    BY <1>8
  <2> QED
    BY <1>0, <2>1, <2>2, <2>3, <2>4, <2>5, <2>6, <2>7, <2>8 DEF SwitchType, SameAhead, SameOperator
<1>17. CallsInv(b)
  BY <1>0, <1>8, <1>9, <1>15 DEF CallsInv
<1>18. SlotsInv(b)
  BY <1>0, <1>8, <1>10, <1>11 DEF SlotsInv, FreeOp
<1>19. GenerationsInv(b)
  <2>1. \A q \in Op : Named(b.op[q]) => b.op[q].generation # b.transferGeneration
    <3> SUFFICES ASSUME NEW q \in Op, Named(b.op[q]), b.op[q].generation = b.transferGeneration
                 PROVE  FALSE
      OBVIOUS
    <3>1. q # o /\ Named(a.op[q]) /\ a.op[q].generation = a.transferGeneration
      BY <1>8, <1>15
    <3>2. a.transition = q \/ a.autoSwitch = q
      BY <3>1 DEF SwitchInv, GenerationsInv
    <3> QED
      BY <1>0, <1>1, <3>1, <3>2
  <2> QED
    BY <1>8, <1>15, <2>1 DEF SwitchInv, GenerationsInv, SameAhead
<1>20. NationalInv(b)
  <2>1. /\ b.nationalResident = FALSE
        /\ b.nationalLayer = a.nationalLayer /\ b.nationalVisible = a.nationalVisible
        /\ b.nationalPresents = a.nationalPresents
    BY <1>2, <1>8 DEF SameNational
  <2>2. b.nationalChain = b.nationalGeneration /\ LaneIs(b, "national", b.nationalGeneration) /\ Drawn(b)
    <3>1. CASE a.op[o].acquire
      <4>1. a.nationalGeneration = a.op[o].generation /\ LaneIs(a, "national", a.op[o].generation) /\ Drawn(a)
        <5>1. a.op[o].pc \in {"staging", "fading"} /\ LaneIs(a, "national", a.op[o].generation)
          BY <3>1 DEF Revealing
        <5> QED
          BY <3>1, <5>1 DEF SwitchInv, NationalInv, AcquiringInv
      <4> QED
        BY <1>8, <1>13, <2>1, <3>1, <4>1 DEF Drawn
    <3>2. CASE Revealing(a.op[o])
      <4>1. a.nationalResident /\ ~a.op[o].acquire
        BY <3>2 DEF SwitchInv, CallsInv, Revealing
      <4>2. /\ a.nationalChain = a.nationalGeneration /\ LaneIs(a, "national", a.nationalGeneration)
            /\ a.nationalLayer /\ a.nationalPresents
        BY <4>1 DEF SwitchInv, NationalInv, OwnedInv
      <4>3. a.nationalVisible
        BY <3>2 DEF SwitchInv, NationalInv, DrawnInv
      <4> QED
        BY <1>8, <1>13, <2>1, <4>1, <4>2, <4>3 DEF Drawn
    <3> QED
      BY <3>1, <3>2
  <2>3. OwnedInv(b)
    BY <2>1, <2>2 DEF OwnedInv
  <2>4. \A q \in Op : b.transition # q /\ b.autoSwitch # q
    BY <1>0, <1>8, <1>9
  <2>5. AcquiringInv(b)
    BY <2>4 DEF AcquiringInv
  <2>6. DrawnInv(b)
    BY <1>8, <1>15 DEF DrawnInv
  <2> QED
    BY <2>3, <2>5, <2>6 DEF NationalInv
<1>21. PollingInv(b)
  BY <1>0, <1>8 DEF PollingInv
<1>22. LayerInv(b)
  BY <1>0, <1>8, <1>15 DEF LayerInv
<1> QED
  BY <1>16, <1>17, <1>18, <1>19, <1>20, <1>21, <1>22 DEF SwitchInv, b, x

-----------------------------------------------------------------------------
(* A switch only moves on: x is a but for the opacity.                      *)
LEMMA PlainMoveKeeps ==
  ASSUME NEW a, NEW x, SwitchInv(a), DOMAIN x = AppFields, NEW o \in Op,
         NEW pc \in {"downloading", "preparing", "fading"},
         SameCalls(a, x), SameAhead(a, x), SameLanes(a, x), SameNational(a, x), SamePolling(a, x),
         SameOperator(a, x), x.layer = a.layer, x.mapped = a.mapped,
         \/ /\ pc = "downloading" /\ a.op[o].pc = "beginning" /\ a.op[o].target \in Site
            /\ ~a.op[o].abandoned /\ x.opacity = a.opacity
         \/ /\ pc = "preparing" /\ a.op[o].pc = "beginning" /\ a.op[o].target = National
            /\ ~a.op[o].abandoned /\ x.opacity = a.opacity
         \/ pc = "fading" /\ a.op[o].pc = "painting"
         \/ pc = "fading" /\ a.op[o].pc = "revealing"
         \/ /\ pc = "fading" /\ a.op[o].pc = "staging"
            /\ a.transition = o => LaneIs(a, "national", a.op[o].generation)
  PROVE  SwitchInv(Moves(x, o, pc))
<1> DEFINE c == [a.op[o] EXCEPT !.pc = pc]
           b == Moves(x, o, pc)
<1>0. /\ a.op \in [Op -> Call] /\ National \notin Site /\ None \notin Site /\ National # None
      /\ a.op[o] \in Call /\ CallShape(a.op[o])
  BY SourcesDiffer DEF SwitchInv, SwitchType
<1>1. /\ c \in Call /\ c.pc = pc /\ c.target = a.op[o].target /\ c.generation = a.op[o].generation
      /\ c.acquire = a.op[o].acquire /\ c.abandoned = a.op[o].abandoned /\ c.staged = a.op[o].staged
  BY <1>0 DEF Call
<1>2. /\ DOMAIN b = AppFields
      /\ b.painted = x.painted /\ b.transition = x.transition /\ b.autoSwitch = x.autoSwitch
      /\ b.op = [x.op EXCEPT ![o].pc = pc]
      /\ SameAhead(x, b) /\ SameLanes(x, b) /\ SamePolling(x, b) /\ SameOperator(x, b)
      /\ SameNational(x, b) /\ b.layer = x.layer /\ b.mapped = x.mapped /\ b.opacity = x.opacity
  BY FieldsAre DEF Moves, SameAhead, SameLanes, SamePolling, SameOperator, SameNational
<1>3. b.op = [a.op EXCEPT ![o] = c]
  BY <1>2 DEF SameCalls
<1> HIDE DEF b, c
<1>4. Moved(a, b, o, c)
  BY <1>1, <1>2, <1>3 DEF Moved, SameCalls, SameAhead, SameLanes, SamePolling, SameOperator, SameNational
<1>5. CallShape(c)
  BY <1>0, <1>1 DEF CallShape, Revealing, Source
<1>6. Layered(c) <=> Layered(a.op[o])
  BY <1>0, <1>1 DEF CallShape, Layered, Revealing
<1>7. SameNational(a, b) /\ b.opacity = x.opacity
  BY <1>2 DEF SameNational
<1>8. c.acquire /\ a.transition = o =>
       /\ c.pc = "fading" => LaneIs(a, "national", c.generation)
       /\ c.pc \in {"staging", "fading"} => Drawn(b)
  <2>1. c.acquire /\ c.pc = "fading" => a.op[o].pc = "staging"
    BY <1>0, <1>1 DEF CallShape, Revealing
  <2>2. a.op[o].acquire /\ a.transition = o /\ a.op[o].pc = "staging" => Drawn(a)
    BY DEF SwitchInv, NationalInv, AcquiringInv
  <2>3. Drawn(b) <=> Drawn(a)
    BY <1>7 DEF Drawn, SameNational
  <2> QED
    BY <1>1, <2>1, <2>2, <2>3
<1>9. \/ b.opacity = a.opacity
      \/ a.painted \notin Site
      \/ c.pc = "fading" /\ c.target = National
  <2>1. a.op[o].pc = "painting" => a.painted \notin Site
    BY DEF SwitchInv, LayerInv, Layered
  <2>2. a.op[o].pc \in {"revealing", "staging"} => a.op[o].target = National
    BY <1>0 DEF CallShape, Revealing
  <2> QED
    BY <1>1, <1>7, <2>1, <2>2
<1>10. c.abandoned => c.pc \notin {"downloading", "preparing"}
  BY <1>1
<1>11. a.op[o].pc \notin {"idle", "preloading", "fading"} /\ c.pc \notin {"idle", "preloading"}
  BY <1>1
<1>12. c.staged = a.op[o].staged /\ SameNational(a, b)
  BY <1>1, <1>7
<1>13. Allowed(a, b, o, c)
  BY <1>6, <1>8, <1>9, <1>10, <1>11, <1>12 DEF Allowed
<1> QED
  BY <1>1, <1>4, <1>5, <1>13, MoveKeeps DEF b

(* Only the transition's call is neither given up nor replaced.             *)
LEMMA CurrentIsWanted ==
  ASSUME NEW a, SwitchInv(a), NEW o \in Op, a.transition = o
  PROVE  ~a.op[o].abandoned
  BY NamesSuffice DEF SwitchInv, CallsInv

(* A lane is opened for the call that begun on it.                          *)
LEMMA OpeningKeeps ==
  ASSUME NEW a, SwitchInv(a), NEW l \in {"site", "national"},
         \A o \in Op : a.op[o].abandoned /\ a.op[o].pc \in {"downloading", "preparing"}
           => a.op[o].generation # a.lane[l].generation
  PROVE  /\ SwitchInv([a EXCEPT !.lane[l].active = TRUE])
         /\ LET b == [a EXCEPT !.lane[l].active = TRUE]
            IN  /\ DOMAIN b = AppFields /\ SameCalls(a, b) /\ SameAhead(a, b)
                /\ SameNational(a, b) /\ SamePolling(a, b) /\ SameLayer(a, b) /\ SameOperator(a, b)
<1> DEFINE b == [a EXCEPT !.lane[l].active = TRUE]
<1>1. /\ DOMAIN b = AppFields
      /\ SameCalls(a, b) /\ SameAhead(a, b) /\ SameNational(a, b)
      /\ SamePolling(a, b) /\ SameLayer(a, b) /\ SameOperator(a, b)
      /\ b.transferGeneration = a.transferGeneration
      /\ b.nationalGeneration = a.nationalGeneration /\ b.nationalChain = a.nationalChain
      /\ b.lane = [a.lane EXCEPT ![l].active = TRUE]
  BY FieldsAre DEF SwitchInv, SwitchType, SameCalls, SameAhead, SameNational, SamePolling,
                   SameLayer, SameOperator
<1>2. a.lane \in [{"site", "national"} -> [generation : Nat, active : BOOLEAN]]
      /\ a.transferGeneration \in Nat
  BY DEF SwitchInv, SwitchType
<1> HIDE DEF b
<1>3. /\ b.lane \in [{"site", "national"} -> [generation : Nat, active : BOOLEAN]]
      /\ \A m \in {"site", "national"} : m # l => b.lane[m] = a.lane[m]
      /\ b.lane[l].generation = a.lane[l].generation /\ b.lane[l].active = TRUE
  <2> DEFINE n == [a.lane[l] EXCEPT !.active = TRUE]
  <2>1. n \in [generation : Nat, active : BOOLEAN] /\ n.generation = a.lane[l].generation /\ n.active = TRUE
    BY <1>2
  <2>2. b.lane = [a.lane EXCEPT ![l] = n]
    BY <1>1
  <2> HIDE DEF n
  <2> QED
    BY <1>2, <2>1, <2>2
<1>4. \A m \in {"site", "national"} : \A g : LaneIs(b, m, g) => LaneIs(a, m, g) \/ (m = l /\ g = a.lane[l].generation)
  BY <1>3 DEF LaneIs
<1>5. \A g : LaneIs(a, "national", g) => LaneIs(b, "national", g)
  <2> SUFFICES ASSUME NEW g, LaneIs(a, "national", g) PROVE LaneIs(b, "national", g)
    OBVIOUS
  <2>1. CASE l # "national"
    BY <1>3, <2>1 DEF LaneIs
  <2>2. CASE l = "national"
    <3>1. b.lane["national"] \in [generation : Nat, active : BOOLEAN]
      BY <1>3
    <3>2. b.lane["national"].generation = g /\ b.lane["national"].active = TRUE
      BY <1>3, <2>2 DEF LaneIs
    <3> QED
      BY <3>1, <3>2 DEF LaneIs
  <2> QED
    BY <2>1, <2>2
<1>6. \A o \in Op : a.op[o].abandoned =>
           /\ a.op[o].pc = "downloading" => ~LaneIs(b, "site", a.op[o].generation)
           /\ a.op[o].pc = "preparing" => ~LaneIs(b, "national", a.op[o].generation)
  BY <1>4 DEF SwitchInv, GenerationsInv
<1>7. SwitchInv(b)
  BY <1>1, <1>2, <1>3, <1>5, <1>6, LanesKeep
<1> QED
  BY <1>1, <1>7 DEF b

-----------------------------------------------------------------------------
(* The steps of a switch to a Site.                                         *)
LEMMA SiteBeginsKeeps ==
  ASSUME SwitchInv(app), NEW o \in Op, siteBegins(o) PROVE SwitchInv(app')
<1> DEFINE a == [app EXCEPT !.lane["site"].active = TRUE]
<1>1. app.op[o].pc = "beginning" /\ app.op[o].target \in Site
  BY DEF siteBegins
<1>2. CASE /\ app.lane["site"].generation = app.op[o].generation
           /\ IF a.transition = o THEN Continues(Moves(a, o, "downloading")) ELSE Superseded(a, o)
  <2>1. \A q \in Op : app.op[q].abandoned /\ app.op[q].pc \in {"downloading", "preparing"}
           => app.op[q].generation # app.lane["site"].generation
    <3> SUFFICES ASSUME NEW q \in Op, app.op[q].pc \in {"downloading", "preparing"}
                 PROVE  app.op[q].generation # app.op[o].generation
      BY <1>2
    <3>1. CallShape(app.op[q])
      BY DEF SwitchInv, SwitchType
    <3>2. q # o /\ Named(app.op[q]) /\ Named(app.op[o])
      BY <1>1, <3>1 DEF CallShape, Named
    <3> QED
      BY <3>2 DEF SwitchInv, GenerationsInv
  <2>2. /\ SwitchInv(a) /\ DOMAIN a = AppFields /\ SameCalls(app, a)
    BY <2>1, OpeningKeeps
  <2>3. a.op[o].pc = "beginning" /\ a.op[o].target \in Site
    BY <1>1, <2>2 DEF SameCalls
  <2> HIDE DEF a
  <2>4. CASE a.transition = o
    <3>1. ~a.op[o].abandoned
      BY <2>2, <2>4, CurrentIsWanted
    <3>2. SwitchInv(Moves(a, o, "downloading"))
      BY <2>2, <2>3, <3>1, PlainMoveKeeps DEF SameCalls, SameAhead, SameLanes, SameNational, SamePolling,
         SameOperator
    <3> QED
      BY <1>2, <2>4, <3>2 DEF Continues
  <2>5. CASE a.transition # o
    <3>1. SwitchInv(SwitchFails(a, o, TRUE))
      BY <2>2, <2>3, PlainFailureKeeps
    <3> QED
      BY <1>2, <2>5, <3>1 DEF Superseded
  <2> QED
    BY <2>4, <2>5
<1>3. CASE app' = SwitchFails(app, o, FALSE)
  BY <1>1, <1>3, PlainFailureKeeps
<1> QED
  BY <1>2, <1>3 DEF siteBegins, Continues, Fails

(* The scan of a switch to a Site is there, or is not to come.              *)
LEMMA SiteDownloadsKeeps ==
  ASSUME SwitchInv(app), NEW o \in Op, siteDownloads(o) PROVE SwitchInv(app')
<1>1. app.op[o].pc = "downloading" /\ app.op[o].target \in Site
  BY DEF siteDownloads, SwitchInv, SwitchType, CallShape
<1>2. CASE app.transferGeneration = app.op[o].generation /\ app' = installSite(app, o)
  <2>1. Named(app.op[o])
    BY <1>1 DEF Named
  <2>2. app.transition = o \/ app.autoSwitch = o
    BY <1>2, <2>1 DEF SwitchInv, GenerationsInv
  <2>3. None \notin Op /\ National \notin Site /\ None # National
    BY NamesSuffice, SourcesDiffer
  <2>4. app.painted \notin Site /\ app.transition \in {o, None}
    BY <1>1, <2>2, <2>3 DEF SwitchInv, CallsInv
  <2>5. DOMAIN app = AppFields /\ app.op \in [Op -> Call]
    BY DEF SwitchInv, SwitchType
  <2>6. app.op = [app.op EXCEPT ![o].pc = "downloading"]
    <3>1. app.op[o] \in Call
      BY <2>5
    <3>2. app.op[o] = [app.op[o] EXCEPT !.pc = "downloading"]
      BY <1>1, <3>1 DEF Call
    <3> QED
      BY <2>5, <3>2
  <2>7. SwitchInv(installSite(app, o))
    BY <1>1, <2>4, <2>5, <2>6, InstallKeeps DEF SameAhead, SameLanes, SameNational, SamePolling,
       SameLayer, SameOperator
  <2> QED
    BY <1>2, <2>7
<1>3. CASE app' = SwitchFails(app, o, FALSE) \/ app' = SwitchFails(app, o, TRUE)
  BY <1>1, <1>3, PlainFailureKeeps
<1> QED
  BY <1>2, <1>3 DEF siteDownloads, Continues, Superseded, Fails

(* The layer of a switch to a Site has painted, or is removed again.        *)
LEMMA SitePaintsKeeps ==
  ASSUME SwitchInv(app), NEW o \in Op, sitePaints(o) PROVE SwitchInv(app')
<1> DEFINE x == [app EXCEPT !.opacity = "partial"]
<1>1. app.op[o].pc = "painting" /\ Layered(app.op[o])
  BY DEF sitePaints, Layered
<1>2. CASE app' = Moves(x, o, "fading")
  <2>1. /\ DOMAIN x = AppFields /\ SameCalls(app, x) /\ SameAhead(app, x) /\ SameLanes(app, x)
        /\ SameNational(app, x) /\ SamePolling(app, x) /\ SameOperator(app, x)
        /\ x.layer = app.layer /\ x.mapped = app.mapped
    BY FieldsAre DEF SwitchInv, SwitchType, SameCalls, SameAhead, SameLanes, SameNational, SamePolling,
       SameOperator
  <2> HIDE DEF x
  <2>2. SwitchInv(Moves(x, o, "fading"))
    BY <1>1, <2>1, PlainMoveKeeps
  <2> QED
    BY <1>2, <2>2
<1>3. CASE app' = SwitchFails(siteRemoved(app, o), o, FALSE) \/ app' = SwitchFails(siteRemoved(app, o), o, TRUE)
  BY <1>1, <1>3, RemovalKeeps
<1> QED
  BY <1>2, <1>3 DEF sitePaints, Continues, Superseded, Fails

(* The Site has faded in and is accepted, or is removed again.              *)
LEMMA SiteFadesKeeps ==
  ASSUME SwitchInv(app), NEW o \in Op, siteFades(o) PROVE SwitchInv(app')
<1>1. app.op[o].pc = "fading" /\ app.op[o].target \in Site /\ Layered(app.op[o])
  BY DEF siteFades, Layered
<1>2. CASE app.transition = o /\ app.transferGeneration = app.op[o].generation
  BY <1>1, <1>2, SiteAcceptKeeps DEF siteFades, Continues
<1>3. CASE ~(app.transition = o /\ app.transferGeneration = app.op[o].generation)
  BY <1>1, <1>3, RemovalKeeps DEF siteFades, Superseded
<1> QED
  BY <1>2, <1>3

-----------------------------------------------------------------------------
(* The steps of a switch to National.                                       *)
LEMMA NationalRevealsKeeps ==
  ASSUME SwitchInv(app), NEW o \in Op, nationalReveals(o) PROVE SwitchInv(app')
<1> DEFINE x == [app EXCEPT !.opacity = "partial"]
<1>1. app.op[o].pc = "revealing" /\ Revealing(app.op[o])
  BY DEF nationalReveals, SwitchInv, SwitchType, CallShape
<1>2. CASE app' = Moves(x, o, "fading")
  <2>1. /\ DOMAIN x = AppFields /\ SameCalls(app, x) /\ SameAhead(app, x) /\ SameLanes(app, x)
        /\ SameNational(app, x) /\ SamePolling(app, x) /\ SameOperator(app, x)
        /\ x.layer = app.layer /\ x.mapped = app.mapped
    BY FieldsAre DEF SwitchInv, SwitchType, SameCalls, SameAhead, SameLanes, SameNational, SamePolling,
       SameOperator
  <2> HIDE DEF x
  <2>2. SwitchInv(Moves(x, o, "fading"))
    BY <1>1, <2>1, PlainMoveKeeps
  <2> QED
    BY <1>2, <2>2
<1>3. CASE app' = SwitchFails(concealed(app), o, FALSE) \/ app' = SwitchFails(concealed(app), o, TRUE)
  BY <1>1, <1>3, ConcealmentKeeps
<1> QED
  BY <1>2, <1>3 DEF nationalReveals, Continues, Superseded, Fails

(* The lane of an acquisition is opened.                                    *)
LEMMA NationalBeginsKeeps ==
  ASSUME SwitchInv(app), NEW o \in Op, nationalBegins(o) PROVE SwitchInv(app')
<1> DEFINE a == [app EXCEPT !.lane["national"].active = TRUE]
<1>1. app.op[o].pc = "beginning" /\ app.op[o].target = National
  BY DEF nationalBegins
<1>2. CASE /\ app.lane["national"].generation = app.op[o].generation
           /\ IF a.transition = o THEN Continues(Moves(a, o, "preparing")) ELSE Superseded(a, o)
  <2>1. \A q \in Op : app.op[q].abandoned /\ app.op[q].pc \in {"downloading", "preparing"}
           => app.op[q].generation # app.lane["national"].generation
    <3> SUFFICES ASSUME NEW q \in Op, app.op[q].pc \in {"downloading", "preparing"}
                 PROVE  app.op[q].generation # app.op[o].generation
      BY <1>2
    <3>1. CallShape(app.op[q]) /\ CallShape(app.op[o])
      BY DEF SwitchInv, SwitchType
    <3>2. q # o /\ Named(app.op[q]) /\ Named(app.op[o])
      BY <1>1, <3>1, SourcesDiffer DEF CallShape, Named
    <3> QED
      BY <3>2 DEF SwitchInv, GenerationsInv
  <2>2. /\ SwitchInv(a) /\ DOMAIN a = AppFields /\ SameCalls(app, a)
    BY <2>1, OpeningKeeps
  <2>3. a.op[o].pc = "beginning" /\ a.op[o].target = National
    BY <1>1, <2>2 DEF SameCalls
  <2> HIDE DEF a
  <2>4. CASE a.transition = o
    <3>1. ~a.op[o].abandoned
      BY <2>2, <2>4, CurrentIsWanted
    <3>2. SwitchInv(Moves(a, o, "preparing"))
      BY <2>2, <2>3, <3>1, PlainMoveKeeps DEF SameCalls, SameAhead, SameLanes, SameNational, SamePolling,
         SameOperator
    <3> QED
      BY <1>2, <2>4, <3>2 DEF Continues
  <2>5. CASE a.transition # o
    <3>1. SwitchInv(SwitchFails(a, o, TRUE))
      BY <2>2, <2>3, PlainFailureKeeps
    <3> QED
      BY <1>2, <2>5, <3>1 DEF Superseded
  <2> QED
    BY <2>4, <2>5
<1>3. CASE app' = SwitchFails(app, o, FALSE)
  BY <1>1, <1>3, PlainFailureKeeps
<1> QED
  BY <1>2, <1>3 DEF nationalBegins, Continues, Fails

(* The current frame of an acquisition is prepared.                         *)
LEMMA NationalPreparesKeeps ==
  ASSUME SwitchInv(app), NEW o \in Op, nationalPrepares(o) PROVE SwitchInv(app')
<1> DEFINE c == [app.op[o] EXCEPT !.pc = "staging", !.staged = TRUE]
           x == [app EXCEPT !.nationalLayer = TRUE, !.nationalVisible = TRUE,
                            !.nationalPresents = TRUE,
                            !.nationalUsable = @ \/ ~app.nationalLayer,
                            !.op[o].staged = TRUE]
           b == Moves(x, o, "staging")
<1>0. /\ app.op \in [Op -> Call] /\ National \notin Site /\ None \notin Site /\ National # None
      /\ app.op[o] \in Call /\ CallShape(app.op[o]) /\ DOMAIN app = AppFields
  BY SourcesDiffer DEF SwitchInv, SwitchType
<1>1. app.op[o].pc = "preparing" /\ app.op[o].acquire /\ app.op[o].target = National
  BY <1>0 DEF nationalPrepares, CallShape
<1>2. CASE app.transferGeneration = app.op[o].generation /\ app' = b
  <2>1. /\ c \in Call /\ c.pc = "staging" /\ c.target = app.op[o].target
        /\ c.generation = app.op[o].generation
        /\ c.acquire = app.op[o].acquire /\ c.abandoned = app.op[o].abandoned /\ c.staged
    BY <1>0 DEF Call
  <2>2. app.transition = o \/ app.autoSwitch = o
    <3>1. Named(app.op[o])
      BY <1>1 DEF Named
    <3> QED
      BY <1>2, <3>1 DEF SwitchInv, GenerationsInv
  <2>3. /\ DOMAIN x = AppFields
        /\ x.painted = app.painted /\ x.transition = app.transition /\ x.autoSwitch = app.autoSwitch
        /\ x.op = [app.op EXCEPT ![o].staged = TRUE]
        /\ SameAhead(app, x) /\ SameLanes(app, x) /\ SamePolling(app, x) /\ SameOperator(app, x)
        /\ SameLayer(app, x)
        /\ x.nationalResident = app.nationalResident /\ x.nationalShown = app.nationalShown
        /\ x.nationalLayer = TRUE /\ x.nationalVisible = TRUE /\ x.nationalPresents = TRUE
    BY <1>0, FieldsAre DEF SameAhead, SameLanes, SamePolling, SameOperator, SameLayer
  <2> HIDE DEF x
  <2>4. /\ DOMAIN b = AppFields
        /\ b.painted = app.painted /\ b.transition = app.transition /\ b.autoSwitch = app.autoSwitch
        /\ b.op = [x.op EXCEPT ![o].pc = "staging"]
        /\ SameAhead(app, b) /\ SameLanes(app, b) /\ SamePolling(app, b) /\ SameOperator(app, b)
        /\ SameLayer(app, b)
        /\ b.nationalResident = app.nationalResident /\ b.nationalShown = app.nationalShown
        /\ b.nationalLayer = TRUE /\ b.nationalVisible = TRUE /\ b.nationalPresents = TRUE
    BY <2>3, FieldsAre DEF Moves, SameAhead, SameLanes, SamePolling, SameOperator, SameLayer
  <2> HIDE DEF b
  <2>5. b.op = [app.op EXCEPT ![o] = c]
    <3> DEFINE d == [app.op[o] EXCEPT !.staged = TRUE]
    <3>1. c = [d EXCEPT !.pc = "staging"]
      BY <1>0 DEF Call
    <3>2. x.op = [app.op EXCEPT ![o] = d]
      BY <2>3
    <3> HIDE DEF c, d
    <3>3. b.op = [app.op EXCEPT ![o] = [d EXCEPT !.pc = "staging"]]
      BY <1>0, <2>4, <3>2
    <3> QED
      BY <3>1, <3>3
  <2> HIDE DEF c
  <2>6. CallShape(c)
    BY <1>0, <1>1, <2>1 DEF CallShape, Revealing
  <2>7. Moved(app, b, o, c)
    BY <2>1, <2>4, <2>5 DEF Moved, SameLayer
  <2>8. Drawn(b)
    BY <2>4 DEF Drawn
  <2>9. (Layered(c) <=> Layered(app.op[o])) /\ b.opacity = app.opacity
    BY <1>1, <2>1, <2>4 DEF Layered, SameLayer
  <2>10. Allowed(app, b, o, c)
    BY <1>1, <2>1, <2>2, <2>4, <2>8, <2>9 DEF Allowed
  <2> QED
    BY <1>2, <2>1, <2>6, <2>7, <2>10, MoveKeeps
<1>3. CASE app' = SwitchFails(app, o, FALSE) \/ app' = SwitchFails(app, o, TRUE)
  BY <1>1, <1>3, PlainFailureKeeps
<1> QED
  BY <1>2, <1>3 DEF nationalPrepares, Continues, Superseded, Fails

(* The frame of an acquisition is on its layer.                             *)
LEMMA NationalStagesKeeps ==
  ASSUME SwitchInv(app), NEW o \in Op, nationalStages(o) PROVE SwitchInv(app')
<1> DEFINE a == [app EXCEPT !.nationalUsable = TRUE]
           x == [a EXCEPT !.opacity = "partial"]
<1>0. app.op[o].pc = "staging" /\ app.op[o].acquire
  BY DEF nationalStages, SwitchInv, SwitchType, CallShape
<1>1. CASE /\ OwnsNational(app, o) /\ BackendAnswers(o, "national")
           /\ app' = IF a.layer = NoLayer THEN settleAutoSwitch(nationalAccepted(a, o), o, TRUE)
                     ELSE Moves(x, o, "fading")
  <2>1. /\ DOMAIN a = AppFields
        /\ SameCalls(app, a) /\ SameAhead(app, a) /\ SameLanes(app, a) /\ SameNational(app, a)
        /\ SamePolling(app, a) /\ SameLayer(app, a) /\ SameOperator(app, a)
    BY FieldsAre DEF SwitchInv, SwitchType, SameCalls, SameAhead, SameLanes, SameNational, SamePolling,
       SameLayer, SameOperator
  <2>2. SwitchInv(a)
    <3>1. OperatorType(a) /\ a.picking = app.picking
      BY <2>1 DEF SwitchInv, SwitchType, OperatorType, SameOperator
    <3> HIDE DEF a
    <3> QED
      BY <2>1, <3>1, Unseen
  <2> HIDE DEF a
  <2>3. /\ a.transition = o /\ a.transferGeneration = a.op[o].generation
        /\ LaneIs(a, "national", a.op[o].generation) /\ a.op[o].pc = "staging" /\ a.op[o].acquire
    BY <1>0, <1>1, <2>1 DEF OwnsNational, BackendAnswers, SameCalls, SameLanes, LaneIs
  <2>4. SwitchInv(settleAutoSwitch(nationalAccepted(a, o), o, TRUE))
    BY <2>2, <2>3, NationalAcceptKeeps
  <2>5. SwitchInv(Moves(x, o, "fading"))
    <3>1. /\ DOMAIN x = AppFields /\ SameCalls(a, x) /\ SameAhead(a, x) /\ SameLanes(a, x)
          /\ SameNational(a, x) /\ SamePolling(a, x) /\ SameOperator(a, x)
          /\ x.layer = a.layer /\ x.mapped = a.mapped
      BY <2>1, FieldsAre DEF SameCalls, SameAhead, SameLanes, SameNational, SamePolling, SameOperator
    <3> HIDE DEF x
    <3> QED
      BY <2>2, <2>3, <3>1, PlainMoveKeeps
  <2> QED
    BY <1>1, <2>4, <2>5
<1>2. CASE \/ app' = SwitchFails(unpresented(app, o), o, FALSE)
           \/ app' = SwitchFails(unpresented(app, o), o, TRUE)
  BY <1>0, <1>2, UnstagingKeeps
<1> QED
  BY <1>1, <1>2 DEF nationalStages, Continues, Superseded, Fails

(* The Site has faded out and National is accepted, or the Site is restored.*)
LEMMA NationalFadesOutKeeps ==
  ASSUME SwitchInv(app), NEW o \in Op, nationalFadesOut(o) PROVE SwitchInv(app')
<1>1. app.op[o].pc = "fading" /\ app.op[o].target = National
  BY DEF nationalFadesOut
<1>2. CASE app.op[o].acquire
  <2>1. CASE OwnsNational(app, o)
    <3>1. LaneIs(app, "national", app.op[o].generation)
      BY <1>1, <1>2, <2>1 DEF SwitchInv, NationalInv, AcquiringInv, OwnsNational
    <3> QED
      BY <1>1, <1>2, <2>1, <3>1, NationalAcceptKeeps DEF nationalFadesOut, OwnsNational, Continues
  <2>2. CASE ~OwnsNational(app, o)
    <3>1. SwitchInv(SwitchFails(unpresented(siteRestored(app), o), o, TRUE))
      BY <1>1, <1>2, UnstagingKeeps
    <3> QED
      BY <1>2, <2>2, <3>1 DEF nationalFadesOut, Superseded
  <2> QED
    BY <2>1, <2>2
<1>3. CASE ~app.op[o].acquire
  <2>1. Revealing(app.op[o])
    BY <1>1, <1>3 DEF Revealing
  <2>2. CASE app.transition = o
    BY <1>1, <1>3, <2>1, <2>2, NationalAcceptKeeps DEF nationalFadesOut, Continues
  <2>3. CASE app.transition # o
    BY <1>3, <2>1, <2>3, ConcealmentKeeps DEF nationalFadesOut, Superseded
  <2> QED
    BY <2>2, <2>3
<1> QED
  BY <1>2, <1>3

(* Every step of a switch.                                                  *)
LEMMA SwitchStepKeeps ==
  ASSUME SwitchInv(app), NEW o \in Op, SwitchStep(o) PROVE SwitchInv(app')
  BY SiteBeginsKeeps, SiteDownloadsKeeps, SitePaintsKeeps, SiteFadesKeeps, NationalRevealsKeeps,
     NationalBeginsKeeps, NationalPreparesKeeps, NationalStagesKeeps, NationalFadesOutKeeps
  DEF SwitchStep

-----------------------------------------------------------------------------
(* The steps of a scan fetched ahead.                                       *)
LEMMA PrefetchEndsKeeps ==
  ASSUME NEW a, NEW x, SwitchInv(a), NEW p \in Prefetch, a.prefetch[p].pc # "idle",
         \/ x = a
         \/ x = [a EXCEPT !.prefetchedSite = [site |-> a.prefetch[p].site,
                                              generation |-> a.prefetch[p].generation]]
  PROVE  SwitchInv(prefetchEnds(x, p))
<1> DEFINE s == [site |-> a.prefetch[p].site, generation |-> a.prefetch[p].generation]
           b == [x EXCEPT !.prefetch[p] = NoPrefetch,
                          !.prefetchInFlight = IF @ = p THEN None ELSE @,
                          !.prefetchSession = IF @ = p THEN None ELSE @]
           o == Min(Waiting(x, p))
<1>0. /\ DOMAIN a = AppFields /\ a.prefetch \in [Prefetch -> Ahead] /\ a.prefetch[p] \in Ahead
      /\ a.prefetchInFlight \in Prefetch \cup {None} /\ a.prefetchSession \in Prefetch \cup {None}
      /\ a.prefetchedSite \in [site : Site \cup {None}, generation : Nat]
  BY DEF SwitchInv, SwitchType
<1>1. s \in [site : Site \cup {None}, generation : Nat] /\ s.generation = a.prefetch[p].generation
  BY <1>0 DEF Ahead
<1> HIDE DEF s
<1>2. /\ DOMAIN x = AppFields
      /\ SameCalls(a, x) /\ SameLanes(a, x) /\ SameNational(a, x) /\ SamePolling(a, x)
      /\ SameLayer(a, x) /\ SameOperator(a, x)
      /\ x.prefetch = a.prefetch /\ x.prefetchInFlight = a.prefetchInFlight
      /\ x.prefetchSession = a.prefetchSession /\ x.prefetchedSite \in {a.prefetchedSite, s}
  BY <1>0, FieldsAre DEF SameCalls, SameLanes, SameNational, SamePolling, SameLayer, SameOperator, s
<1>3. /\ DOMAIN b = AppFields
      /\ SameCalls(a, b) /\ SameLanes(a, b) /\ SameNational(a, b) /\ SamePolling(a, b)
      /\ SameLayer(a, b) /\ SameOperator(a, b)
      /\ b.prefetch = [a.prefetch EXCEPT ![p] = NoPrefetch]
      /\ b.prefetchInFlight \in {a.prefetchInFlight, None}
      /\ b.prefetchSession \in {a.prefetchSession, None}
      /\ b.prefetchedSite = x.prefetchedSite
  BY <1>2, FieldsAre DEF SameCalls, SameLanes, SameNational, SamePolling, SameLayer, SameOperator
<1> HIDE DEF b
<1>4. /\ b.prefetch \in [Prefetch -> Ahead] /\ b.prefetch[p].pc = "idle"
      /\ \A q \in Prefetch : q # p => b.prefetch[q] = a.prefetch[q]
  <2>1. NoPrefetch \in Ahead /\ NoPrefetch.pc = "idle"
    BY DEF NoPrefetch, Ahead
  <2> QED
    BY <1>0, <1>3, <2>1
<1>5. \A q \in Prefetch : b.prefetch[q].pc # "idle" =>
           a.prefetch[q].pc # "idle" /\ b.prefetch[q].generation = a.prefetch[q].generation
  BY <1>4
<1>6. SwitchInv(b)
  BY <1>0, <1>1, <1>2, <1>3, <1>4, <1>5, AheadKeeps
<1>7. CASE Waiting(x, p) = {}
  BY <1>6, <1>7 DEF prefetchEnds, b
<1>8. CASE Waiting(x, p) # {}
  <2>1. o \in Op /\ x.op[o].pc = "preloading"
    <3>1. Waiting(x, p) \in SUBSET Nat
      BY NamesSuffice DEF Waiting
    <3>2. o \in Waiting(x, p)
      BY <1>8, <3>1, FirstOf
    <3> HIDE DEF o
    <3> QED
      BY <3>2 DEF Waiting
  <2>2. prefetchEnds(x, p) = IF x.op[o].abandoned THEN SwitchFails(b, o, TRUE)
                             ELSE startSiteFromNational(b, o, x.op[o].target)
    BY <1>8 DEF prefetchEnds, b
  <2> HIDE DEF o
  <2>3. b.op = x.op
    BY <1>2, <1>3 DEF SameCalls
  <2>4. b.op[o].pc = "preloading" /\ b.op[o].target \in Site
    BY <1>6, <2>1, <2>3 DEF SwitchInv, SwitchType, CallShape
  <2>5. SwitchInv(SwitchFails(b, o, TRUE))
    BY <1>6, <2>1, <2>4, PlainFailureKeeps
  <2>6. b.autoSwitch = o /\ b.painted = National
    <3>1. None \notin Op
      BY NamesSuffice
    <3> QED
      BY <1>6, <2>1, <2>4, <3>1 DEF SwitchInv, CallsInv
  <2>7. b.transition = None
    BY <1>6, <2>4, <2>6, SourcesDiffer DEF SwitchInv, CallsInv
  <2>8. MayBegin(b, o)
    BY <2>4, <2>6, <2>7, SourcesDiffer DEF MayBegin
  <2>9. Beginning(b, b, o)
    BY <1>6, <2>6, SourcesDiffer DEF Beginning, SwitchInv, SwitchType, OperatorType, SameAhead, SameLanes,
       SameNational, SamePolling, SameLayer
  <2>10. SwitchInv(startSiteFromNational(b, o, x.op[o].target))
    BY <1>6, <2>1, <2>3, <2>4, <2>6, <2>8, <2>9, SourcesDiffer, SiteStartKeeps
  <2> QED
    BY <2>2, <2>5, <2>10
<1> QED
  BY <1>7, <1>8

(* The lane of a prefetch is opened.                                        *)
LEMMA PrefetchBeginsKeeps ==
  ASSUME SwitchInv(app), NEW p \in Prefetch, prefetchBegins(p) PROVE SwitchInv(app')
<1> DEFINE a == [app EXCEPT !.lane["site"].active = TRUE]
<1>1. app.prefetch[p].pc = "beginning"
  BY DEF prefetchBegins
<1>2. CASE app' = prefetchEnds(app, p)
  BY <1>1, <1>2, PrefetchEndsKeeps
<1>3. CASE /\ app.lane["site"].generation = app.prefetch[p].generation
           /\ app' = IF a.prefetchSession # p THEN prefetchEnds(a, p)
                     ELSE [a EXCEPT !.prefetch[p].pc = "downloading"]
  <2>1. \A q \in Op : app.op[q].abandoned /\ app.op[q].pc \in {"downloading", "preparing"}
           => app.op[q].generation # app.lane["site"].generation
    <3> SUFFICES ASSUME NEW q \in Op, app.op[q].pc \in {"downloading", "preparing"}
                 PROVE  app.op[q].generation # app.prefetch[p].generation
      BY <1>3
    <3>1. CallShape(app.op[q])
      BY DEF SwitchInv, SwitchType
    <3>2. Named(app.op[q])
      BY <3>1 DEF CallShape, Named
    <3> QED
      BY <1>1, <3>2 DEF SwitchInv, GenerationsInv
  <2>2. /\ SwitchInv(a) /\ DOMAIN a = AppFields /\ SameAhead(app, a)
    BY <2>1, OpeningKeeps
  <2> HIDE DEF a
  <2>3. a.prefetch[p].pc = "beginning"
    BY <1>1, <2>2 DEF SameAhead
  <2>4. SwitchInv(prefetchEnds(a, p))
    BY <2>2, <2>3, PrefetchEndsKeeps
  <2>5. SwitchInv([a EXCEPT !.prefetch[p].pc = "downloading"])
    <3> DEFINE b == [a EXCEPT !.prefetch[p].pc = "downloading"]
               n == [a.prefetch[p] EXCEPT !.pc = "downloading"]
    <3>1. a.prefetch \in [Prefetch -> Ahead] /\ a.prefetch[p] \in Ahead
      BY <2>2 DEF SwitchInv, SwitchType
    <3>2. n \in Ahead /\ n.generation = a.prefetch[p].generation
      BY <3>1 DEF Ahead
    <3>3. /\ DOMAIN b = AppFields
          /\ SameCalls(a, b) /\ SameLanes(a, b) /\ SameNational(a, b) /\ SamePolling(a, b)
          /\ SameLayer(a, b) /\ SameOperator(a, b)
          /\ b.prefetch = [a.prefetch EXCEPT ![p] = n]
          /\ b.prefetchInFlight = a.prefetchInFlight
          /\ b.prefetchSession = a.prefetchSession /\ b.prefetchedSite = a.prefetchedSite
      BY <2>2, FieldsAre DEF SameCalls, SameLanes, SameNational, SamePolling, SameLayer, SameOperator
    <3> HIDE DEF b, n
    <3>4. /\ b.prefetch \in [Prefetch -> Ahead]
          /\ \A q \in Prefetch : b.prefetch[q].pc # "idle" =>
               a.prefetch[q].pc # "idle" /\ b.prefetch[q].generation = a.prefetch[q].generation
      BY <2>3, <3>1, <3>2, <3>3
    <3>5. /\ b.prefetchInFlight \in Prefetch \cup {None}
          /\ b.prefetchSession \in Prefetch \cup {None}
          /\ b.prefetchedSite \in [site : Site \cup {None}, generation : Nat]
      BY <2>2, <3>3 DEF SwitchInv, SwitchType
    <3>6. SwitchInv(b)
      BY <2>2, <3>3, <3>4, <3>5, AheadKeeps
    <3> QED
      BY <3>6 DEF b
  <2> QED
    BY <1>3, <2>4, <2>5
<1> QED
  BY <1>2, <1>3 DEF prefetchBegins, Continues, prefetchFails

(* Every step of a prefetch.                                                *)
LEMMA PrefetchStepKeeps ==
  ASSUME SwitchInv(app), NEW p \in Prefetch, PrefetchStep(p) PROVE SwitchInv(app')
<1>1. CASE prefetchBegins(p)
  BY <1>1, PrefetchBeginsKeeps
<1>2. CASE prefetchDownloads(p)
  <2> DEFINE x == [app EXCEPT !.prefetchedSite = [site |-> app.prefetch[p].site,
                                                  generation |-> app.prefetch[p].generation]]
  <2>1. app.prefetch[p].pc # "idle"
    BY <1>2 DEF prefetchDownloads
  <2>2. SwitchInv(prefetchEnds(x, p)) /\ SwitchInv(prefetchEnds(app, p))
    BY <2>1, PrefetchEndsKeeps
  <2>3. app' = prefetchEnds(x, p) \/ app' = prefetchEnds(app, p)
    BY <1>2 DEF prefetchDownloads, Continues, prefetchFails
  <2> QED
    BY <2>2, <2>3
<1> QED
  BY <1>1, <1>2 DEF PrefetchStep

-----------------------------------------------------------------------------
(* Of any Sites, some Site is nearest.                                      *)
LEMMA NearestExists ==
  ASSUME NEW f \in [Site -> Nat], NEW T \in SUBSET Site, T # {}
  PROVE  \E s \in T : \A t \in T : f[s] <= f[t]
<1> DEFINE D == {f[s] : s \in T}
           Less == {ss \in Nat \X Nat : ss[1] < ss[2]}
<1>1. D \subseteq Nat /\ D # {}
  OBVIOUS
<1>2. IsWellFoundedOn(Less, Nat)
  BY NatLessThanWellFounded DEF OpToRel
<1>3. PICK m \in D : \A y \in D : ~ (<<y, m>> \in Less)
  <2> HIDE DEF D, Less
  <2> QED BY <1>1, <1>2, WFMin
<1>4. ASSUME NEW y \in D PROVE m <= y
  <2>1. y \in Nat /\ m \in Nat
    BY <1>1
  <2>2. y < m => <<y, m>> \in Less
    BY <2>1
  <2> QED
    BY <1>3, <2>1, <2>2
<1> QED
  BY <1>4

(* The nearest covering Site is a Site within the range for entering.       *)
LEMMA NearestCovers ==
  ASSUME NEW c \in Camera, nearestCoveringSite(c) # None
  PROVE  /\ nearestCoveringSite(c) \in Site
         /\ c.distance[nearestCoveringSite(c)] <= AUTO_SITE_ENTER_RANGE
<1>1. c.distance \in [Site -> Nat] /\ Covering(c) \in SUBSET Site
  BY DEF Camera, Covering
<1>2. Covering(c) # {}
  BY DEF nearestCoveringSite
<1>3. \E s \in Covering(c) : \A t \in Covering(c) : c.distance[s] <= c.distance[t]
  BY <1>1, <1>2, NearestExists
<1>4. nearestCoveringSite(c) \in Covering(c)
  BY <1>2, <1>3 DEF nearestCoveringSite
<1> QED
  BY <1>4 DEF Covering

(* A Site the policy enters from National is one it then keeps: the pick,   *)
(* if there is one near the view, or the nearest.                           *)
LEMMA EnteredIsKept ==
  ASSUME NEW c \in Camera, NEW p \in Site \cup {None},
         AutoTarget(c, National, p) # National
  PROVE  LET s == AutoTarget(c, National, p)
         IN  s \in Site /\ AutoTarget(c, s, p) = s
<1> DEFINE s == AutoTarget(c, National, p)
<1>1. s = candidate(c, p) /\ s # None /\ c.zoom >= enterZoom(c)
  BY SourcesDiffer DEF AutoTarget
<1>2. s \in Site /\ c.distance[s] <= AUTO_SITE_KEEP_RANGE
  <2>1. CASE preferenceHolds(c, p)
    BY <1>1, <2>1 DEF candidate, preferenceHolds
  <2>2. CASE ~preferenceHolds(c, p)
    <3>1. s = nearestCoveringSite(c)
      BY <1>1, <2>2 DEF candidate
    <3>2. s \in Site /\ c.distance[s] <= 200
      BY <1>1, <3>1, NearestCovers DEF AUTO_SITE_ENTER_RANGE
    <3>3. c.distance[s] \in Nat
      BY <3>2 DEF Camera
    <3> QED
      BY <3>2, <3>3 DEF AUTO_SITE_KEEP_RANGE
  <2> QED
    BY <2>1, <2>2
<1>3. c.zoom >= exitZoom(c)
  BY <1>1 DEF Camera, enterZoom, exitZoom, AUTO_SITE_ENTER_ZOOM, AUTO_SITE_EXIT_ZOOM,
              AUTO_SITE_OFFSHORE_ENTER_ZOOM, AUTO_SITE_OFFSHORE_EXIT_ZOOM
<1>4. preferenceHolds(c, p) => s = p
  BY <1>1 DEF candidate
<1>5. SiteStays(c, s, p)
  BY <1>2, <1>3, <1>4 DEF SiteStays
<1> QED
  BY <1>2, <1>5 DEF AutoTarget

(* From a Site the policy leads to that Site or to National.                *)
LEMMA LeavesForNational ==
  ASSUME NEW c, NEW p, NEW v \in Site
  PROVE  AutoTarget(c, v, p) \in {v, National}
  BY DEF AutoTarget

(* A pick that is spent changes no later decision for the same camera.      *)
LEMMA SpentChangesNothing ==
  ASSUME NEW c, NEW p, NEW v
  PROVE  AutoTarget(c, v, PreferenceAfter(c, p)) = AutoTarget(c, v, p)
<1>1. CASE preferenceSpent(c, p)
  <2>1. PreferenceAfter(c, p) = None /\ ~preferenceHolds(c, p) /\ ~preferenceHolds(c, None)
    BY <1>1 DEF PreferenceAfter, preferenceSpent, preferenceHolds
  <2>2. candidate(c, None) = candidate(c, p)
    BY <2>1 DEF candidate
  <2>3. \A s : SiteStays(c, s, None) <=> SiteStays(c, s, p)
    BY <2>1 DEF SiteStays
  <2> QED
    BY <2>1, <2>2, <2>3 DEF AutoTarget
<1>2. CASE ~preferenceSpent(c, p)
  BY <1>2 DEF PreferenceAfter
<1> QED
  BY <1>1, <1>2

(* A camera at rest is answered by at most two switches, whatever is shown  *)
(* and whatever is picked: each decision is made for what the last one led  *)
(* to, without the pick once it is spent (evaluateAutoSource, called again  *)
(* by settleAutoSwitch).                                                    *)
THEOREM SettlesInTwo ==
  ASSUME NEW c \in Camera, NEW p \in Site \cup {None}, NEW v \in Source
  PROVE  LET first == AutoTarget(c, v, p)
             next(s) == AutoTarget(c, s, PreferenceAfter(c, p))
         IN  next(next(first)) = next(first)
<1> DEFINE next(s) == AutoTarget(c, s, p)
           entered == next(National)
<1>1. next(entered) = entered
  <2>1. CASE entered = National
    BY <2>1
  <2>2. CASE entered # National
    BY <2>2, EnteredIsKept
  <2> QED
    BY <2>1, <2>2
<1>2. v = National \/ next(v) = v \/ next(v) = National
  BY LeavesForNational DEF Source
<1>3. next(next(next(v))) = next(next(v))
  <2> HIDE DEF next
  <2> QED BY <1>1, <1>2
<1> QED
  BY <1>3, SpentChangesNothing

-----------------------------------------------------------------------------
(* What the policy may ask for.                                             *)
LEMMA CandidateIsSite ==
  ASSUME NEW c \in Camera, NEW p \in Site \cup {None}
  PROVE  candidate(c, p) \in Site \cup {None}
<1>1. preferenceHolds(c, p) => p \in Site
  BY DEF preferenceHolds
<1>2. nearestCoveringSite(c) \in Site \cup {None}
  BY NearestCovers
<1> QED
  BY <1>1, <1>2 DEF candidate

(* From a Site the policy leads to that Site or to National, from anything  *)
(* else to National or to the candidate.                                    *)
LEMMA TargetIsSource ==
  ASSUME NEW c \in Camera, NEW p \in Site \cup {None}, NEW v
  PROVE  /\ AutoTarget(c, v, p) \in Source
         /\ v \in Site => AutoTarget(c, v, p) \in {v, National}
         /\ AutoPreload(c, v, p) \in Site \cup {None}
         /\ PreferenceAfter(c, p) \in Site \cup {None}
<1>1. candidate(c, p) \in Site \cup {None}
  BY CandidateIsSite
<1>2. AutoTarget(c, v, p) \in Source
  BY <1>1 DEF AutoTarget, Source
<1>3. v \in Site => AutoTarget(c, v, p) \in {v, National}
  BY LeavesForNational
<1>4. AutoPreload(c, v, p) \in Site \cup {None}
  BY <1>1 DEF AutoPreload
<1>5. PreferenceAfter(c, p) \in Site \cup {None}
  BY DEF PreferenceAfter
<1> QED
  BY <1>2, <1>3, <1>4, <1>5

-----------------------------------------------------------------------------
(* The decision for the camera.                                             *)

(* A call that is free.                                                     *)
LEMMA FreeCall ==
  ASSUME NEW a, FreeOp(a) # {}
  PROVE  Min(FreeOp(a)) \in Op /\ a.op[Min(FreeOp(a))].pc = "idle"
<1> DEFINE o == Min(FreeOp(a))
<1>1. FreeOp(a) \in SUBSET Nat
  BY NamesSuffice DEF FreeOp
<1>2. o \in FreeOp(a)
  BY <1>1, FirstOf
<1> HIDE DEF o
<1>3. o \in Op /\ a.op[o].pc = "idle"
  BY <1>2 DEF FreeOp
<1> QED
  BY <1>3 DEF o

(* The steps a decision leads to, each of which keeps the invariant.        *)
LEMMA EvaluatedKeeps ==
  ASSUME NEW a, SwitchInv(a), a.painted # None, a.transition # None => a.autoSwitch # None
  PROVE  SwitchInv(Evaluated(a))
<1> DEFINE target == AutoTarget(a.camera, a.painted, a.preferredSite)
           preload == AutoPreload(a.camera, a.painted, a.preferredSite)
           b == [a EXCEPT !.preferredSite = PreferenceAfter(a.camera, @),
                          !.autoErrorSite = IF target = @ THEN @ ELSE None]
           o == Min(FreeOp(a))
           x == beginAutoSwitch(b, o)
<1>1. /\ target \in Source /\ preload \in Site \cup {None}
      /\ a.painted \in Site => target \in {a.painted, National}
      /\ PreferenceAfter(a.camera, a.preferredSite) \in Site \cup {None}
  BY TargetIsSource DEF SwitchInv, SwitchType
<1>2. /\ DOMAIN a = AppFields /\ a.painted \in Source /\ None \notin Site /\ None # National
      /\ National \notin Site
  BY SourcesDiffer DEF SwitchInv, SwitchType
<1>3. /\ Evaluated(a) =
           (IF a.autoSwitch # None
            THEN IF target = a.op[a.autoSwitch].target THEN b
                 ELSE [abandonAutoSwitch(b) EXCEPT !.pendingAutoEvaluation = TRUE]
            ELSE IF target = a.painted
            THEN IF preload # None THEN prefetchSite(b, preload)
                 ELSE IF target = National THEN cancelPrefetch(b) ELSE b
            ELSE IF target = National THEN startNational(x, o)
            ELSE IF target \in a.autoSiteFailures THEN b
            ELSE startSiteSession(x, o, target))
  BY DEF Evaluated, decideAutoSource
<1> HIDE DEF target, preload
<1>4. /\ DOMAIN b = AppFields /\ SameCalls(a, b) /\ SameAhead(a, b) /\ SameLanes(a, b)
      /\ SameNational(a, b) /\ SamePolling(a, b) /\ SameLayer(a, b)
      /\ b.picking = a.picking /\ b.camera = a.camera /\ b.flight = a.flight
      /\ b.preferredSite = PreferenceAfter(a.camera, a.preferredSite)
  BY <1>2, FieldsAre
     DEF SameCalls, SameAhead, SameLanes, SameNational, SamePolling, SameLayer
<1> HIDE DEF b
<1>5. OperatorType(b)
  BY <1>1, <1>4 DEF OperatorType, SwitchInv, SwitchType
<1>6. SwitchInv(b)
  BY <1>4, <1>5, Unseen
<1>7. ASSUME a.autoSwitch # None
      PROVE  SwitchInv([abandonAutoSwitch(b) EXCEPT !.pendingAutoEvaluation = TRUE])
  <2> DEFINE d == abandonAutoSwitch(b)
             e == [d EXCEPT !.pendingAutoEvaluation = TRUE]
  <2>1. SwitchInv(d)
    BY <1>6, AbandonKeeps
  <2> HIDE DEF d
  <2>2. DOMAIN d = AppFields /\ OperatorType(d)
    BY <2>1 DEF SwitchInv, SwitchType, OperatorType
  <2>3. /\ DOMAIN e = AppFields /\ SameCalls(d, e) /\ SameAhead(d, e) /\ SameLanes(d, e)
        /\ SameNational(d, e) /\ SamePolling(d, e) /\ SameLayer(d, e) /\ SameOperator(d, e)
    BY <2>2, FieldsAre
       DEF SameCalls, SameAhead, SameLanes, SameNational, SamePolling, SameLayer, SameOperator
  <2> HIDE DEF e
  <2>4. OperatorType(e) /\ e.picking = d.picking
    BY <2>2, <2>3 DEF OperatorType, SameOperator
  <2>5. SwitchInv(e)
    BY <2>1, <2>3, <2>4, Unseen
  <2> QED
    BY <2>5 DEF e, d
<1>8. ASSUME a.autoSwitch = None
      PROVE  /\ o \in Op /\ b.op[o].pc = "idle" /\ MayBegin(b, o)
             /\ b.painted \in Source /\ b.painted # None
             /\ Beginning(b, x, o)
  <2>1. FreeOp(a) # {}
    BY <1>8 DEF SwitchInv, SlotsInv
  <2>2. o \in Op /\ a.op[o].pc = "idle"
    BY <2>1, FreeCall
  <2> HIDE DEF o
  <2>3. MayBegin(b, o) /\ b.painted = a.painted /\ b.op[o].pc = "idle"
    BY <1>4, <1>8, <2>2 DEF MayBegin, SameCalls
  <2>4. Beginning(b, x, o)
    BY <1>2, <1>4, <1>5, <2>3, FieldsAre
       DEF Beginning, beginAutoSwitch, SameAhead, SameLanes, SameNational, SamePolling,
           SameLayer, OperatorType
  <2> QED
    BY <1>2, <2>2, <2>3, <2>4
<1> HIDE DEF x, o
<1>9. CASE a.autoSwitch # None
  BY <1>3, <1>6, <1>7, <1>9
<1>10. CASE a.autoSwitch = None /\ target = a.painted
  <2>1. preload # None => SwitchInv(prefetchSite(b, preload))
    BY <1>1, <1>6, PrefetchStartKeeps
  <2>2. SwitchInv(cancelPrefetch(b))
    BY <1>6, CancelPrefetchKeeps
  <2> QED
    BY <1>3, <1>6, <1>10, <2>1, <2>2
<1>11. CASE a.autoSwitch = None /\ target # a.painted /\ target = National
  <2>1. b.painted \in Site
    BY <1>2, <1>4, <1>11 DEF SameCalls, Source
  <2>2. SwitchInv(startNational(x, o))
    BY <1>6, <1>8, <1>11, <2>1, NationalStartKeeps
  <2> QED
    BY <1>3, <1>11, <2>2
<1>12. CASE a.autoSwitch = None /\ target # a.painted /\ target # National
  <2>1. target \in Site /\ a.painted = National /\ b.painted = National
    BY <1>1, <1>2, <1>4, <1>12 DEF SameCalls, Source
  <2>2. SwitchInv(startSiteSession(x, o, target))
    BY <1>6, <1>8, <1>12, <2>1, SessionStartKeeps
  <2> QED
    BY <1>3, <1>6, <1>12, <2>2
<1> QED
  BY <1>9, <1>10, <1>11, <1>12

(* What the operator's side of the state becomes is nothing the switches    *)
(* see.                                                                     *)
SameSwitches(a, b) ==
  /\ DOMAIN b = AppFields
  /\ SameCalls(a, b) /\ SameAhead(a, b) /\ SameLanes(a, b) /\ SameNational(a, b)
  /\ SamePolling(a, b) /\ SameLayer(a, b)

(* A change of the operator's side keeps the invariant.                     *)
LEMMA OperatorKeeps ==
  ASSUME NEW a, NEW b, SwitchInv(a), SameSwitches(a, b), OperatorType(b),
         \/ b.picking = a.picking \/ ~b.picking.chosen \/ b.picking.source \notin Site
         \/ Cardinality(FreeOp(a)) > 1
  PROVE  SwitchInv(b)
  BY Unseen DEF SameSwitches

(* The camera is evaluated, now or later (evaluateAutoSource).              *)
LEMMA EvaluateKeeps ==
  ASSUME SwitchInv(app), evaluateAutoSource PROVE SwitchInv(app')
<1> DEFINE a == [app EXCEPT !.evaluate = FALSE, !.heeded = TRUE]
           later == [a EXCEPT !.pendingAutoEvaluation = TRUE]
           seen(view) == [a EXCEPT !.camera = view]
<1>1. DOMAIN app = AppFields /\ OperatorType(app)
  BY DEF SwitchInv, SwitchType, OperatorType
<1>2. SameSwitches(app, a) /\ SameOperator(app, a)
  BY <1>1, FieldsAre
     DEF SameSwitches, SameCalls, SameAhead, SameLanes, SameNational, SamePolling, SameLayer,
         SameOperator
<1>3. PICK view \in IF a.flight = None THEN {a.camera} ELSE View :
           app' = IF a.evaluateOnNextMove /\ a.flight # None
                  THEN IF a.preferredSite # None /\ a.autoSwitch = None
                       THEN prefetchSite(a, a.preferredSite) ELSE a
                  ELSE IF \/ a.transition # None /\ a.autoSwitch = None
                          \/ a.autoSwitch # None /\ a.op[a.autoSwitch].abandoned THEN later
                  ELSE IF a.painted = None THEN a
                  ELSE Evaluated(seen(view))
  BY DEF evaluateAutoSource
<1> HIDE DEF a
<1>4. OperatorType(a) /\ a.picking = app.picking /\ DOMAIN a = AppFields
  BY <1>1, <1>2 DEF OperatorType, SameOperator, SameSwitches
<1>5. SwitchInv(a)
  BY <1>2, <1>4, OperatorKeeps
<1>6. SwitchInv(later)
  <2>1. SameSwitches(a, later) /\ SameOperator(a, later)
    BY <1>4, FieldsAre
       DEF SameSwitches, SameCalls, SameAhead, SameLanes, SameNational, SamePolling, SameLayer,
           SameOperator
  <2> HIDE DEF later
  <2>2. OperatorType(later) /\ later.picking = a.picking
    BY <1>4, <2>1 DEF OperatorType, SameOperator
  <2> QED
    BY <1>5, <2>1, <2>2, OperatorKeeps
<1>7. ASSUME a.painted # None, ~(a.transition # None /\ a.autoSwitch = None)
      PROVE  SwitchInv(Evaluated(seen(view)))
  <2>1. view \in Camera
    BY <1>4, ViewsAreCameras DEF OperatorType
  <2> DEFINE b == seen(view)
  <2>2. SameSwitches(a, b) /\ OperatorType(b) /\ b.picking = a.picking
    BY <1>4, <2>1, FieldsAre
       DEF SameSwitches, SameCalls, SameAhead, SameLanes, SameNational, SamePolling, SameLayer,
           OperatorType
  <2> HIDE DEF b
  <2>3. SwitchInv(b)
    BY <1>5, <2>2, OperatorKeeps
  <2>4. b.painted # None /\ (b.transition # None => b.autoSwitch # None)
    BY <1>7, <2>2 DEF SameSwitches, SameCalls
  <2>5. SwitchInv(Evaluated(b))
    BY <2>3, <2>4, EvaluatedKeeps
  <2> QED
    BY <2>5 DEF b
<1>8. a.preferredSite # None => SwitchInv(prefetchSite(a, a.preferredSite))
  <2>1. a.preferredSite # None => a.preferredSite \in Site
    BY <1>4 DEF OperatorType
  <2> QED
    BY <1>5, <2>1, PrefetchStartKeeps
<1> HIDE DEF later, seen
<1> QED
  BY <1>3, <1>5, <1>6, <1>7, <1>8

-----------------------------------------------------------------------------
(* A pick is remembered, and gives up a switch that leads elsewhere.        *)
LEMMA PreferenceKeeps ==
  ASSUME NEW a, SwitchInv(a), NEW site \in Site \cup {None}
  PROVE  /\ SwitchInv(setPreferredSite(a, site))
         /\ FreeOp(setPreferredSite(a, site)) = FreeOp(a)
         /\ setPreferredSite(a, site).picking = a.picking
<1> DEFINE b == [a EXCEPT !.preferredSite = site, !.autoSiteFailures = @ \ {site}]
<1>1. DOMAIN a = AppFields /\ OperatorType(a) /\ a.op \in [Op -> Call]
  BY DEF SwitchInv, SwitchType, OperatorType
<1>2. SameSwitches(a, b) /\ OperatorType(b) /\ b.picking = a.picking
  BY <1>1, FieldsAre
     DEF SameSwitches, SameCalls, SameAhead, SameLanes, SameNational, SamePolling, SameLayer,
         OperatorType
<1>3. setPreferredSite(a, site) = b \/ setPreferredSite(a, site) = abandonAutoSwitch(b)
  BY DEF setPreferredSite
<1> HIDE DEF b
<1>4. SwitchInv(b)
  BY <1>2, OperatorKeeps
<1>5. SwitchInv(abandonAutoSwitch(b))
  BY <1>4, AbandonKeeps
<1>6. FreeOp(b) = FreeOp(a)
  BY <1>2 DEF FreeOp, SameSwitches, SameCalls
<1>7. /\ abandonAutoSwitch(b).picking = b.picking
      /\ \A o \in Op : abandonAutoSwitch(b).op[o].pc = b.op[o].pc
  <2> DEFINE q == b.autoSwitch
             d == [b EXCEPT !.op[q].abandoned = TRUE,
                            !.transition = IF @ # None /\ b.op[@].target = b.op[q].target
                                           THEN None ELSE @]
  <2>1. DOMAIN b = AppFields /\ b.op \in [Op -> Call] /\ (\A o \in Op : DOMAIN b.op[o] = DOMAIN NoOp)
    BY <1>1, <1>2 DEF SameSwitches, SameCalls, Call, NoOp
  <2>2. d.picking = b.picking /\ DOMAIN d = AppFields
    BY <2>1, FieldsAre
  <2>3. d.op = [b.op EXCEPT ![q].abandoned = TRUE]
    BY <2>1, FieldsAre
  <2>4. \A o \in Op : d.op[o].pc = b.op[o].pc
    BY <2>1, <2>3 DEF NoOp
  <2>5. abandonAutoSwitch(b) \in {b, d, cancel(d, "site"), cancel(d, "national")}
    BY DEF abandonAutoSwitch
  <2> HIDE DEF d
  <2>6. \A l : cancel(d, l).picking = d.picking /\ cancel(d, l).op = d.op
    BY <2>2, FieldsAre DEF cancel
  <2> QED
    BY <2>2, <2>4, <2>5, <2>6
<1>8. FreeOp(abandonAutoSwitch(b)) = FreeOp(b)
  BY <1>7 DEF FreeOp
<1> QED
  BY <1>2, <1>3, <1>4, <1>5, <1>6, <1>7, <1>8

(* Of more than one free call, another one is left.                         *)
LEMMA AnotherFree ==
  ASSUME NEW a, Cardinality(FreeOp(a)) > 1, NEW o
  PROVE  FreeOp(a) # {} /\ \E q \in FreeOp(a) : q # o
<1> SUFFICES ASSUME FreeOp(a) \in SUBSET {o} PROVE FALSE
  <2>1. CASE FreeOp(a) = {}
    BY <2>1
  <2>2. CASE FreeOp(a) # {}
    BY <2>2
  <2> QED
    BY <2>1, <2>2
<1>1. IsFiniteSet({o}) /\ Cardinality({o}) = 1
  BY FS_Singleton, Zenon
<1>2. IsFiniteSet(FreeOp(a)) /\ Cardinality(FreeOp(a)) <= 1
  BY <1>1, FS_Subset
<1>3. Cardinality(FreeOp(a)) \in Nat
  BY <1>2, FS_CardinalityType
<1> QED
  BY <1>2, <1>3

(* A pick goes on once its flight has begun.                                *)
LEMMA PickedKeeps ==
  ASSUME NEW a, SwitchInv(a), NEW pick \in [source : Source, chosen : BOOLEAN],
         pick.chosen /\ pick.source \in Site /\ a.painted = None => Cardinality(FreeOp(a)) > 1
  PROVE  SwitchInv(picked(a, pick))
<1> DEFINE source == pick.source
           view == IF source = National THEN NationalView ELSE SiteView[source]
           chosen == pick.chosen /\ source \in Site
           flown == fliesTo([a EXCEPT !.picking = NoPick], view)
           o == Min(FreeOp(a))
           settled(x) == [x EXCEPT !.evaluateOnNextMove = FALSE, !.evaluate = TRUE]
<1>1. /\ picked(a, pick) = (IF chosen /\ a.painted = None THEN startSiteFromNational(flown, o, source)
                            ELSE evaluateIfSettled(IF chosen THEN prefetchSite(flown, source) ELSE flown))
      /\ \A x : evaluateIfSettled(x) \in {x, settled(x)}
  BY DEF picked, evaluateIfSettled
<1>2. DOMAIN a = AppFields /\ OperatorType(a) /\ None \notin Site
  BY SourcesDiffer DEF SwitchInv, SwitchType, OperatorType
<1>3. view \in View /\ source \in Source
  BY ViewsAreCameras DEF Source
<1> HIDE DEF view
<1>4. SameSwitches(a, flown) /\ OperatorType(flown) /\ flown.picking = NoPick
  BY <1>2, <1>3, FieldsAre
     DEF SameSwitches, SameCalls, SameAhead, SameLanes, SameNational, SamePolling, SameLayer,
         OperatorType, fliesTo
<1> HIDE DEF flown
<1>5. ~flown.picking.chosen
  BY <1>4 DEF NoPick
<1>6. SwitchInv(flown)
  BY <1>4, <1>5, OperatorKeeps
<1>7. ASSUME NEW x, SwitchInv(x)
      PROVE  SwitchInv(evaluateIfSettled(x))
  <2> DEFINE y == settled(x)
  <2>1. DOMAIN x = AppFields /\ OperatorType(x)
    BY <1>7 DEF SwitchInv, SwitchType, OperatorType
  <2>2. SameSwitches(x, y) /\ OperatorType(y) /\ y.picking = x.picking
    BY <2>1, FieldsAre
       DEF SameSwitches, SameCalls, SameAhead, SameLanes, SameNational, SamePolling, SameLayer,
           OperatorType
  <2> HIDE DEF y
  <2>3. SwitchInv(y)
    BY <1>7, <2>2, OperatorKeeps
  <2> QED
    BY <1>1, <1>7, <2>3 DEF y
<1> HIDE DEF settled
<1>8. chosen => SwitchInv(prefetchSite(flown, source))
  BY <1>6, PrefetchStartKeeps
<1>9. ASSUME chosen, a.painted = None
      PROVE  SwitchInv(startSiteFromNational(flown, o, source))
  <2>1. FreeOp(a) # {} /\ \E q \in FreeOp(a) : q # o
    BY <1>9, AnotherFree
  <2>2. o \in Op /\ a.op[o].pc = "idle"
    BY <2>1, FreeCall
  <2> HIDE DEF o
  <2>3. MayBegin(a, o) /\ a.painted \notin Site /\ a.autoSwitch = None
    BY <1>2, <1>9, <2>1, <2>2 DEF MayBegin, SwitchInv, CallsInv
  <2>4. Beginning(a, flown, o)
    BY <1>4, <1>5, <1>9, <2>3 DEF Beginning, SameSwitches, SameCalls
  <2> QED
    BY <1>9, <2>2, <2>3, <2>4, SiteStartKeeps
<1> QED
  BY <1>1, <1>6, <1>7, <1>8, <1>9

(* A pick begins its flight, or first ends the one under way.               *)
LEMMA PicksKeep ==
  ASSUME NEW a, SwitchInv(a), NEW pick \in [source : Source, chosen : BOOLEAN],
         pick.chosen /\ pick.source \in Site => Cardinality(FreeOp(a)) > 1,
         Picks(a, pick)
  PROVE  SwitchInv(app')
<1> DEFINE b == [a EXCEPT !.evaluateOnNextMove = TRUE]
           ended(view) == [b EXCEPT !.picking = pick, !.camera = view, !.flight = None,
                                    !.evaluateOnNextMove = FALSE, !.evaluate = TRUE]
<1>1. \/ \E view \in View : app' = ended(view)
      \/ app' = picked(b, pick)
  BY DEF Picks, Requested
<1>2. DOMAIN a = AppFields /\ OperatorType(a)
  BY DEF SwitchInv, SwitchType, OperatorType
<1>3. SameSwitches(a, b) /\ OperatorType(b) /\ b.picking = a.picking
  BY <1>2, FieldsAre
     DEF SameSwitches, SameCalls, SameAhead, SameLanes, SameNational, SamePolling, SameLayer,
         OperatorType
<1> HIDE DEF b
<1>4. SwitchInv(b) /\ FreeOp(b) = FreeOp(a)
  BY <1>3, OperatorKeeps DEF FreeOp, SameSwitches, SameCalls
<1>5. SwitchInv(picked(b, pick))
  BY <1>4, PickedKeeps
<1>6. ASSUME NEW view \in View
      PROVE  SwitchInv(ended(view))
  <2> DEFINE e == ended(view)
  <2>1. view \in Camera
    BY ViewsAreCameras
  <2>2. SameSwitches(b, e) /\ OperatorType(e) /\ e.picking = pick
    BY <1>3, <2>1, FieldsAre
       DEF SameSwitches, SameCalls, SameAhead, SameLanes, SameNational, SamePolling, SameLayer,
           OperatorType
  <2> HIDE DEF e
  <2>3. SwitchInv(e)
    BY <1>4, <2>2, OperatorKeeps
  <2> QED
    BY <2>3 DEF e
<1> QED
  BY <1>1, <1>5, <1>6

(* The operator moves the map.                                              *)
LEMMA UserMovesKeeps ==
  ASSUME SwitchInv(app), NEW view \in View, userMoves(view) PROVE SwitchInv(app')
<1> DEFINE b == [app EXCEPT !.camera = view, !.flight = None,
                            !.evaluateOnNextMove = FALSE, !.evaluate = TRUE]
<1>1. DOMAIN app = AppFields /\ OperatorType(app) /\ view \in Camera
  BY ViewsAreCameras DEF SwitchInv, SwitchType, OperatorType
<1>2. SameSwitches(app, b) /\ OperatorType(b) /\ b.picking = app.picking
  BY <1>1, FieldsAre
     DEF SameSwitches, SameCalls, SameAhead, SameLanes, SameNational, SamePolling, SameLayer,
         OperatorType
<1>3. app' = b
  BY DEF userMoves, Requested
<1> HIDE DEF b
<1> QED
  BY <1>2, <1>3, OperatorKeeps

(* A flight lands.                                                          *)
LEMMA FlightEndsKeeps ==
  ASSUME SwitchInv(app), flightEnds PROVE SwitchInv(app')
<1> DEFINE b == [app EXCEPT !.camera = app.flight, !.flight = None, !.evaluateOnNextMove = FALSE,
                            !.evaluate = app.evaluateOnNextMove, !.heeded = app.evaluateOnNextMove]
<1>1. DOMAIN app = AppFields /\ OperatorType(app) /\ app.flight \in Camera
  BY ViewsAreCameras DEF SwitchInv, SwitchType, OperatorType, flightEnds
<1>2. SameSwitches(app, b) /\ OperatorType(b) /\ b.picking = app.picking
  BY <1>1, FieldsAre
     DEF SameSwitches, SameCalls, SameAhead, SameLanes, SameNational, SamePolling, SameLayer,
         OperatorType
<1>3. app' = b
  BY DEF flightEnds
<1> HIDE DEF b
<1> QED
  BY <1>2, <1>3, OperatorKeeps

(* The operator picks a Site.                                               *)
LEMMA SelectSiteKeeps ==
  ASSUME SwitchInv(app), NEW site \in Site, selectSite(site) PROVE SwitchInv(app')
<1> DEFINE b == [app EXCEPT !.siteRequestError = FALSE, !.nationalRequestError = FALSE]
           pick == [source |-> site, chosen |-> TRUE]
<1>1. DOMAIN app = AppFields /\ OperatorType(app)
  BY DEF SwitchInv, SwitchType, OperatorType
<1>2. SameSwitches(app, b) /\ OperatorType(b) /\ b.picking = app.picking
  BY <1>1, FieldsAre
     DEF SameSwitches, SameCalls, SameAhead, SameLanes, SameNational, SamePolling, SameLayer,
         OperatorType
<1>3. Cardinality(FreeOp(app)) > 1 /\ Picks(setPreferredSite(b, site), pick)
  BY DEF selectSite
<1>4. pick \in [source : Source, chosen : BOOLEAN]
  BY DEF Source
<1> HIDE DEF b, pick
<1>5. SwitchInv(b) /\ FreeOp(b) = FreeOp(app)
  BY <1>2, OperatorKeeps DEF FreeOp, SameSwitches, SameCalls
<1> DEFINE c == setPreferredSite(b, site)
<1>6. SwitchInv(c) /\ FreeOp(c) = FreeOp(b)
  BY <1>5, PreferenceKeeps
<1> HIDE DEF c
<1> QED
  BY <1>3, <1>4, <1>5, <1>6, PicksKeep DEF c

(* The operator picks National.                                             *)
LEMMA SelectNationalKeeps ==
  ASSUME SwitchInv(app), selectNational PROVE SwitchInv(app')
<1> DEFINE b == [app EXCEPT !.siteRequestError = FALSE, !.nationalRequestError = FALSE]
           pick == [source |-> National, chosen |-> TRUE]
<1>1. DOMAIN app = AppFields /\ OperatorType(app)
  BY DEF SwitchInv, SwitchType, OperatorType
<1>2. SameSwitches(app, b) /\ OperatorType(b) /\ b.picking = app.picking
  BY <1>1, FieldsAre
     DEF SameSwitches, SameCalls, SameAhead, SameLanes, SameNational, SamePolling, SameLayer,
         OperatorType
<1>3. \/ Picks(setPreferredSite(app, None), pick)
      \/ Picks(setPreferredSite(b, None), pick)
  BY DEF selectNational
<1>4. pick \in [source : Source, chosen : BOOLEAN] /\ pick.source \notin Site
  BY SourcesDiffer DEF Source
<1> HIDE DEF b, pick
<1>5. SwitchInv(b)
  BY <1>2, OperatorKeeps
<1>6. ASSUME NEW x, SwitchInv(x), Picks(setPreferredSite(x, None), pick)
      PROVE  SwitchInv(app')
  <2> DEFINE c == setPreferredSite(x, None)
  <2>1. SwitchInv(c)
    BY <1>6, PreferenceKeeps
  <2>2. Picks(c, pick)
    BY <1>6
  <2> HIDE DEF c
  <2> QED
    BY <1>4, <2>1, <2>2, PicksKeep
<1> QED
  BY <1>3, <1>5, <1>6

(* Everything the operator does.                                            *)
LEMMA OperatorStepKeeps ==
  ASSUME SwitchInv(app), OperatorStep PROVE SwitchInv(app')
<1>1. CASE recenterRadar
  <2> DEFINE pick == [source |-> app.painted, chosen |-> FALSE]
  <2>1. Picks(app, pick) /\ pick \in [source : Source, chosen : BOOLEAN] /\ ~pick.chosen
    BY <1>1 DEF recenterRadar, SwitchInv, SwitchType
  <2> HIDE DEF pick
  <2> QED
    BY <2>1, PicksKeep
<1> QED
  BY <1>1, UserMovesKeeps, SelectSiteKeeps, SelectNationalKeeps DEF OperatorStep

(* A pick that waited for a flight to end goes on.                          *)
LEMMA PickContinuesKeeps ==
  ASSUME SwitchInv(app), pickContinues PROVE SwitchInv(app')
<1> DEFINE pick == app.picking
<1>1. pick \in [source : Source, chosen : BOOLEAN] /\ app' = picked(app, pick)
  BY DEF pickContinues, SwitchInv, SwitchType
<1>2. pick.chosen /\ pick.source \in Site /\ app.painted = None => Cardinality(FreeOp(app)) > 1
  BY DEF SwitchInv, SlotsInv
<1> HIDE DEF pick
<1> QED
  BY <1>1, <1>2, PickedKeeps

-----------------------------------------------------------------------------
(* A poll or a step back begins on a generation of its own (acquireLive).   *)
LEMMA PollingKeeps ==
  ASSUME SwitchInv(app), acquireLive PROVE SwitchInv(app')
<1> DEFINE g == nextGeneration(app)
           b == IF app.nationalResident \/ app.painted = National THEN app
                ELSE cancel(app, "national")
           n == [generation |-> g, active |-> TRUE]
           c == [b EXCEPT !.transferGeneration = g, !.lane["site"] = n]
<1>1. app' = c /\ app.polling # None
  BY DEF acquireLive
<1>2. /\ DOMAIN app = AppFields /\ None \notin Site
      /\ app.lane \in [{"site", "national"} -> [generation : Nat, active : BOOLEAN]]
      /\ app.op \in [Op -> Call]
  BY SourcesDiffer DEF SwitchInv, SwitchType
<1>3. g \in Nat /\ \A o \in Op : g # app.op[o].generation
  BY FreshIsNew DEF SwitchInv
<1> HIDE DEF g
<1>4. /\ DOMAIN b = AppFields
      /\ SameCalls(app, b) /\ SameAhead(app, b) /\ SameNational(app, b) /\ SamePolling(app, b)
      /\ SameLayer(app, b) /\ SameOperator(app, b)
      /\ b.nationalGeneration = app.nationalGeneration /\ b.nationalChain = app.nationalChain
      /\ \/ b.lane = app.lane
         \/ /\ ~app.nationalResident /\ app.painted # National
            /\ b.lane = [app.lane EXCEPT !["national"].active = FALSE]
  BY <1>2, FieldsAre
     DEF cancel, SameCalls, SameAhead, SameNational, SamePolling, SameLayer, SameOperator
<1> HIDE DEF b
<1>5. /\ DOMAIN c = AppFields
      /\ SameCalls(b, c) /\ SameAhead(b, c) /\ SameNational(b, c) /\ SamePolling(b, c)
      /\ SameLayer(b, c) /\ SameOperator(b, c)
      /\ c.nationalGeneration = b.nationalGeneration /\ c.nationalChain = b.nationalChain
      /\ c.transferGeneration = g /\ c.lane = [b.lane EXCEPT !["site"] = n]
  BY <1>4, FieldsAre
     DEF SameCalls, SameAhead, SameNational, SamePolling, SameLayer, SameOperator
<1> HIDE DEF c
<1>6. n \in [generation : Nat, active : BOOLEAN] /\ n.generation = g
  BY <1>3
<1> HIDE DEF n
<1>7. /\ SameCalls(app, c) /\ SameAhead(app, c) /\ SameNational(app, c) /\ SamePolling(app, c)
      /\ SameLayer(app, c) /\ SameOperator(app, c)
      /\ c.nationalGeneration = app.nationalGeneration /\ c.nationalChain = app.nationalChain
  BY <1>4, <1>5 DEF SameCalls, SameAhead, SameNational, SamePolling, SameLayer, SameOperator
<1>8. b.lane \in [{"site", "national"} -> [generation : Nat, active : BOOLEAN]]
  BY <1>2, <1>4
<1>9. /\ c.lane \in [{"site", "national"} -> [generation : Nat, active : BOOLEAN]]
      /\ c.lane["site"].generation = g /\ c.lane["national"] = b.lane["national"]
  BY <1>5, <1>6, <1>8
<1>10. /\ b.lane["national"] = app.lane["national"] \/ ~b.lane["national"].active
       /\ \/ b.lane["national"] = app.lane["national"]
          \/ ~app.nationalResident /\ app.painted # National
  BY <1>2, <1>4
<1>11. \A o \in Op : app.transition = o => ~app.op[o].acquire
  BY <1>1 DEF SwitchInv, NationalInv, AcquiringInv
<1>12. app.painted \in Site => app.polling = app.painted
  BY <1>1 DEF SwitchInv, PollingInv
<1>13. \A o \in Op : app.op[o].abandoned =>
         /\ app.op[o].pc = "downloading" => ~LaneIs(c, "site", app.op[o].generation)
         /\ app.op[o].pc = "preparing" => ~LaneIs(c, "national", app.op[o].generation)
  <2>1. \A o \in Op : ~LaneIs(c, "site", app.op[o].generation)
    BY <1>3, <1>9 DEF LaneIs
  <2>2. \A o \in Op : app.op[o].abandoned /\ app.op[o].pc = "preparing" =>
          ~LaneIs(app, "national", app.op[o].generation)
    BY DEF SwitchInv, GenerationsInv
  <2>3. \A h : LaneIs(c, "national", h) => LaneIs(app, "national", h)
    BY <1>9, <1>10 DEF LaneIs
  <2> QED
    BY <2>1, <2>2, <2>3
<1>14. \/ \A h : LaneIs(app, "national", h) => LaneIs(c, "national", h)
       \/ app.painted # National /\ ~app.nationalResident
  BY <1>9, <1>10 DEF LaneIs
<1>15. /\ \/ \A h : LaneIs(app, "national", h) => LaneIs(c, "national", h)
          \/ /\ app.painted # National /\ ~app.nationalResident
             /\ \A o \in Op : app.transition = o => ~app.op[o].acquire
       /\ \A o \in Op : /\ c.transferGeneration # app.op[o].generation
                        /\ app.transition = o => ~app.op[o].acquire
       /\ c.transferGeneration \in Nat /\ DOMAIN c = AppFields
       /\ c.lane \in [{"site", "national"} -> [generation : Nat, active : BOOLEAN]]
  BY <1>3, <1>5, <1>9, <1>11, <1>14
<1>16. SwitchInv(c)
  BY <1>7, <1>12, <1>13, <1>15, LanesKeep
<1> QED
  BY <1>1, <1>16

(* A scan fetched ahead expires.                                            *)
LEMMA ExpiryKeeps ==
  ASSUME SwitchInv(app), prefetchExpires PROVE SwitchInv(app')
<1> DEFINE b == [app EXCEPT !.prefetchedSite = NoSweep]
<1>1. DOMAIN app = AppFields
  BY DEF SwitchInv, SwitchType
<1>2. /\ DOMAIN b = AppFields
      /\ SameCalls(app, b) /\ SameLanes(app, b) /\ SameNational(app, b) /\ SamePolling(app, b)
      /\ SameLayer(app, b) /\ SameOperator(app, b)
      /\ b.prefetch = app.prefetch /\ b.prefetchInFlight = app.prefetchInFlight
      /\ b.prefetchSession = app.prefetchSession /\ b.prefetchedSite = NoSweep
  BY <1>1, FieldsAre
     DEF SameCalls, SameLanes, SameNational, SamePolling, SameLayer, SameOperator
<1>3. app' = b
  BY DEF prefetchExpires
<1> HIDE DEF b
<1>4. /\ b.prefetchedSite \in [site : Site \cup {None}, generation : Nat]
      /\ b.prefetchedSite.site = None
  BY <1>2 DEF NoSweep
<1>5. /\ b.prefetch \in [Prefetch -> Ahead] /\ b.prefetchInFlight \in Prefetch \cup {None}
      /\ b.prefetchSession \in Prefetch \cup {None}
      /\ \A p \in Prefetch : b.prefetch[p].pc # "idle" =>
           app.prefetch[p].pc # "idle" /\ b.prefetch[p].generation = app.prefetch[p].generation
  BY <1>2 DEF SwitchInv, SwitchType
<1>6. SwitchInv(b)
  BY <1>2, <1>4, <1>5, AheadKeeps
<1> QED
  BY <1>3, <1>6

(* Failures of the renderer and the errors that are told are not seen.      *)
LEMMA NoticesKeep ==
  ASSUME SwitchInv(app), NEW usable, NEW failed, NEW timer, NEW again
  PROVE  SwitchInv([app EXCEPT !.nationalUsable = usable, !.autoSiteFailures = failed,
                               !.autoSiteRetryTimer = timer, !.evaluate = again])
<1> DEFINE b == [app EXCEPT !.nationalUsable = usable, !.autoSiteFailures = failed,
                            !.autoSiteRetryTimer = timer, !.evaluate = again]
<1>1. DOMAIN app = AppFields /\ OperatorType(app)
  BY DEF SwitchInv, SwitchType, OperatorType
<1>2. SameSwitches(app, b) /\ OperatorType(b) /\ b.picking = app.picking
  BY <1>1, FieldsAre
     DEF SameSwitches, SameCalls, SameAhead, SameLanes, SameNational, SamePolling, SameLayer,
         OperatorType
<1> HIDE DEF b
<1>3. SwitchInv(b)
  BY <1>2, OperatorKeeps
<1> QED
  BY <1>3 DEF b

(* Polls, renderers, expiries and retries.                                  *)
LEMMA BackgroundStepKeeps ==
  ASSUME SwitchInv(app), BackgroundStep \/ siteRetryTimer PROVE SwitchInv(app')
<1> DEFINE b(usable, failed, timer, again) ==
      [app EXCEPT !.nationalUsable = usable, !.autoSiteFailures = failed,
                  !.autoSiteRetryTimer = timer, !.evaluate = again]
<1>1. DOMAIN app = AppFields
  BY DEF SwitchInv, SwitchType
<1>2. \A usable, failed, timer, again : SwitchInv(b(usable, failed, timer, again))
  BY NoticesKeep
<1>3. CASE nationalRendererFails
  <2>1. app' = b(FALSE, app.autoSiteFailures, app.autoSiteRetryTimer, app.evaluate)
    BY <1>1, <1>3, FieldsAre DEF nationalRendererFails
  <2> HIDE DEF b
  <2> QED
    BY <1>2, <2>1
<1>4. CASE nationalRendererRecovers
  <2>1. app' = b(TRUE, app.autoSiteFailures, app.autoSiteRetryTimer, app.evaluate)
    BY <1>1, <1>4, FieldsAre DEF nationalRendererRecovers
  <2> HIDE DEF b
  <2> QED
    BY <1>2, <2>1
<1>5. ASSUME NEW site \in Site, siteCooldownEnds(site) PROVE SwitchInv(app')
  <2>1. app' = b(app.nationalUsable, app.autoSiteFailures \ {site}, app.autoSiteRetryTimer,
                 app.evaluate)
    BY <1>1, <1>5, FieldsAre DEF siteCooldownEnds
  <2> HIDE DEF b
  <2> QED
    BY <1>2, <2>1
<1>6. CASE siteRetryTimer
  <2>1. app' = b(app.nationalUsable, {}, FALSE, TRUE)
    BY <1>1, <1>6, FieldsAre DEF siteRetryTimer
  <2> HIDE DEF b
  <2> QED
    BY <1>2, <2>1
<1> HIDE DEF b
<1> QED
  BY <1>3, <1>4, <1>5, <1>6, PollingKeeps, ExpiryKeeps DEF BackgroundStep

-----------------------------------------------------------------------------
(* A launch, and the invariant of the specification.                        *)
LEMMA BlankHolds ==
  ASSUME NEW view \in View PROVE SwitchInv(Blank(view))
<1> DEFINE a == Blank(view)
<1>0. /\ None \notin Site /\ None # National /\ National \notin Site /\ None \notin Op
      /\ None \notin Prefetch /\ view \in Camera
  BY NamesSuffice, SourcesDiffer, ViewsAreCameras
<1>1. /\ a.painted = None /\ a.transition = None /\ a.autoSwitch = None
      /\ a.op = [o \in Op |-> NoOp] /\ a.prefetch = [p \in Prefetch |-> NoPrefetch]
      /\ a.prefetchInFlight = None /\ a.prefetchSession = None /\ a.prefetchedSite = NoSweep
      /\ a.lane = [l \in {"site", "national"} |-> [generation |-> IF l = "site" THEN 1 ELSE 0,
                                                   active |-> l = "site"]]
      /\ a.transferGeneration = 1 /\ a.nationalGeneration = 0 /\ a.nationalChain = 0
      /\ a.layer = NoLayer /\ a.mapped = NoLayer /\ a.polling = None /\ a.pollingBy = None
      /\ ~a.nationalLayer /\ ~a.nationalVisible /\ ~a.nationalPresents /\ ~a.nationalResident
      /\ ~a.nationalShown /\ a.picking = NoPick /\ a.preferredSite = None /\ a.camera = view
      /\ a.flight = None
      /\ a.nationalLayer \in BOOLEAN /\ a.nationalVisible \in BOOLEAN
      /\ a.nationalPresents \in BOOLEAN /\ a.nationalResident \in BOOLEAN
      /\ a.nationalShown \in BOOLEAN
  BY DEF Blank
<1>2. DOMAIN a = AppFields
  BY DEF Blank, AppFields
<1> HIDE DEF a
<1>3. NoOp \in Call /\ CallShape(NoOp) /\ ~Named(NoOp) /\ ~Layered(NoOp) /\ ~Revealing(NoOp)
  BY <1>0 DEF NoOp, Call, CallShape, Named, Layered, Revealing
<1>4. /\ NoPrefetch \in Ahead
      /\ NoSweep \in [site : Site \cup {None}, generation : Nat]
      /\ NoLayer \in [by : Op \cup {None}, site : Site \cup {None}]
  BY DEF NoPrefetch, Ahead, NoSweep, NoLayer
<1>5. /\ \A o \in Op : a.op[o] = NoOp
      /\ \A p \in Prefetch : a.prefetch[p] = NoPrefetch
  BY <1>1
<1>6. SwitchType(a)
  <2>1. a.op \in [Op -> Call] /\ a.prefetch \in [Prefetch -> Ahead]
    BY <1>1, <1>3, <1>4
  <2>2. a.lane \in [{"site", "national"} -> [generation : Nat, active : BOOLEAN]]
    BY <1>1
  <2> QED
    BY <1>0, <1>1, <1>2, <1>3, <1>4, <1>5, <2>1, <2>2 DEF SwitchType
<1>7. \A o \in Op : /\ a.op[o].pc = "idle" /\ ~a.op[o].abandoned /\ ~a.op[o].acquire
                    /\ ~Revealing(a.op[o])
  <2>1. \A o \in Op : ~Revealing(a.op[o])
    BY <1>3, <1>5
  <2>2. \A o \in Op : a.op[o].pc = "idle" /\ ~a.op[o].abandoned /\ ~a.op[o].acquire
    BY <1>5 DEF NoOp
  <2> QED
    BY <2>1, <2>2
<1>8. CallsInv(a)
  BY <1>1, <1>7 DEF CallsInv
<1>9. SlotsInv(a)
  <2>1. FreeOp(a) = Op
    BY <1>7 DEF FreeOp
  <2>2. Cardinality(Op) > 1
    BY NamesSuffice
  <2> QED
    BY <2>1, <2>2, AnotherFree DEF SlotsInv
<1>10. GenerationsInv(a)
  BY <1>0, <1>1, <1>3, <1>5 DEF GenerationsInv, NoOp, NoPrefetch, NoSweep
<1>11. NationalInv(a)
  BY <1>0, <1>1, <1>3, <1>5 DEF NationalInv, OwnedInv, AcquiringInv, DrawnInv, Drawn, NoOp
<1>12. PollingInv(a)
  BY <1>0, <1>1 DEF PollingInv
<1>13. LayerInv(a)
  BY <1>0, <1>1, <1>3, <1>5 DEF LayerInv
<1> QED
  BY <1>6, <1>8, <1>9, <1>10, <1>11, <1>12, <1>13 DEF SwitchInv, a

(* A launch is in order.                                                    *)
LEMMA LaunchHolds ==
  ASSUME NEW view \in View PROVE SwitchInv(Launched(view))
<1> DEFINE a == Blank(view)
           o == Min(Op)
           source == AutoTarget(view, National, None)
<1>1. SwitchInv(a)
  BY BlankHolds
<1>2. /\ a.painted = None /\ a.autoSwitch = None /\ a.op = [q \in Op |-> NoOp]
      /\ a.mapped = NoLayer /\ ~a.picking.chosen
  BY DEF Blank, NoPick
<1> HIDE DEF a
<1>3. /\ DOMAIN a = AppFields /\ OperatorType(a) /\ None \notin Site /\ None # National
  BY <1>1, SourcesDiffer DEF SwitchInv, SwitchType, OperatorType
<1>4. Op # {} /\ FreeOp(a) = Op
  <2>1. FreeOp(a) = Op
    BY <1>2 DEF FreeOp, NoOp
  <2>2. FreeOp(a) # {}
    BY <2>1, NamesSuffice, AnotherFree
  <2> QED
    BY <2>1, <2>2
<1>5. o \in Op
  BY <1>4, FirstOf, NamesSuffice
<1> HIDE DEF o
<1>6. MayBegin(a, o) /\ a.op[o].pc = "idle" /\ \A q \in Op : a.op[q] = NoOp
  <2>1. \E q \in FreeOp(a) : q # o
    BY <1>4, NamesSuffice, AnotherFree
  <2>2. \A q \in Op : a.op[q] = NoOp
    BY <1>2
  <2> QED
    BY <1>2, <1>5, <2>1, <2>2 DEF MayBegin, NoOp
<1>7. Beginning(a, a, o)
  BY <1>2, <1>3
     DEF Beginning, SameAhead, SameLanes, SameNational, SamePolling, SameLayer
<1>8. source \in Source
  BY TargetIsSource, ViewsAreCameras
<1>9. Launched(view) = IF source = National THEN acquireNational(a, o)
                       ELSE startSiteFromNational(a, o, source)
  BY DEF Launched, a, o
<1> HIDE DEF source
<1>10. SwitchInv(acquireNational(a, o))
  BY <1>1, <1>2, <1>3, <1>5, <1>6, <1>7, AcquireStartKeeps
<1>11. source # National => SwitchInv(startSiteFromNational(a, o, source))
  BY <1>1, <1>2, <1>3, <1>5, <1>6, <1>7, <1>8, SiteStartKeeps DEF Source
<1> QED
  BY <1>9, <1>10, <1>11

SwitchesFit == SwitchInv(app)

(* So is every initial state, ...                                           *)
LEMMA InitHolds == SwitchInit => SwitchesFit
  BY LaunchHolds DEF SwitchInit, SwitchesFit

(* ... and every step keeps that.                                           *)
LEMMA NextKeeps == SwitchesFit /\ [SwitchNext]_vars => SwitchesFit'
<1> SUFFICES ASSUME SwitchInv(app), [SwitchNext]_vars PROVE SwitchInv(app')
  BY DEF SwitchesFit
<1>1. CASE UNCHANGED vars
  BY <1>1 DEF vars
<1>2. CASE SwitchNext
  BY <1>2, EvaluateKeeps, PickContinuesKeeps, SwitchStepKeeps, PrefetchStepKeeps,
     FlightEndsKeeps, OperatorStepKeeps, BackgroundStepKeeps DEF SwitchNext
<1> QED
  BY <1>1, <1>2

-----------------------------------------------------------------------------
(* In every state that is reached, the calls, lanes, layers and generations *)
(* fit together: this is what each of the properties below rests on.        *)
THEOREM SwitchesFitTogether == SwitchSpec => []SwitchesFit
  BY InitHolds, NextKeeps, PTL DEF SwitchSpec

(* What the application says is painted is what the operator sees, and once *)
(* every switch has ended he sees nothing else (acceptPaint, the catches of *)
(* startSiteFromNational and revealResidentNational).                       *)
THEOREM ScreenIsTrue == SwitchSpec => []ScreenShowsPainted
<1>1. ASSUME SwitchesFit PROVE ScreenShowsPainted
  <2>1. app.painted \in Site => app.layer.site = app.painted /\ app.mapped = app.layer
    BY <1>1 DEF SwitchesFit, SwitchInv, LayerInv
  <2>2. app.painted = National => NationalDrawn
    BY <1>1 DEF SwitchesFit, SwitchInv, NationalInv, OwnedInv, Drawn, NationalDrawn
  <2>3. ASSUME Unwound
        PROVE  \A o \in Op : app.op[o] = NoOp
    <3>1. \A o \in Op : CallShape(app.op[o])
      BY <1>1 DEF SwitchesFit, SwitchInv, SwitchType
    <3>2. \A o \in Op : CallShape(app.op[o]) /\ app.op[o].pc = "idle" => app.op[o] = NoOp
      BY DEF CallShape
    <3> QED
      BY <2>3, <3>1, <3>2 DEF Unwound
  <2>4. ASSUME Unwound
        PROVE  IF app.painted \in Site THEN app.opacity = "full" ELSE app.mapped = NoLayer
    <3>1. \A o \in Op : ~Layered(app.op[o]) /\ app.op[o].pc # "fading"
      BY <2>4 DEF Unwound, Layered
    <3> QED
      BY <1>1, <3>1 DEF SwitchesFit, SwitchInv, LayerInv
  <2>5. ASSUME Unwound, NationalDrawn
        PROVE  app.painted = National
    <3>1. \A o \in Op : ~Revealing(app.op[o]) /\ ~app.op[o].staged
      BY <2>3, <2>5, SourcesDiffer DEF Revealing, NoOp
    <3> QED
      BY <1>1, <2>5, <3>1 DEF SwitchesFit, SwitchInv, NationalInv, DrawnInv, Drawn, NationalDrawn
  <2> QED
    BY <2>1, <2>2, <2>4, <2>5 DEF ScreenShowsPainted
<1> QED
  BY <1>1, SwitchesFitTogether, PTL

(* A painted Site goes on polling unless a National acquisition replaces    *)
(* it, and National owns its lane and its chain while it is painted or      *)
(* resident (resumeSitePollingAfterNationalFailure,                         *)
(* nationalHistoryOwnershipCheck).                                          *)
THEOREM UpdatesGoOn == SwitchSpec => []PaintedKeepsUpdating
<1>1. ASSUME SwitchesFit PROVE PaintedKeepsUpdating
  <2>1. ASSUME app.painted \in Site, ~Acquiring
        PROVE  app.polling = app.painted
    <3>1. app.autoSwitch # None => app.autoSwitch \in Op
      BY <1>1 DEF SwitchesFit, SwitchInv, SwitchType
    <3> QED
      BY <1>1, <2>1, <3>1 DEF SwitchesFit, SwitchInv, PollingInv, Acquiring
  <2>2. app.painted = National \/ app.nationalResident => nationalHistoryOwned
    BY <1>1 DEF SwitchesFit, SwitchInv, NationalInv, OwnedInv, nationalHistoryOwned
  <2> QED
    BY <2>1, <2>2 DEF PaintedKeepsUpdating
<1> QED
  BY <1>1, SwitchesFitTogether, PTL

(* Giving up a switch stops its download, for good: no later switch,        *)
(* prefetch or poll opens the lane it downloads on again                    *)
(* (abandonAutoSwitch).                                                     *)
THEOREM DownloadsStop == SwitchSpec => []AbandonedDownloadsStop
<1>1. ASSUME SwitchesFit PROVE AbandonedDownloadsStop
  <2>1. \A o \in Op : app.op[o].abandoned =>
          /\ app.op[o].pc = "downloading" => ~LaneIs(app, "site", app.op[o].generation)
          /\ app.op[o].pc = "preparing" => ~LaneIs(app, "national", app.op[o].generation)
    BY <1>1 DEF SwitchesFit, SwitchInv, GenerationsInv
  <2> QED
    BY <2>1 DEF AbandonedDownloadsStop
<1> QED
  BY <1>1, SwitchesFitTogether, PTL

(* Moving between Sites always passes through National (decideAutoSource,   *)
(* pickedNextSource).                                                       *)
THEOREM SitesMeetOverNational == SwitchSpec => []SitesStartOverNational
<1>1. ASSUME SwitchesFit PROVE SitesStartOverNational
  <2>1. app.painted # None /\ app.transition # None => app.transition = app.autoSwitch
    BY <1>1 DEF SwitchesFit, SwitchInv, CallsInv
  <2>2. app.transition # None =>
          (app.op[app.transition].target \in Site => app.painted \notin Site)
    BY <1>1 DEF SwitchesFit, SwitchInv, CallsInv
  <2> QED
    BY <2>2 DEF SitesStartOverNational
<1> QED
  BY <1>1, SwitchesFitTogether, PTL
=============================================================================
