---------------------------- MODULE SourceSwitch ----------------------------
(***************************************************************************)
(* Switching between National and Site radar: RadarSessionCoordinator,     *)
(* SiteLevel2Session, NationalMrmsSession and the switching code of        *)
(* App.tsx. The web view runs one callback at a time, so the application   *)
(* is one record, each function of the code is an operator on it, and an   *)
(* action is a callback: from the continuation of an await to the next.    *)
(*                                                                         *)
(* A generation is only compared with others for equality, and one that is *)
(* begun is newer than all before; here it is a name that nothing holds    *)
(* any more. A National history, its chain of acquisitions and a Site's    *)
(* poll are each one mark: whether they run, and for whom.                 *)
(***************************************************************************)
EXTENDS AutoSourcePolicy, FiniteSets, FiniteSetsExt

CONSTANTS
  Op,             \* calls of the two sessions' start, 1..n, used again
  Prefetch,       \* Site scans fetched ahead at once, used again
  Generation,     \* names of generations, a range of numbers from 1
  View,           \* the cameras the operator moves between
  NationalView,   \* where picking National flies to
  SiteView,       \* where picking a Site flies to
  MaxRequests,    \* moves and picks of the operator
  MaxFailures     \* failing calls, paints and renderers

ASSUME ViewsAreCameras ==
  /\ View \subseteq Camera
  /\ NationalView \in View
  /\ SiteView \in [Site -> View]

(* Names are enough: a call is left for what a switch may lead to, and a    *)
(* generation for each new one.                                             *)
ASSUME NamesSuffice ==
  /\ Op \subseteq Nat /\ IsFiniteSet(Op) /\ Cardinality(Op) > 1 /\ None \notin Op
  /\ Prefetch \subseteq Nat /\ IsFiniteSet(Prefetch) /\ None \notin Prefetch
  /\ Generation \subseteq Nat
  /\ Cardinality(Generation) > Cardinality(Op) + Cardinality(Prefetch) + 6

VARIABLES
  app,        \* the state of RadarSessionCoordinator and of App.tsx
  requests,   \* how often the operator has moved or picked
  failures    \* how often something has failed
vars == <<app, requests, failures>>

NoOp == [pc |-> "idle", target |-> None, generation |-> 0, acquire |-> FALSE,
         abandoned |-> FALSE, waits |-> None, staged |-> FALSE]
NoPrefetch == [pc |-> "idle", site |-> None, generation |-> 0]
NoSweep == [site |-> None, generation |-> 0]
NoLayer == [by |-> None, site |-> None]
NoPick == [source |-> None, chosen |-> FALSE]

-----------------------------------------------------------------------------
(* Generations, lanes and slots.                                            *)

InUse(a) ==
  {a.transferGeneration, a.nationalGeneration, a.nationalChain, a.prefetchedSite.generation}
    \cup {a.lane[l].generation : l \in {"site", "national"}}
    \cup {a.op[o].generation : o \in Op}
    \cup {a.prefetch[p].generation : p \in Prefetch}

nextGeneration(a) == Min(Generation \ InUse(a))

FreeOp(a) == {o \in Op : a.op[o].pc = "idle"}
(* One scan more than these is not fetched ahead.                           *)
FreePrefetch(a) == {p \in Prefetch : a.prefetch[p].pc = "idle"}

LaneIs(a, lane, generation) ==
  a.lane[lane] = [generation |-> generation, active |-> TRUE]

begin(a, lane, generation) ==
  [a EXCEPT !.lane[lane] = [generation |-> generation, active |-> FALSE]]

cancel(a, lane) == [a EXCEPT !.lane[lane].active = FALSE]

Moves(a, o, pc) == [a EXCEPT !.op[o].pc = pc]

-----------------------------------------------------------------------------
(* Fetching a Site's scan ahead of the switch to it.                        *)

prefetchIsUsable(a, site) ==
  /\ a.prefetchedSite.site = site
  /\ LaneIs(a, "site", a.prefetchedSite.generation)

IsPrefetching(a, site) ==
  a.prefetchInFlight # None /\ a.prefetch[a.prefetchInFlight].site = site

(* A switch uses the scan up, and nothing fetched ahead before it counts   *)
(* any more.                                                                *)
takePrefetchedSite(a) == [a EXCEPT !.prefetchedSite = NoSweep, !.prefetchSession = None]

MayPrefetch(a, site) ==
  /\ FreePrefetch(a) # {}
  /\ a.transition = None
  /\ a.painted = National
  /\ a.layer = NoLayer
  /\ ~IsPrefetching(a, site)
  /\ ~prefetchIsUsable(a, site)

prefetchSite(a, site) ==
  LET p == Min(FreePrefetch(a))
      g == nextGeneration([a EXCEPT !.prefetchedSite = NoSweep])
  IN  IF MayPrefetch(a, site)
      THEN begin([a EXCEPT !.prefetch[p] = [pc |-> "beginning", site |-> site, generation |-> g],
                           !.prefetchInFlight = p,
                           !.prefetchSession = p,
                           !.prefetchedSite = NoSweep,
                           !.transferGeneration = g], "site", g)
      ELSE a

(* Only a download under way is stopped; its scan, once there, stays.       *)
cancelPrefetch(a) ==
  LET b == [a EXCEPT !.prefetchInFlight = None, !.prefetchSession = None]
  IN  IF a.prefetchInFlight = None THEN a
      ELSE IF a.layer = NoLayer /\ a.transition = None THEN cancel(b, "site") ELSE b

-----------------------------------------------------------------------------
(* What the Site and the National side do to each other.                    *)

nationalCanReveal(a) ==
  /\ a.nationalResident /\ a.nationalLayer /\ a.nationalShown /\ a.nationalUsable
  /\ LaneIs(a, "national", a.nationalGeneration)

hideNationalBehindSite(a) ==
  [a EXCEPT !.nationalVisible = FALSE, !.nationalResident = TRUE]

CanHide(a) ==
  /\ a.nationalLayer /\ a.nationalShown /\ a.nationalUsable
  /\ LaneIs(a, "national", a.nationalGeneration)

teardownNational(a) ==
  cancel([a EXCEPT !.nationalLayer = FALSE, !.nationalVisible = FALSE,
                   !.nationalPresents = FALSE, !.nationalUsable = FALSE,
                   !.nationalChain = 0, !.nationalResident = FALSE,
                   !.nationalShown = FALSE,
                   !.op = [o \in Op |-> [@[o] EXCEPT !.staged = FALSE]]], "national")

removeSiteAfterNationalPaint(a) ==
  cancel([a EXCEPT !.polling = None, !.pollingBy = None, !.opacity = "none",
                   !.layer = NoLayer,
                   !.mapped = IF a.layer = NoLayer THEN @ ELSE NoLayer], "site")

resumeSitePollingAfterNationalFailure(a, generation) ==
  IF /\ a.transferGeneration = generation
     /\ a.transition = None
     /\ a.painted \in Site
     /\ a.layer.site = a.painted
  THEN [a EXCEPT !.polling = a.painted, !.pollingBy = None]
  ELSE a

restoreNationalAfterSiteFailure(a) ==
  IF a.transition = None /\ a.painted = National THEN cancel(a, "site") ELSE a

-----------------------------------------------------------------------------
(* Automatic switches: abandoning one, and what follows its end.            *)

beginAutoSwitch(a, o) == [a EXCEPT !.autoSwitch = o]

(* Mutant: the download of a National acquisition is not stopped.           *)
abandonAutoSwitch_downloads_on(a) ==
  LET o == a.autoSwitch
      b == [a EXCEPT !.op[o].abandoned = TRUE,
                     !.transition = IF @ # None /\ a.op[@].target = a.op[o].target
                                    THEN None ELSE @]
  IN  IF o = None THEN a
      ELSE IF a.op[o].abandoned THEN a
      ELSE IF a.op[o].target \in Site THEN cancel(b, "site") ELSE b

abandonAutoSwitch(a) ==
  LET o == a.autoSwitch
      b == [a EXCEPT !.op[o].abandoned = TRUE,
                     !.transition = IF @ # None /\ a.op[@].target = a.op[o].target
                                    THEN None ELSE @]
  IN  IF o = None THEN a
      ELSE IF a.op[o].abandoned THEN a
      ELSE IF a.op[o].target \in Site THEN cancel(b, "site")
      ELSE IF a.op[o].acquire THEN cancel(b, "national") ELSE b

(* Mutant: nothing is decided after a switch that was given up.             *)
settleAutoSwitch_forgets(a, o, succeeded) ==
  LET auto == a.autoSwitch = o
      b == [a EXCEPT !.op[o] = NoOp, !.autoSwitch = IF auto THEN None ELSE @]
      again == IF auto THEN succeeded
               ELSE /\ a.pendingAutoEvaluation
                    /\ a.transition = None /\ a.autoSwitch = None
  IN  IF again THEN [b EXCEPT !.pendingAutoEvaluation = FALSE, !.evaluate = TRUE] ELSE b

(* evaluateAutoSource runs at once where the code calls it; the flush of a  *)
(* pending evaluation at the end of a manual switch is the other case.      *)
settleAutoSwitch(a, o, succeeded) ==
  LET auto == a.autoSwitch = o
      b == [a EXCEPT !.op[o] = NoOp, !.autoSwitch = IF auto THEN None ELSE @]
      again == IF auto THEN succeeded \/ a.op[o].abandoned \/ a.pendingAutoEvaluation
               ELSE /\ a.pendingAutoEvaluation
                    /\ a.transition = None /\ a.autoSwitch = None
  IN  IF again THEN [b EXCEPT !.pendingAutoEvaluation = FALSE, !.evaluate = TRUE] ELSE b

(* The error a switch ends with, told to the operator.                      *)
reportFailure(a, o) ==
  LET target == a.op[o].target
  IN  IF target = National THEN [a EXCEPT !.nationalRequestError = TRUE]
      ELSE IF a.autoSwitch # o THEN [a EXCEPT !.siteRequestError = TRUE]
      ELSE [a EXCEPT !.autoSiteFailures = @ \cup {target},
                     !.autoErrorSite = target, !.autoSiteRetryTimer = TRUE]

(* Mutant: polling is resumed only by the switch that is still current.     *)
SwitchFails_resumes_current(a, o, superseded) ==
  LET wasCurrent == a.transition = o
      failed == [a EXCEPT !.transition = IF wasCurrent THEN None ELSE @]
      restored == IF ~wasCurrent THEN failed
                  ELSE IF a.op[o].target = National
                  THEN resumeSitePollingAfterNationalFailure(failed, a.op[o].generation)
                  ELSE restoreNationalAfterSiteFailure(failed)
      told == IF wasCurrent /\ ~superseded /\ ~a.op[o].abandoned
              THEN reportFailure(restored, o) ELSE restored
  IN  settleAutoSwitch(told, o, FALSE)

(* The catch of either session's start and the handler of its caller: a     *)
(* switch that is not the coordinator's any more counts as superseded.      *)
SwitchFails(a, o, superseded) ==
  LET wasCurrent == a.transition = o
      failed == [a EXCEPT !.transition = IF wasCurrent THEN None ELSE @]
      restored == IF ~wasCurrent THEN failed
                  ELSE IF a.op[o].target = National
                  THEN resumeSitePollingAfterNationalFailure(failed, a.op[o].generation)
                  ELSE restoreNationalAfterSiteFailure(failed)
      told == IF wasCurrent /\ ~superseded /\ ~a.op[o].abandoned
              THEN reportFailure(restored, o) ELSE restored
      resumed == IF a.autoSwitch = o /\ a.op[o].abandoned /\ a.op[o].acquire
                 THEN resumeSitePollingAfterNationalFailure(told, told.nationalGeneration)
                 ELSE told
  IN  settleAutoSwitch(resumed, o, FALSE)

(* A step of a switch that fails, or that finds itself superseded.          *)
Fails(a, o) ==
  /\ failures < MaxFailures
  /\ failures' = failures + 1
  /\ app' = SwitchFails(a, o, FALSE)

Superseded(a, o) == app' = SwitchFails(a, o, TRUE) /\ UNCHANGED failures

Continues(a) == app' = a /\ UNCHANGED failures

-----------------------------------------------------------------------------
(* Starting a switch: the part of start that runs before its first await.   *)

(* The catch of startSiteFromNational, once there is a layer.               *)
siteRemoved(a, o) ==
  [a EXCEPT !.mapped = NoLayer,
            !.layer = IF @.by = o THEN NoLayer ELSE @,
            !.opacity = IF a.layer.by = o THEN "none" ELSE @]

(* Every Site layer has the same id, and the map takes one of them. The     *)
(* catch of the second removes the first, and the switch that was to paint  *)
(* it, superseded since, ends with it at once.                              *)
installSite(a, o) ==
  LET layer == [by |-> o, site |-> a.op[o].target]
      other == a.mapped.by
  IN  IF a.mapped = NoLayer
      THEN Moves([a EXCEPT !.layer = layer, !.mapped = layer, !.opacity = "none"], o, "painting")
      ELSE SwitchFails(SwitchFails(siteRemoved(a, other), other, TRUE), o, FALSE)

startSiteFromNational(a, o, site) ==
  LET resident == prefetchIsUsable(a, site)
      g == IF resident THEN a.prefetchedSite.generation ELSE nextGeneration(a)
      b == [takePrefetchedSite(a) EXCEPT !.op[o] = [NoOp EXCEPT !.target = site, !.generation = g],
                                         !.transition = o, !.transferGeneration = g,
                                         !.polling = None, !.pollingBy = o]
  IN  IF resident THEN installSite(b, o) ELSE Moves(begin(b, "site", g), o, "beginning")

startSiteSession(a, o, site) ==
  IF IsPrefetching(a, site)
  THEN [a EXCEPT !.op[o] = [NoOp EXCEPT !.pc = "preloading", !.target = site,
                                        !.waits = a.prefetchInFlight]]
  ELSE startSiteFromNational(a, o, site)

revealNational(a, o) ==
  [a EXCEPT !.op[o] = [NoOp EXCEPT !.pc = "revealing", !.target = National,
                                   !.generation = a.nationalGeneration],
            !.transition = o, !.nationalVisible = TRUE]

acquireNational(a, o) ==
  LET g == nextGeneration(a)
  IN  begin(cancel([a EXCEPT !.op[o] = [NoOp EXCEPT !.pc = "beginning", !.target = National,
                                                    !.generation = g, !.acquire = TRUE],
                             !.transition = o, !.transferGeneration = g,
                             !.nationalGeneration = g, !.nationalResident = FALSE,
                             !.polling = None, !.pollingBy = None,
                             !.nationalChain = 0], "site"), "national", g)

startNational(a, o) ==
  IF nationalCanReveal(a) THEN revealNational(a, o) ELSE acquireNational(a, o)

-----------------------------------------------------------------------------
(* The steps of a switch to a Site.                                         *)

BackendAnswers(o, lane) == LaneIs(app, lane, app.op[o].generation)

siteBegins(o) ==
  /\ app.op[o].pc = "beginning" /\ app.op[o].target \in Site
  /\ \/ /\ app.lane["site"].generation = app.op[o].generation
        /\ LET a == [app EXCEPT !.lane["site"].active = TRUE]
           IN  IF a.transition = o THEN Continues(Moves(a, o, "downloading"))
               ELSE Superseded(a, o)
     \/ /\ app.lane["site"].generation # app.op[o].generation
        /\ Continues(SwitchFails(app, o, FALSE))
     \/ Fails(app, o)

(* The scan may have been under way when its lane was cancelled.            *)
siteDownloads(o) ==
  /\ app.op[o].pc = "downloading"
  /\ \/ IF app.transferGeneration = app.op[o].generation
        THEN Continues(installSite(app, o)) ELSE Superseded(app, o)
     \/ ~BackendAnswers(o, "site") /\ Continues(SwitchFails(app, o, FALSE))
     \/ Fails(app, o)

sitePaints(o) ==
  /\ app.op[o].pc = "painting"
  /\ \/ IF app.transferGeneration = app.op[o].generation
        THEN Continues(Moves([app EXCEPT !.opacity = "partial"], o, "fading"))
        ELSE Superseded(siteRemoved(app, o), o)
     \/ Fails(siteRemoved(app, o), o)

acceptSiteBootstrap(a, o) ==
  LET painted == [a EXCEPT !.painted = a.op[o].target, !.transition = None,
                           !.opacity = "full", !.autoErrorSite =
                               IF a.autoSwitch = o THEN None ELSE @,
                           !.siteRequestError = IF a.autoSwitch = o THEN @ ELSE FALSE]
      b == IF CanHide(a) THEN hideNationalBehindSite(painted) ELSE teardownNational(painted)
  IN  [b EXCEPT !.polling = IF a.pollingBy = o THEN a.op[o].target ELSE @]

siteFades(o) ==
  /\ app.op[o].pc = "fading" /\ app.op[o].target \in Site
  /\ IF app.transition = o /\ app.transferGeneration = app.op[o].generation
     THEN Continues(settleAutoSwitch(acceptSiteBootstrap(app, o), o, TRUE))
     ELSE Superseded(siteRemoved(app, o), o)

-----------------------------------------------------------------------------
(* The steps of a switch to National: revealing the resident history, or    *)
(* acquiring a current frame.                                               *)

(* Mutant: the faded Site is left as it is.                                 *)
siteRestored_not(a) == a

(* A Site that was fading out is opaque again.                              *)
siteRestored(a) == [a EXCEPT !.opacity = IF a.layer = NoLayer THEN @ ELSE "full"]

(* The catch of revealResidentNational.                                     *)
concealed(a) ==
  siteRestored([a EXCEPT !.nationalVisible = @ /\ ~a.nationalResident])

nationalReveals(o) ==
  /\ app.op[o].pc = "revealing"
  /\ IF app.transition = o
     THEN \/ Continues(Moves([app EXCEPT !.opacity = "partial"], o, "fading"))
          \/ Fails(concealed(app), o)
     ELSE Superseded(concealed(app), o)

nationalBegins(o) ==
  /\ app.op[o].pc = "beginning" /\ app.op[o].target = National
  /\ \/ /\ app.lane["national"].generation = app.op[o].generation
        /\ LET a == [app EXCEPT !.lane["national"].active = TRUE]
           IN  IF a.transition = o THEN Continues(Moves(a, o, "preparing"))
               ELSE Superseded(a, o)
     \/ /\ app.lane["national"].generation # app.op[o].generation
        /\ Continues(SwitchFails(app, o, FALSE))
     \/ Fails(app, o)

(* The answer may have been under way when the lane was cancelled.          *)
nationalPrepares(o) ==
  /\ app.op[o].pc = "preparing"
  /\ \/ IF app.transferGeneration = app.op[o].generation
        THEN Continues(Moves([app EXCEPT !.nationalLayer = TRUE, !.nationalVisible = TRUE,
                                         !.nationalPresents = TRUE,
                                         !.nationalUsable = @ \/ ~app.nationalLayer,
                                         !.op[o].staged = TRUE], o, "staging"))
        ELSE Superseded(app, o)
     \/ ~BackendAnswers(o, "national") /\ Continues(SwitchFails(app, o, FALSE))
     \/ Fails(app, o)

(* The catch of the acquisition, once there is a layer: it hides the one it *)
(* staged on, which may have been removed since.                            *)
unpresented(a, o) ==
  IF a.op[o].staged THEN [a EXCEPT !.nationalPresents = (a.painted = National)] ELSE a

OwnsNational(a, o) == a.transition = o /\ a.transferGeneration = a.op[o].generation

nationalAccepted(a, o) ==
  [removeSiteAfterNationalPaint([a EXCEPT !.painted = National, !.transition = None,
                                          !.nationalShown = TRUE, !.nationalResident = FALSE])
     EXCEPT !.nationalChain = IF a.op[o].acquire THEN a.op[o].generation ELSE @,
            !.nationalRequestError = IF a.autoSwitch = o THEN @ ELSE FALSE]

(* With no Site on the screen there is nothing to fade out.                 *)
nationalStages(o) ==
  /\ app.op[o].pc = "staging"
  /\ \/ /\ OwnsNational(app, o) /\ BackendAnswers(o, "national")
        /\ LET a == [app EXCEPT !.nationalUsable = TRUE]
           IN  Continues(IF a.layer = NoLayer THEN settleAutoSwitch(nationalAccepted(a, o), o, TRUE)
                         ELSE Moves([a EXCEPT !.opacity = "partial"], o, "fading"))
     \/ ~OwnsNational(app, o) /\ Superseded(unpresented(app, o), o)
     \/ ~BackendAnswers(o, "national") /\ Continues(SwitchFails(unpresented(app, o), o, FALSE))
     \/ Fails(unpresented(app, o), o)

nationalFadesOut(o) ==
  /\ app.op[o].pc = "fading" /\ app.op[o].target = National
  /\ LET current == IF app.op[o].acquire THEN OwnsNational(app, o) ELSE app.transition = o
     IN  IF current
         THEN Continues(settleAutoSwitch(nationalAccepted(app, o), o, TRUE))
         ELSE Superseded(IF app.op[o].acquire THEN unpresented(siteRestored(app), o)
                                              ELSE concealed(app), o)

SwitchStep(o) ==
  /\ UNCHANGED requests
  /\ \/ siteBegins(o) \/ siteDownloads(o) \/ sitePaints(o) \/ siteFades(o)
     \/ nationalReveals(o) \/ nationalBegins(o) \/ nationalPrepares(o)
     \/ nationalStages(o) \/ nationalFadesOut(o)

-----------------------------------------------------------------------------
(* The steps of a scan fetched ahead. The switch waiting for it goes on     *)
(* when it has ended, however it ended.                                     *)

Waiting(a, p) == {o \in Op : a.op[o].pc = "preloading" /\ a.op[o].waits = p}

prefetchEnds(a, p) ==
  LET b == [a EXCEPT !.prefetch[p] = NoPrefetch,
                     !.prefetchInFlight = IF @ = p THEN None ELSE @,
                     !.prefetchSession = IF @ = p THEN None ELSE @]
  IN  IF Waiting(a, p) = {} THEN b
      ELSE LET o == Min(Waiting(a, p))
           IN  IF a.op[o].abandoned THEN SwitchFails(b, o, TRUE)
               ELSE startSiteFromNational(b, o, a.op[o].target)

prefetchFails(p) ==
  /\ failures < MaxFailures
  /\ failures' = failures + 1
  /\ app' = prefetchEnds(app, p)

prefetchBegins(p) ==
  /\ app.prefetch[p].pc = "beginning"
  /\ \/ Continues(LET a == [app EXCEPT !.lane["site"].active = TRUE]
                  IN  IF app.lane["site"].generation # app.prefetch[p].generation
                      THEN prefetchEnds(app, p)
                      ELSE IF a.prefetchSession # p THEN prefetchEnds(a, p)
                      ELSE [a EXCEPT !.prefetch[p].pc = "downloading"])
     \/ prefetchFails(p)

prefetchDownloads(p) ==
  /\ app.prefetch[p].pc = "downloading"
  /\ LET g == app.prefetch[p].generation
         kept == app.prefetchSession = p
     IN  \/ Continues(prefetchEnds(
              IF kept THEN [app EXCEPT !.prefetchedSite =
                              [site |-> app.prefetch[p].site, generation |-> g]]
              ELSE app, p))
         \/ ~LaneIs(app, "site", g) /\ Continues(prefetchEnds(app, p))
         \/ prefetchFails(p)

PrefetchStep(p) == (prefetchBegins(p) \/ prefetchDownloads(p)) /\ UNCHANGED requests

(* After five minutes a scan fetched ahead is not used any more.            *)
prefetchExpires ==
  /\ app.prefetchedSite # NoSweep
  /\ app' = [app EXCEPT !.prefetchedSite = NoSweep]
  /\ UNCHANGED <<requests, failures>>

-----------------------------------------------------------------------------
(* The decision for the camera.                                             *)

Evaluated(a) ==
  LET decision == decideAutoSource(a.camera, a.painted, a.preferredSite)
      target == decision.target
      b == [a EXCEPT !.preferredSite = PreferenceAfter(a.camera, @),
                     !.autoErrorSite = IF target = @ THEN @ ELSE None]
      o == Min(FreeOp(a))
  IN  IF a.autoSwitch # None
      THEN IF target = a.op[a.autoSwitch].target THEN b
           ELSE [abandonAutoSwitch(b) EXCEPT !.pendingAutoEvaluation = TRUE]
      ELSE IF target = a.painted
      THEN IF decision.preload # None THEN prefetchSite(b, decision.preload)
           ELSE IF target = National THEN cancelPrefetch(b) ELSE b
      ELSE IF target = National THEN startNational(beginAutoSwitch(b, o), o)
      ELSE IF target \in a.autoSiteFailures THEN b
      ELSE startSiteSession(beginAutoSwitch(b, o), o, target)

(* During a flight whose landing is awaited only the picked Site is fetched *)
(* ahead; during any other one the camera may be anywhere.                  *)
evaluateAutoSource ==
  LET a == [app EXCEPT !.evaluate = FALSE, !.heeded = TRUE]
      abandoned == a.autoSwitch # None /\ a.op[a.autoSwitch].abandoned
      manual == a.transition # None /\ a.autoSwitch = None
  IN  /\ app.evaluate
      /\ \E view \in IF a.flight = None THEN {a.camera} ELSE View :
           app' = IF a.evaluateOnNextMove /\ a.flight # None
                  THEN IF a.preferredSite # None /\ a.autoSwitch = None
                       THEN prefetchSite(a, a.preferredSite) ELSE a
                  ELSE IF manual \/ abandoned THEN [a EXCEPT !.pendingAutoEvaluation = TRUE]
                  ELSE IF a.painted = None THEN a
                  ELSE Evaluated([a EXCEPT !.camera = view])
      /\ UNCHANGED <<requests, failures>>

-----------------------------------------------------------------------------
(* The operator: moving the map, which may end a flight, and picking a      *)
(* source.                                                                  *)

Requested(a) ==
  /\ requests < MaxRequests
  /\ requests' = requests + 1
  /\ app' = a
  /\ UNCHANGED failures

userMoves(view) ==
  Requested([app EXCEPT !.camera = view, !.flight = None,
                        !.evaluateOnNextMove = FALSE, !.evaluate = TRUE])

flightEnds ==
  /\ app.flight # None
  /\ app' = [app EXCEPT !.camera = app.flight, !.flight = None, !.evaluateOnNextMove = FALSE,
                        !.evaluate = app.evaluateOnNextMove, !.heeded = app.evaluateOnNextMove]
  /\ UNCHANGED <<requests, failures>>

setPreferredSite(a, site) ==
  LET b == [a EXCEPT !.preferredSite = site, !.autoSiteFailures = @ \ {site}]
      next == pickedNextSource(site, a.painted)
  IN  IF a.autoSwitch # None /\ a.painted # None /\ next # a.op[a.autoSwitch].target
      THEN abandonAutoSwitch(b) ELSE b

evaluateIfSettled(a) ==
  IF a.flight # None THEN a ELSE [a EXCEPT !.evaluateOnNextMove = FALSE, !.evaluate = TRUE]

fliesTo(a, view) == [a EXCEPT !.flight = IF a.camera = view THEN None ELSE view]

(* What a pick does once its flight begins. With no radar on the screen a   *)
(* picked Site is started at once; National is left to the evaluation, and  *)
(* so is everything after a flight back to the source on the screen.        *)
picked(a, pick) ==
  LET source == pick.source
      chosen == pick.chosen /\ source \in Site
      flown == fliesTo([a EXCEPT !.picking = NoPick],
                       IF source = National THEN NationalView ELSE SiteView[source])
  IN  IF chosen /\ a.painted = None
      THEN startSiteFromNational(flown, Min(FreeOp(a)), source)
      ELSE evaluateIfSettled(IF chosen THEN prefetchSite(flown, source) ELSE flown)

(* The flight that replaces one under way ends it first, and the event of   *)
(* its end is taken for the landing.                                        *)
Picks(a, pick) ==
  LET b == [a EXCEPT !.evaluateOnNextMove = TRUE]
  IN  IF a.flight # None
      THEN \E view \in View :
             Requested([b EXCEPT !.picking = pick, !.camera = view, !.flight = None,
                                 !.evaluateOnNextMove = FALSE, !.evaluate = TRUE])
      ELSE Requested(picked(b, pick))

pickContinues ==
  /\ app.picking # NoPick
  /\ app' = picked(app, app.picking)
  /\ UNCHANGED <<requests, failures>>

(* A slot is left for the automatic switch that may follow.                 *)
selectSite(site) ==
  /\ Cardinality(FreeOp(app)) > 1
  /\ Picks(setPreferredSite([app EXCEPT !.siteRequestError = FALSE,
                                        !.nationalRequestError = FALSE], site),
           [source |-> site, chosen |-> TRUE])

selectNational ==
  LET requested == IF app.transition = None THEN None ELSE app.op[app.transition].target
      alreadyNational == \/ requested = National
                         \/ app.painted = National /\ app.transition = None
      a == IF alreadyNational THEN app
           ELSE [app EXCEPT !.siteRequestError = FALSE, !.nationalRequestError = FALSE]
  IN  Picks(setPreferredSite(a, None), [source |-> National, chosen |-> TRUE])

recenterRadar ==
  /\ app.painted # None
  /\ Picks(app, [source |-> app.painted, chosen |-> FALSE])

OperatorStep ==
  \/ \E view \in View : userMoves(view)
  \/ \E site \in Site : selectSite(site)
  \/ selectNational
  \/ recenterRadar

-----------------------------------------------------------------------------
(* The rest of the application.                                             *)

(* A poll of the painted Site, or a step back in its history.               *)
acquireLive ==
  LET g == nextGeneration(app)
      b == IF app.nationalResident \/ app.painted = National THEN app ELSE cancel(app, "national")
  IN  /\ app.polling # None
      /\ app' = [b EXCEPT !.transferGeneration = g,
                          !.lane["site"] = [generation |-> g, active |-> TRUE]]
      /\ UNCHANGED <<requests, failures>>

(* What the chain of National acquisitions checks at each of its steps: it  *)
(* ends where this fails.                                                   *)
nationalHistoryOwned ==
  /\ app.nationalChain = app.nationalGeneration
  /\ LaneIs(app, "national", app.nationalGeneration)
  /\ app.painted = National \/ app.nationalResident

(* The National renderer fails, and recovers with the chain's next scan.    *)
nationalRendererFails ==
  /\ app.nationalLayer /\ app.nationalUsable
  /\ failures < MaxFailures
  /\ failures' = failures + 1
  /\ app' = [app EXCEPT !.nationalUsable = FALSE]
  /\ UNCHANGED requests

nationalRendererRecovers ==
  /\ app.nationalLayer /\ ~app.nationalUsable
  /\ app.nationalChain # 0 /\ nationalHistoryOwned
  /\ app' = [app EXCEPT !.nationalUsable = TRUE]
  /\ UNCHANGED <<requests, failures>>

(* A Site that failed may be tried again a minute later; the timer of the   *)
(* last failure asks for it then.                                           *)
siteCooldownEnds(site) ==
  /\ site \in app.autoSiteFailures
  /\ app' = [app EXCEPT !.autoSiteFailures = @ \ {site}]
  /\ UNCHANGED <<requests, failures>>

siteRetryTimer ==
  /\ app.autoSiteRetryTimer
  /\ app' = [app EXCEPT !.autoSiteRetryTimer = FALSE, !.autoSiteFailures = {}, !.evaluate = TRUE]
  /\ UNCHANGED <<requests, failures>>

BackgroundStep ==
  \/ acquireLive \/ prefetchExpires
  \/ nationalRendererFails \/ nationalRendererRecovers
  \/ \E site \in Site : siteCooldownEnds(site)

-----------------------------------------------------------------------------
Blank(view) ==
  [painted |-> None, transition |-> None, transferGeneration |-> 1,
   lane |-> [l \in {"site", "national"} |-> [generation |-> IF l = "site" THEN 1 ELSE 0,
                                             active |-> l = "site"]],
   op |-> [o \in Op |-> NoOp], prefetch |-> [p \in Prefetch |-> NoPrefetch],
   prefetchInFlight |-> None, prefetchSession |-> None, prefetchedSite |-> NoSweep,
   layer |-> NoLayer, mapped |-> NoLayer, opacity |-> "none",
   nationalLayer |-> FALSE, nationalVisible |-> FALSE, nationalPresents |-> FALSE,
   nationalUsable |-> FALSE, nationalResident |-> FALSE, nationalShown |-> FALSE,
   nationalGeneration |-> 0, nationalChain |-> 0,
   polling |-> None, pollingBy |-> None,
   preferredSite |-> None, evaluateOnNextMove |-> FALSE, pendingAutoEvaluation |-> FALSE,
   autoSwitch |-> None, evaluate |-> FALSE, picking |-> NoPick, heeded |-> TRUE,
   autoSiteFailures |-> {}, autoSiteRetryTimer |-> FALSE, autoErrorSite |-> None,
   siteRequestError |-> FALSE, nationalRequestError |-> FALSE,
   camera |-> view, flight |-> None]

(* A launch opens the source its camera calls for, as a manual switch.      *)
Launched(view) ==
  LET source == AutoTarget(view, National, None)
      a == Blank(view)
      o == Min(Op)
  IN  IF source = National THEN acquireNational(a, o) ELSE startSiteFromNational(a, o, source)

SwitchInit ==
  /\ \E view \in View : app = Launched(view)
  /\ requests = 0 /\ failures = 0

(* Calls that return at once come first.                                    *)
SwitchNext ==
  IF app.evaluate THEN evaluateAutoSource
  ELSE IF app.picking # NoPick THEN pickContinues
  ELSE \/ \E o \in Op : SwitchStep(o)
       \/ \E p \in Prefetch : PrefetchStep(p)
       \/ flightEnds
       \/ siteRetryTimer
       \/ OperatorStep
       \/ BackgroundStep

SwitchSpec == SwitchInit /\ [][SwitchNext]_vars

(* Calls, paints and frames come to an end and the timer runs out. A flight *)
(* takes seconds and lands, whatever is decided meanwhile. The operator may *)
(* rest, and nothing needs to fail or recover.                              *)
Settled(A) == ~app.evaluate /\ app.picking = NoPick /\ A

SwitchFairSpec ==
  /\ SwitchSpec
  /\ WF_vars(app.evaluate /\ evaluateAutoSource)
  /\ WF_vars(~app.evaluate /\ pickContinues)
  /\ \A o \in Op : WF_vars(Settled(SwitchStep(o)))
  /\ \A p \in Prefetch : WF_vars(Settled(PrefetchStep(p)))
  /\ SF_vars(Settled(flightEnds))
  /\ WF_vars(Settled(siteRetryTimer))

-----------------------------------------------------------------------------
(* Properties.                                                              *)

Acquiring == \E o \in Op : app.op[o].acquire
Unwound == \A o \in Op : app.op[o].pc = "idle"
NationalDrawn == app.nationalLayer /\ app.nationalVisible /\ app.nationalPresents

(* What the application says is painted is what the operator sees, and once *)
(* every switch has ended he sees nothing else: the painted Site's layer is *)
(* the one on the map and opaque again, painted National is drawn, no Site  *)
(* that never finished fading in is left, nor National drawn under the Site *)
(* for a switch given up (acceptPaint, the catches of startSiteFromNational *)
(* and revealResidentNational).                                             *)
ScreenShowsPainted ==
  /\ app.painted \in Site => app.layer.site = app.painted /\ app.mapped = app.layer
  /\ app.painted = National => NationalDrawn
  /\ Unwound => /\ IF app.painted \in Site THEN app.opacity = "full" ELSE app.mapped = NoLayer
                /\ NationalDrawn => app.painted = National

(* A painted Site goes on polling, also after a switch away from it failed  *)
(* or was given up; only a National acquisition that replaces it stops it   *)
(* (resumeSitePollingAfterNationalFailure). National that is painted, or    *)
(* kept resident behind a Site, owns its lane and its chain of acquisitions *)
(* runs (nationalHistoryOwnershipCheck).                                    *)
PaintedKeepsUpdating ==
  /\ app.painted \in Site /\ ~Acquiring => app.polling = app.painted
  /\ app.painted = National \/ app.nationalResident => nationalHistoryOwned

(* Giving up a switch stops its download: the lane it downloads on is not   *)
(* active any more (abandonAutoSwitch).                                     *)
AbandonedDownloadsStop ==
  \A o \in Op : app.op[o].abandoned =>
    /\ app.op[o].pc = "downloading" => ~LaneIs(app, "site", app.op[o].generation)
    /\ app.op[o].pc = "preparing" => ~LaneIs(app, "national", app.op[o].generation)

(* "Moving between Sites always passes through National" (decideAutoSource  *)
(* in autoSourcePolicy.ts): no switch to a Site is under way while a Site   *)
(* is painted, whose layer has the id the new one would need, whatever was  *)
(* picked, failed or given up since the switch was begun.                   *)
SitesStartOverNational ==
  app.transition # None /\ app.op[app.transition].target \in Site => app.painted \notin Site

(* With no radar on the screen and nothing under way, the operator is told  *)
(* why: "choose National again to retry" (the failure notice of App.tsx).   *)
NothingShownIsExplained ==
  app.painted = None /\ Unwound /\ app.flight = None /\ ~app.evaluate /\ app.picking = NoPick
    => app.siteRequestError \/ app.nationalRequestError

(* The source the camera calls for is on the screen, or National is and the *)
(* operator was told that it could not be loaded.                           *)
Answered ==
  /\ Unwound /\ app.flight = None /\ ~app.evaluate
  /\ app.painted # None =>
       LET target == AutoTarget(app.camera, app.painted, app.preferredSite)
       IN  target = app.painted \/ (target = National /\ app.nationalRequestError)

(* The latest intent wins: once the operator rests, however the moves and   *)
(* picks fell on switches under way, the source the camera calls for is     *)
(* reached, a Site that failed by its retry (evaluateAutoSource,            *)
(* settleAutoSwitch, the flush of a pending evaluation). Left out are the   *)
(* landings of flights that replaced another one, which nothing evaluates   *)
(* (heeded).                                                                *)
LatestIntentWins == []<>(Answered \/ ~app.heeded)
=============================================================================
