-------------------------- MODULE AutoSourcePolicy --------------------------
(***************************************************************************)
(* The policy of src/src/radar-session/autoSourcePolicy.ts: which source a *)
(* camera calls for, given the source on the screen and the Site the       *)
(* operator picked. Zooms are in tenths, distances in kilometres, and a    *)
(* camera is the part of it the policy reads: its zoom, whether the        *)
(* National grid covers its centre and how far each Site is from it.       *)
(***************************************************************************)
EXTENDS Integers

CONSTANTS Site, National, None

ASSUME SourcesDiffer == National \notin Site /\ None \notin Site /\ None # National

Source == Site \cup {National}

AUTO_SITE_ENTER_ZOOM == 90
AUTO_SITE_EXIT_ZOOM == 85
AUTO_SITE_PRELOAD_ZOOM == 80
AUTO_SITE_ENTER_RANGE == 200
AUTO_SITE_KEEP_RANGE == 230
AUTO_SITE_OFFSHORE_ENTER_ZOOM == 60
AUTO_SITE_OFFSHORE_EXIT_ZOOM == 55

Camera == [zoom: Nat, covered: BOOLEAN, distance: [Site -> Nat]]

enterZoom(c) == IF c.covered THEN AUTO_SITE_ENTER_ZOOM ELSE AUTO_SITE_OFFSHORE_ENTER_ZOOM
exitZoom(c) == IF c.covered THEN AUTO_SITE_EXIT_ZOOM ELSE AUTO_SITE_OFFSHORE_EXIT_ZOOM
preloadZoom(c) == IF c.covered THEN AUTO_SITE_PRELOAD_ZOOM ELSE AUTO_SITE_OFFSHORE_EXIT_ZOOM

(* The nearest Site within the range for entering; of two as near, either.  *)
Covering(c) == {s \in Site : c.distance[s] <= AUTO_SITE_ENTER_RANGE}

nearestCoveringSite(c) ==
  IF Covering(c) = {} THEN None
  ELSE CHOOSE s \in Covering(c) : \A t \in Covering(c) : c.distance[s] <= c.distance[t]

preferenceHolds(c, preferredSite) ==
  preferredSite # None /\ c.distance[preferredSite] <= AUTO_SITE_KEEP_RANGE

candidate(c, preferredSite) ==
  IF preferenceHolds(c, preferredSite) THEN preferredSite ELSE nearestCoveringSite(c)

(* A Site on the screen stays while the view is near it and close enough,   *)
(* unless another one is picked, which replaces it by way of National.      *)
SiteStays(c, s, preferredSite) ==
  /\ ~ (preferenceHolds(c, preferredSite) /\ preferredSite # s /\ c.zoom >= enterZoom(c))
  /\ c.zoom >= exitZoom(c)
  /\ c.distance[s] <= AUTO_SITE_KEEP_RANGE

(* Mutant: from one Site straight to the one picked.                        *)
AutoTarget_direct(c, visible, preferredSite) ==
  IF visible \in Site /\ SiteStays(c, visible, preferredSite) THEN visible
  ELSE IF candidate(c, preferredSite) # None /\ c.zoom >= enterZoom(c)
       THEN candidate(c, preferredSite) ELSE National

AutoTarget(c, visible, preferredSite) ==
  IF visible \in Site
  THEN IF SiteStays(c, visible, preferredSite) THEN visible ELSE National
  ELSE IF candidate(c, preferredSite) # None /\ c.zoom >= enterZoom(c)
       THEN candidate(c, preferredSite) ELSE National

(* The Site worth fetching ahead, only while National is on the screen.     *)
AutoPreload(c, visible, preferredSite) ==
  IF visible \notin Site /\ c.zoom < enterZoom(c) /\ c.zoom >= preloadZoom(c)
  THEN candidate(c, preferredSite) ELSE None

preferenceSpent(c, preferredSite) ==
  preferredSite # None /\ ~preferenceHolds(c, preferredSite)

decideAutoSource(c, visible, preferredSite) ==
  [target |-> AutoTarget(c, visible, preferredSite),
   preload |-> AutoPreload(c, visible, preferredSite),
   preferenceSpent |-> preferenceSpent(c, preferredSite)]

(* The next step from what is on the screen to what the operator picked:    *)
(* between two Sites it leads over National.                                *)
pickedNextSource(pick, visible) ==
  IF pick = None THEN National
  ELSE IF visible \in Site /\ visible # pick THEN National ELSE pick

(* The preference the next decision is made with.                           *)
PreferenceAfter(c, preferredSite) ==
  IF preferenceSpent(c, preferredSite) THEN None ELSE preferredSite
=============================================================================
