--------------------------- MODULE MCSourceSwitch ---------------------------
(* Instance of SourceSwitch for TLC: two Sites 150 km apart, the view of    *)
(* the country, the two Sites' own and one that only fetches KDIX ahead.    *)
EXTENDS SourceSwitch

CONSTANTS KDIX, KOKX

From(zoom, toKDIX, toKOKX) ==
  [zoom |-> zoom, covered |-> TRUE,
   distance |-> [s \in {KDIX, KOKX} |-> IF s = KDIX THEN toKDIX ELSE toKOKX]]

Country == From(45, 900, 1050)
OverKDIX == From(95, 0, 150)
OverKOKX == From(95, 150, 0)
NearKDIX == From(82, 40, 150)

Views == {Country, OverKDIX, OverKOKX, NearKDIX}
SiteViews == [s \in {KDIX, KOKX} |-> IF s = KDIX THEN OverKDIX ELSE OverKOKX]
=============================================================================
