SPECIFICATION SwitchFairSpec
CONSTANTS
  KDIX = KDIX
  KOKX = KOKX
  None = None
  National = National
  Site = {KDIX, KOKX}
  Op = {1, 2, 3}
  Prefetch = {1, 2}
  Generation = {1, 2, 3, 4, 5, 6, 7, 8, 9, 10, 11, 12}
  View <- Views
  NationalView <- Country
  SiteView <- SiteViews
  MaxRequests = 2
  MaxFailures = 2
INVARIANTS
  ScreenShowsPainted
  PaintedKeepsUpdating
  AbandonedDownloadsStop
  SitesStartOverNational
PROPERTIES
  LatestIntentWins
CHECK_DEADLOCK FALSE
