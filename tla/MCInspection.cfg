SPECIFICATION Spec
CONSTANTS
  NationalScans = {n1, n2}
  SiteScans = {s1, s2}
  Points = {p1, p2}
  None = None
INVARIANTS
  ShownIsPainted
