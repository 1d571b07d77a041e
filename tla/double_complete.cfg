SPECIFICATION Spec
CONSTANTS
  AssetIds = {a1}
  c1 = c1
  c2 = c2
  bad = bad
  None = None
  Contents <- MCOne
  ValidContents <- MCOne
  Formats = {"jpeg"}
  Format <- MCFormat
  Size <- MCSize
  MaxVersion = 1
  ApiKeys = {k1}
  TenantMax <- MCNoTenantMax
  KeyMax <- MCNoKeyMax
  Requests = {r1, r2}
  Stamps = {}
  Variants = {}
  Verdicts = {"unavailable"}
  HoldsWithoutVerdict = FALSE
  MaxPuts = 1
  MaxReceives = 1
  MaxFaults = 0
PROPERTY StatusFollowsTable
CHECK_DEADLOCK FALSE
