SPECIFICATION Spec
CONSTANTS
  AssetIds = {a1, a2}
  c1 = c1
  c2 = c2
  bad = bad
  None = None
  Contents <- MCOne
  ValidContents <- MCOne
  Formats = {"jpeg"}
  Format <- MCFormat
  Size <- MCSize
  MaxVersion = 1
  ApiKeys = {k1, k2}
  TenantMax <- MCTenantMax
  KeyMax <- MCKeyMax
  Requests = {r1, r2}
  Stamps = {}
  Variants = {}
  Verdicts = {"unavailable"}
  HoldsWithoutVerdict = FALSE
  MaxPuts = 1
  MaxReceives = 1
  MaxFaults = 1
SYMMETRY Symmetry
INVARIANTS
  QuotaCeiling
  TenantIsSumOfKeys
CHECK_DEADLOCK FALSE
