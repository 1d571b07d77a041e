SPECIFICATION Spec
CONSTANTS
  AssetIds = {a1}
  c1 = c1
  c2 = c2
  bad = bad
  None = None
  Contents <- MCSmall
  ValidContents <- MCOne
  Formats = {"jpeg"}
  Format <- MCFormat
  Size <- MCSize
  MaxVersion = 2
  ApiKeys = {k1}
  TenantMax <- MCNoTenantMax
  KeyMax <- MCNoKeyMax
  Requests = {r1, r2}
  Stamps = {"t1"}
  Variants = {}
  Verdicts = {"clean", "threat", "unavailable"}
  HoldsWithoutVerdict = TRUE
  MaxPuts = 1
  MaxReceives = 1
  MaxFaults = 1
SYMMETRY Symmetry
INVARIANTS
  TypeOK
  CurrentSourceDurable
  VersionHistory
PROPERTIES
  AckedIsDurable
  ImplementsAssetLife
CHECK_DEADLOCK FALSE
