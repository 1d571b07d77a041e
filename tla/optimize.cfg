SPECIFICATION PlatformSpec
CONSTANTS
  AssetIds = {a1}
  huge = huge
  hard = hard
  None = None
  Contents <- MCContents
  ValidContents <- MCContents
  Corrupt <- MCHard
  Large <- MCHuge
  Formats = {"jpeg"}
  Format <- MCFormat
  Size <- MCSize
  MaxVersion = 2
  ApiKeys = {k1}
  TenantMax <- MCTenantMax
  KeyMax <- MCKeyMax
  Requests = {r1}
  Stamps = {"t1"}
  Variants = {v1}
  WarmSet = {v1}
  Workers = {w1, w2}
  Verdicts = {"unavailable"}
  HoldsWithoutVerdict = FALSE
  MaxPuts = 0
  MaxReceives = 1
  MaxFaults = 0
SYMMETRY Symmetry
INVARIANTS
  PlatformTypeOK
  ReadyIsEarned
  InventoryIsReal
PROPERTIES
  ImplementsAssetLife
CHECK_DEADLOCK FALSE
