SPECIFICATION FairPlatformSpec
CONSTANTS
  AssetIds = {a1}
  huge = huge
  hard = hard
  None = None
  Contents <- MCContents
  ValidContents <- MCContents
  Corrupt <- MCHard
  Large <- MCHuge
  Formats = {"jpeg"}
  Format <- MCFormat
  Size <- MCSize
  MaxVersion = 2
  ApiKeys = {k1}
  TenantMax <- MCTenantMax
  KeyMax <- MCKeyMax
  Requests = {r1}
  Stamps = {"t1"}
  Variants = {v1}
  WarmSet = {v1}
  Workers = {w1}
  Verdicts = {"unavailable"}
  HoldsWithoutVerdict = FALSE
  MaxPuts = 0
  MaxReceives = 2
  MaxFaults = 0
PROPERTY MessagesSettle
CHECK_DEADLOCK FALSE
