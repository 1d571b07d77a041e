SPECIFICATION ReclaimSpec
CONSTANTS
  AssetIds = {a1}
  huge = huge
  hard = hard
  None = None
  Contents <- MCHuge
  ValidContents <- MCHuge
  Corrupt <- MCNone
  Large <- MCNone
  Formats = {"jpeg"}
  Format <- MCFormat
  Size <- MCSize
  MaxVersion = 2
  ApiKeys = {k1}
  TenantMax <- MCTenantMax
  KeyMax <- MCKeyMax
  Requests = {r1, r2}
  Stamps = {"t1"}
  Variants = {}
  WarmSet = {}
  Workers = {}
  Verdicts = {"unavailable"}
  HoldsWithoutVerdict = FALSE
  MaxPuts = 0
  MaxReceives = 1
  MaxFaults = 0
  MaxDeletions = 1
  MaxReenqueues = 1
  MaxSlips = 0
  MaxActive = 3
INVARIANT CurrentSourceDurable
CHECK_DEADLOCK FALSE
