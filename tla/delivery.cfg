\* A sweep of requests through edge, cache, bucket and generator, and two viewers
\* contending for a large source that is uploaded, optimized and deleted meanwhile.
CONSTANTS
  v1 = v1
  v2 = v2
  NoRequest = NoRequest
  Viewers = {v1, v2}
  Versions = {1, 2, 3}
  SourceOf <- MCSourceOf
  MasterEdge = 4000
  Epoch = 1
  Scenarios <- MCScenarios
SPECIFICATION Spec
INVARIANTS
  DeliveryTypeOK
  EdgeMatchesCore
  OracleHolds
  OneKeyPerRendering
  GeneratorAcceptsEdgeKeys
  SrcsetKeepsItsPromise
  FirstViewerSeesSameTerms
PROPERTIES
  StoredNeverRewritten
  ErrorsRecover
CHECK_DEADLOCK FALSE
