\* The control plane's host: the rate limiter, the guards, the tenants' scopes and
\* listings under five mixes of requests, and the lock between reclamation runs.
CONSTANTS
  c1 = c1
  c2 = c2
  r1 = r1
  r2 = r2
  NoFile = NoFile
  Callers = {c1, c2}
  Sources = {"s1", "s2", "s3"}
  KeyIds <- MCKeyIds
  FirstKeys <- MCFirstKeys
  FirstAssets <- MCFirstAssets
  NewAssets <- MCNewAssets
  Traffic <- MCTraffic
  MaxPage = 3
  Window = 2
  OverallLimit = 3
  MutatingLimit = 2
  MaxTracked = 2
  Runs = {r1, r2}
  StaleAfter = 1
  MaxKills = 2
SPECIFICATION Spec
INVARIANTS
  HostTypeOK
  WithinBudget
  OwnTenantOnly
  RevokedIsRefused
  PagesMissNothing
  OneRunAtATime
PROPERTIES
  RevocationTimeStands
  ReclamationResumes
CHECK_DEADLOCK FALSE
