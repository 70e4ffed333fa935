SPECIFICATION Spec
CONSTANTS
  c1 = c1  c2 = c2
  Tasks = {1, 2, 3}
  Elsewhere = {3}
  Claims <- MCClaims
  Environments <- MCEnvironments
  Values = {"A", "B"}
  Submissions <- MCSubmissions
  Accepted <- MCAccepted
  Sections = {"download-sources", "behavior"}
  MaxRequests = 2
  MaxFaults = 1
INVARIANTS TypeOK OneOwner CacheIsFresh
PROPERTIES SavesKeepTheRest ProbedTogether HealthConverges
CHECK_DEADLOCK FALSE
