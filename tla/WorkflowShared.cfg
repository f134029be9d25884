SPECIFICATION Spec
CONSTANTS
  w1 = w1
  w2 = w2
  o1 = o1
  o2 = o2
  d1 = d1
  d2 = d2
  bad = bad
  None = None
  Workflow <- Workflows
  Org <- Orgs
  Definition <- Definitions
  Valid <- ValidOnes
  MaxVersions = 3
  SharedSession = TRUE
SYMMETRY Symmetry
INVARIANTS TypeOK PointersMatch GraphsMatch
PROPERTIES TenantIsolation ImplementsHistory
