SPECIFICATION Spec
CONSTANTS
  o1 = o1
  o2 = o2
  u1 = u1
  d1 = d1
  d2 = d2
  n1 = n1
  n2 = n2
  k1 = k1
  r1 = r1
  r2 = r2
  None = None
  Org <- MCOrg
  User <- MCUser
  Seat <- MCSeat
  DeptId <- MCDeptId
  Name <- MCName
  KeyId <- MCKeyId
  Slot <- MCSlot
SYMMETRY Symmetry
INVARIANTS TypeOK NamesUnique ReferencesHold
PROPERTIES RevocationIsFinal ResourceIsolation
