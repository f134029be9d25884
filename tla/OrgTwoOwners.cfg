SPECIFICATION SeededSpec
CONSTANTS
  u1 = u1
  u2 = u2
  u3 = u3
  o1 = o1
  o2 = o2
  s1 = s1
  s2 = s2
  lower = lower
  upper = upper
  None = None
  Org <- OneOrg
  User <- Users3
  Slot <- TwoSlots
  Invitee <- NoInvitee
  Spelling <- OneSpelling
  PayloadRole = {"viewer"}
  Gen <- TwoGens
INVARIANTS AtMostOneOwner
