SPECIFICATION Spec
CONSTANTS
  u1 = u1
  u2 = u2
  u3 = u3
  o1 = o1
  o2 = o2
  s1 = s1
  s2 = s2
  lower = lower
  upper = upper
  None = None
  Org <- TwoOrgs
  User <- Users2
  Slot <- OneSlot
  Invitee <- OneInvitee
  Spelling <- TwoSpellings
  PayloadRole = {"viewer"}
  Gen <- TwoGens
SYMMETRY OrgUserSymmetry
PROPERTIES  OneInviteAtATime OrganizationsApart ChangesAreAuthorised
CONSTRAINT FewInvites
