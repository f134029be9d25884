SPECIFICATION Spec
CONSTANTS
  u1 = u1
  u2 = u2
  u3 = u3
  o1 = o1
  o2 = o2
  s1 = s1
  s2 = s2
  lower = lower
  upper = upper
  None = None
  Org <- OneOrg
  User <- Users2
  Slot <- TwoSlots
  Invitee <- OneInvitee
  Spelling <- OneSpelling
  PayloadRole = {"viewer"}
  Gen <- TwoGens
SYMMETRY SlotSymmetry
INVARIANTS TypeOK UniqueMembership NoOrphans
PROPERTIES SuspensionIsFinal JoinsByInvitation OneOwnerKept ChangesAreAuthorised UsedUpStays OneInviteAtATime
CONSTRAINT FewRows
