SPECIFICATION Spec
CONSTANTS
  u1 = u1
  i1 = i1
  i2 = i2
  i3 = i3
  s1 = s1
  s2 = s2
  s3 = s3
  None = None
  User <- OneUser
  SessionId <- TwoIds
  Slot <- TwoSlots
INVARIANTS ResetEndsLogins
