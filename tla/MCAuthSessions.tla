--------------------------- MODULE MCAuthSessions ---------------------------
(* Instances of AuthSessions for TLC: a named account, session ids and slots. *)
EXTENDS AuthSessions, TLC

CONSTANTS u1, i1, i2, i3, s1, s2, s3

OneUser == {u1}
TwoIds == {i1, i2}
ThreeIds == {i1, i2, i3}
OneSlot == {s1}
TwoSlots == {s1, s2}
ThreeSlots == {s1, s2, s3}

Symmetry == Permutations(SessionId) \cup Permutations(Slot)
=============================================================================
