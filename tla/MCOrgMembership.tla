-------------------------- MODULE MCOrgMembership --------------------------
(* Instances of OrgMembership for TLC: named users, organizations and slots, *)
(* and the symmetry of those that no definition singles out.                *)
EXTENDS OrgMembership, TLC

CONSTANTS u1, u2, u3, o1, o2, s1, s2, lower, upper

Users2 == {u1, u2}
Users3 == {u1, u2, u3}
OneOrg == {o1}
TwoOrgs == {o1, o2}
OneSlot == {s1}
TwoSlots == {s1, s2}
OneInvitee == {u2}
NoInvitee == {}
OneSpelling == {lower}
TwoSpellings == {lower, upper}
OneGen == {0}
TwoGens == 0..1

\* The findings start from a state that create_org, invite_member and
\* accept_invitation lead to: u1 owns every organization, the others manage it.
SeededInit ==
  /\ orgs = [o \in Org |-> "active"]
  /\ members = {[org |-> o, user |-> u, gen |-> 0,
                 role |-> IF u = u1 THEN "owner" ELSE "manager"] :
                  o \in Org, u \in User \ Invitee}
  /\ invites = {}
  /\ req = [r \in Slot |-> Answered("done")]
SeededSpec == SeededInit /\ [][Next]_vars

\* Two concurrent requests go on from states of at most three rows: that of both
\* memberships and two invitations is checked, but not continued.
FewRows == Cardinality(members) + Cardinality(invites) <= 3

\* Two organizations go on from states of at most two invitations.
FewInvites == Cardinality(invites) <= 2

SlotSymmetry == Permutations(Slot)
OrgUserSymmetry ==
  Permutations(Org) \cup Permutations(User \ Invitee) \cup Permutations(Spelling)
=============================================================================
