------------------------ MODULE OrgMembershipProofs ------------------------
(***************************************************************************)
(* What OrgMembership guarantees for every set of organizations, users and *)
(* concurrent requests: the types, one membership per user, no orphaned    *)
(* rows, and that a suspension is final.                                   *)
(***************************************************************************)
EXTENDS OrgMembership, TLAPS

----------------------------------------------------------------------------
(* Lemmas on the helpers.                                                  *)

\* A reply leaves a well-formed, empty slot.
LEMMA AnsweredType ==
  ASSUME NEW reply \in Replied PROVE Answered(reply) \in Request
BY DEF Answered, Request, Session, Replied

\* A step of one slot to a well-formed request keeps all of them well-formed.
LEMMA BecomeType ==
  ASSUME TypeOK, NEW r \in Slot, NEW q \in Request, Become(r, q)
  PROVE  req' \in [Slot -> Request]
BY DEF Become, TypeOK

\* In particular, every request may fail or succeed.
LEMMA ReplyType ==
  ASSUME TypeOK, NEW r \in Slot, Fail(r) \/ Succeed(r)
  PROVE  req' \in [Slot -> Request]
BY AnsweredType, BecomeType DEF Fail, Succeed, Replied

\* A request that starts has a user and an organization.
LEMMA StartType ==
  ASSUME NEW pc \in Gated \cup Ungated, NEW u \in User, NEW o \in Org
  PROVE  [Answered(pc) EXCEPT !.user = u, !.org = o] \in Request
BY DEF Answered, Request, Session

\* A request that is in flight stays well-formed when it moves on and loads rows.
LEMMA MoveType ==
  ASSUME NEW q \in Request, q.pc \notin Replied, NEW pc \in Gated \cup Ungated
  PROVE  /\ [q EXCEPT !.pc = pc] \in Request
         /\ \A b \in BOOLEAN : [q EXCEPT !.pc = pc, !.active = b] \in Request
         /\ \A rows \in SUBSET OrgMember :
              /\ [q EXCEPT !.pc = pc, !.caller = rows] \in Request
              /\ [q EXCEPT !.pc = pc, !.target = rows] \in Request
         /\ \A rows \in SUBSET Invitation : [q EXCEPT !.pc = pc, !.invite = rows] \in Request
BY DEF Request, Session

\* What a session sees of a table are rows of the table's type.
LEMMA LoadedType ==
  ASSUME TypeOK, NEW r \in Slot, NEW rows \in SUBSET OrgMember
  PROVE  Loaded(r, rows) \in SUBSET OrgMember
BY DEF Loaded, TypeOK, Request, Session

\* Flushing a role keeps the rows' type and their primary keys.
LEMMA SetRoleType ==
  ASSUME NEW table \in SUBSET OrgMember, NEW rows, NEW role \in Role
  PROVE  SetRole(table, rows, role) \in SUBSET OrgMember
BY DEF SetRole, OrgMember

\* A row after a flush of roles is a row before it, but for its role.
LEMMA SetRoleRows ==
  ASSUME NEW table \in SUBSET OrgMember, NEW rows, NEW role,
         NEW n \in SetRole(table, rows, role)
  PROVE  \E m \in table : /\ m.org = n.org /\ m.user = n.user
                          /\ n = IF \E row \in rows : Key(row) = Key(m) /\ row.role # role
                                   THEN [m EXCEPT !.role = role] ELSE m
BY DEF SetRole, OrgMember

\* The rows a SELECT on org_members returns, as the session sees them.
LEMMA MemberRowsType ==
  ASSUME TypeOK, NEW r \in Slot, NEW o, NEW u
  PROVE  /\ MemberRows(o, u) \in SUBSET OrgMember
         /\ Loaded(r, MemberRows(o, u)) \in SUBSET OrgMember
BY LoadedType DEF MemberRows, TypeOK

----------------------------------------------------------------------------
(* Type correctness, one lemma per group of actions.                       *)

\* require_org_member and rollbacks keep the types.
LEMMA AuthoriseType ==
  ASSUME TypeOK, NEW r \in Slot, Authorise(r) \/ Rollback(r) PROVE TypeOK'
<1>1. ASSUME CheckOrg(r) PROVE TypeOK'
  <2>1. PICK u \in User, o \in Org :
          Become(r, [Answered("member") EXCEPT !.user = u, !.org = o]) \/ Fail(r)
    BY <1>1 DEF CheckOrg
  <2>2. req' \in [Slot -> Request]
    BY <2>1, StartType, BecomeType, ReplyType DEF Gated
  <2>3. QED BY <1>1, <2>2 DEF CheckOrg, TypeOK, tables
<1>2. ASSUME CheckMember(r) PROVE TypeOK'
  <2>1. req[r] \in Request /\ req[r].pc \notin Replied
    BY <1>2 DEF CheckMember, At, TypeOK, Replied
  <2>2. req' \in [Slot -> Request]
    BY <1>2, <2>1, MemberRowsType, MoveType, BecomeType, ReplyType DEF CheckMember, Gated
  <2>3. QED BY <1>2, <2>2 DEF CheckMember, TypeOK, tables
<1>3. ASSUME Rollback(r) PROVE TypeOK'
  BY <1>3, ReplyType DEF Rollback, TypeOK, tables
<1>4. QED BY <1>1, <1>2, <1>3 DEF Authorise

\* So do the routes on organizations.
LEMMA OrgOpsType ==
  ASSUME TypeOK, NEW r \in Slot, OrgOps(r) PROVE TypeOK'
<1>1. ASSUME CreateOrgCheck(r) PROVE TypeOK'
  <2>1. PICK u \in User, o \in Org :
          Become(r, [Answered("create_org") EXCEPT !.user = u, !.org = o]) \/ Fail(r)
    BY <1>1 DEF CreateOrgCheck
  <2>2. req' \in [Slot -> Request]
    BY <2>1, StartType, BecomeType, ReplyType DEF Ungated
  <2>3. QED BY <1>1, <2>2 DEF CreateOrgCheck, TypeOK, tables
<1>2. ASSUME CreateOrg(r) PROVE TypeOK'
  <2>1. req[r].org \in Org /\ req[r].user \in User
    BY <1>2 DEF CreateOrg, At, TypeOK, Request, Replied
  <2>2. orgs' \in [Org -> OrgState]
    BY <1>2 DEF CreateOrg, TypeOK, OrgState
  <2>3. members' \in SUBSET OrgMember
    BY <1>2, <2>1 DEF CreateOrg, TypeOK, OrgMember, Role
  <2>4. req' \in [Slot -> Request]
    BY <1>2, ReplyType DEF CreateOrg
  <2>5. QED BY <1>2, <2>2, <2>3, <2>4 DEF CreateOrg, TypeOK
<1>3. ASSUME UpdateOrgCheck(r) PROVE TypeOK'
  <2>1. req[r] \in Request /\ req[r].pc \notin Replied
    BY <1>3 DEF UpdateOrgCheck, At, TypeOK, Replied
  <2>2. req' \in [Slot -> Request]
    BY <1>3, <2>1, MoveType, BecomeType, ReplyType DEF UpdateOrgCheck, Gated
  <2>3. QED BY <1>3, <2>2 DEF UpdateOrgCheck, TypeOK, tables
<1>4. ASSUME UpdateOrg(r) PROVE TypeOK'
  <2>1. req' \in [Slot -> Request]
    BY <1>4, ReplyType DEF UpdateOrg
  <2>2. orgs' \in [Org -> OrgState]
    BY <1>4 DEF UpdateOrg, TypeOK, OrgState
  <2>3. QED BY <1>4, <2>1, <2>2 DEF UpdateOrg, TypeOK
<1>5. ASSUME DeleteOrgCheck(r) PROVE TypeOK'
  <2>1. req[r] \in Request /\ req[r].pc \notin Replied
    BY <1>5 DEF DeleteOrgCheck, At, TypeOK, Replied
  <2>2. req' \in [Slot -> Request]
    BY <1>5, <2>1, MoveType, BecomeType, ReplyType DEF DeleteOrgCheck, Goto, Gated
  <2>3. QED BY <1>5, <2>2 DEF DeleteOrgCheck, TypeOK, tables
<1>6. ASSUME DeleteOrg(r) PROVE TypeOK'
  BY <1>6, ReplyType DEF DeleteOrg, TypeOK, OrgState
<1>7. QED BY <1>1, <1>2, <1>3, <1>4, <1>5, <1>6 DEF OrgOps

\* So do the routes on members.
LEMMA MemberOpsType ==
  ASSUME TypeOK, NEW r \in Slot, MemberOps(r) PROVE TypeOK'
<1>0. req[r] \in Request BY DEF TypeOK
<1>1. ASSUME UpdateMemberCheck(r) PROVE TypeOK'
  <2>1. req[r].pc \notin Replied
    BY <1>1 DEF UpdateMemberCheck, At, Replied
  <2>2. req' \in [Slot -> Request]
    BY <1>0, <1>1, <2>1, MemberRowsType, MoveType, BecomeType, ReplyType
       DEF UpdateMemberCheck, Gated
  <2>3. QED BY <1>1, <2>2 DEF UpdateMemberCheck, TypeOK, tables
<1>2. ASSUME UpdateMember(r) PROVE TypeOK'
  <2>1. PICK role \in PayloadRole :
          \/ members' = SetRole(members, req[r].target, role) /\ Succeed(r)
          \/ Fail(r) /\ UNCHANGED members
    BY <1>2 DEF UpdateMember
  <2>2. role \in Role BY OrgAssumption DEF ASSIGNABLE_ROLES
  <2>3. members' \in SUBSET OrgMember BY <2>1, <2>2, SetRoleType DEF TypeOK
  <2>4. QED BY <1>2, <2>1, <2>3, ReplyType DEF UpdateMember, TypeOK
<1>3. ASSUME RemoveMemberCheck(r) PROVE TypeOK'
  <2>1. req[r].pc \notin Replied
    BY <1>3 DEF RemoveMemberCheck, At, Replied
  <2>2. req' \in [Slot -> Request]
    BY <1>0, <1>3, <2>1, MemberRowsType, MoveType, BecomeType, ReplyType
       DEF RemoveMemberCheck, Gated
  <2>3. QED BY <1>3, <2>2 DEF RemoveMemberCheck, TypeOK, tables
<1>4. ASSUME RemoveMember(r) PROVE TypeOK'
  BY <1>4, ReplyType DEF RemoveMember, Without, TypeOK
<1>5. ASSUME TransferCaller(r) PROVE TypeOK'
  <2>1. req[r].pc \notin Replied
    BY <1>5 DEF TransferCaller, At, Replied
  <2>2. req' \in [Slot -> Request]
    BY <1>0, <1>5, <2>1, MemberRowsType, MoveType, BecomeType, ReplyType
       DEF TransferCaller, Gated
  <2>3. QED BY <1>5, <2>2 DEF TransferCaller, TypeOK, tables
<1>6. ASSUME TransferNewOwner(r) PROVE TypeOK'
  <2>1. req[r].pc \notin Replied
    BY <1>6 DEF TransferNewOwner, At, Replied
  <2>2. req' \in [Slot -> Request]
    BY <1>0, <1>6, <2>1, MemberRowsType, MoveType, BecomeType, ReplyType
       DEF TransferNewOwner, Gated
  <2>3. QED BY <1>6, <2>2 DEF TransferNewOwner, TypeOK, tables
<1>7. ASSUME Transfer(r) PROVE TypeOK'
  <2>1. req[r].pc \notin Replied
    BY <1>7 DEF Transfer, At, Replied
  <2>2. req' \in [Slot -> Request]
    BY <1>0, <1>7, <2>1, MoveType, BecomeType, ReplyType DEF Transfer, Goto, Gated
  <2>3. SetRole(SetRole(members, Demoted(r), "admin"), req[r].target, "owner") \in SUBSET OrgMember
    BY SetRoleType DEF TypeOK, Role
  <2>4. members' \in SUBSET OrgMember BY <1>7, <2>3 DEF Transfer, TypeOK
  <2>5. QED BY <1>7, <2>2, <2>4 DEF Transfer, TypeOK
<1>8. ASSUME TransferReply(r) PROVE TypeOK'
  BY <1>8, ReplyType DEF TransferReply, TypeOK, tables
<1>9. QED BY <1>1, <1>2, <1>3, <1>4, <1>5, <1>6, <1>7, <1>8 DEF MemberOps

\* So do the routes on invitations.
LEMMA InviteOpsType ==
  ASSUME TypeOK, NEW r \in Slot, InviteOps(r) PROVE TypeOK'
<1>0. req[r] \in Request BY DEF TypeOK
<1>1. ASSUME InviteCheck(r) PROVE TypeOK'
  <2>1. req[r].pc \notin Replied
    BY <1>1 DEF InviteCheck, At, Replied
  <2>2. ASSUME NEW o \in Org, NEW u \in Invitee, NEW spelling \in Spelling,
               NEW role \in PayloadRole, NEW g \in Gen
        PROVE  {[org |-> o, user |-> u, spelling |-> spelling, gen |-> g, role |-> role,
                 accepted |-> FALSE, expired |-> FALSE]} \in SUBSET Invitation
    BY OrgAssumption DEF Invitation
  <2>3. req' \in [Slot -> Request]
    BY <1>0, <1>1, <2>1, <2>2, MoveType, BecomeType, ReplyType DEF InviteCheck, Gated
  <2>4. QED BY <1>1, <2>3 DEF InviteCheck, TypeOK, tables
<1>2. ASSUME Invite(r) PROVE TypeOK'
  BY <1>0, <1>2, ReplyType DEF Invite, TypeOK, Request, Session
<1>3. ASSUME RevokeCheck(r) PROVE TypeOK'
  <2>1. req[r].pc \notin Replied
    BY <1>3 DEF RevokeCheck, At, Replied
  <2>2. \A i \in invites : {i} \in SUBSET Invitation BY DEF TypeOK
  <2>3. req' \in [Slot -> Request]
    BY <1>0, <1>3, <2>1, <2>2, MoveType, BecomeType, ReplyType DEF RevokeCheck, Gated
  <2>4. QED BY <1>3, <2>3 DEF RevokeCheck, TypeOK, tables
<1>4. ASSUME Revoke(r) PROVE TypeOK'
  BY <1>4, ReplyType DEF Revoke, Without, TypeOK
<1>5. ASSUME AcceptInvite(r) PROVE TypeOK'
  <2>1. ASSUME NEW u \in User, NEW i \in invites
        PROVE  [Answered("accept:member") EXCEPT !.user = u, !.org = i.org, !.invite = {i}]
                 \in Request
    BY DEF TypeOK, Invitation, Answered, Request, Session, Ungated
  <2>2. req' \in [Slot -> Request]
    BY <1>5, <2>1, BecomeType, ReplyType, OrgAssumption DEF AcceptInvite
  <2>3. QED BY <1>5, <2>2 DEF AcceptInvite, TypeOK, tables
<1>6. ASSUME AcceptCheckMember(r) PROVE TypeOK'
  <2>1. req[r].pc \notin Replied
    BY <1>6 DEF AcceptCheckMember, At, Replied
  <2>2. req' \in [Slot -> Request]
    BY <1>0, <1>6, <2>1, MoveType, BecomeType, ReplyType DEF AcceptCheckMember, Goto, Ungated
  <2>3. QED BY <1>6, <2>2 DEF AcceptCheckMember, TypeOK, tables
<1>7. ASSUME Accept(r) PROVE TypeOK'
  <2>1. /\ req[r].org \in Org /\ req[r].user \in User
        /\ req[r].invite \in SUBSET Invitation
    BY <1>0, <1>7 DEF Accept, At, Request, Session, Replied
  <2>2. members' \in SUBSET OrgMember
    <3>1. ASSUME NEW i \in req[r].invite, NEW g \in Gen
          PROVE  [org |-> req[r].org, user |-> req[r].user, gen |-> g, role |-> i.role] \in OrgMember
      BY <2>1 DEF OrgMember, Invitation, ASSIGNABLE_ROLES
    <3>2. members' = members \/ \E g \in Gen, i \in req[r].invite :
            members' = members \cup
              {[org |-> req[r].org, user |-> req[r].user, gen |-> g, role |-> i.role]}
      BY <1>7 DEF Accept
    <3>3. QED BY <3>1, <3>2 DEF TypeOK
  <2>3. invites' \in SUBSET Invitation
    <3>1. \A i \in Invitation : [i EXCEPT !.accepted = TRUE] \in Invitation
      BY DEF Invitation
    <3>2. invites' = invites \/
          invites' = {IF InTable(i, req[r].invite)
                        THEN [i EXCEPT !.accepted = TRUE] ELSE i : i \in invites}
      BY <1>7 DEF Accept
    <3>3. QED BY <3>1, <3>2 DEF TypeOK
  <2>4. QED BY <1>7, <2>2, <2>3, ReplyType DEF Accept, TypeOK
<1>8. QED BY <1>1, <1>2, <1>3, <1>4, <1>5, <1>6, <1>7 DEF InviteOps

\* The initial state, and every step, have the types of the tables.
THEOREM TypeCorrect == Spec => []TypeOK
<1>1. Init => TypeOK
  BY AnsweredType DEF Init, TypeOK, OrgState, Replied
<1>2. TypeOK /\ [Next]_vars => TypeOK'
  <2>1. SUFFICES ASSUME TypeOK, [Next]_vars PROVE TypeOK' OBVIOUS
  <2>2. CASE Expire
    BY <2>1, <2>2 DEF Expire, TypeOK, Invitation
  <2>3. CASE UNCHANGED vars
    BY <2>1, <2>3 DEF vars, TypeOK
  <2>4. QED
    BY <2>1, <2>2, <2>3, AuthoriseType, OrgOpsType, MemberOpsType, InviteOpsType DEF Next
<1>3. QED BY <1>1, <1>2, PTL DEF Spec

----------------------------------------------------------------------------
(* One membership per user, and no orphans.                                *)

\* The inductive invariant: a new organization has no members yet because its
\* name had no rows, so that CreateOrg needs NoOrphans to keep UniqueMembership.
\* invite_member inserts the row it has built, so that NoOrphans also needs the
\* invitation a request holds to be of the request's organization.
InvitesOwnOrg == \A r \in Slot : \A i \in req[r].invite : i.org = req[r].org

Consistent == TypeOK /\ UniqueMembership /\ NoOrphans /\ InvitesOwnOrg

\* A request that keeps or loads invitations of its own organization.
LEMMA BecomeOwnOrg ==
  ASSUME TypeOK, InvitesOwnOrg, NEW r \in Slot, NEW q, Become(r, q),
         \A i \in q.invite : i.org = q.org
  PROVE  InvitesOwnOrg'
BY DEF Become, InvitesOwnOrg, TypeOK

\* Replying holds no invitation.
LEMMA ReplyOwnOrg ==
  ASSUME TypeOK, InvitesOwnOrg, NEW r \in Slot, Fail(r) \/ Succeed(r)
  PROVE  InvitesOwnOrg'
BY BecomeOwnOrg DEF Fail, Succeed, Answered

\* Moving on with the same invitations.
LEMMA MoveOwnOrg ==
  ASSUME TypeOK, InvitesOwnOrg, NEW r \in Slot, NEW q,
         Become(r, q), q.invite = req[r].invite, q.org = req[r].org
  PROVE  InvitesOwnOrg'
BY BecomeOwnOrg DEF InvitesOwnOrg

\* Every step keeps InvitesOwnOrg.
LEMMA OwnOrgStep ==
  ASSUME TypeOK, InvitesOwnOrg, Next PROVE InvitesOwnOrg'
<1>1. ASSUME NEW r \in Slot, Authorise(r) \/ OrgOps(r) \/ MemberOps(r) \/ Rollback(r)
      PROVE  InvitesOwnOrg'
  <2>0. req[r] \in Request BY DEF TypeOK
  <2>1. CASE Fail(r) \/ Succeed(r) BY <2>1, ReplyOwnOrg
  <2>2. ASSUME NEW pc, NEW u, NEW o,
               Become(r, [Answered(pc) EXCEPT !.user = u, !.org = o])
        PROVE  InvitesOwnOrg'
    BY <2>2, BecomeOwnOrg DEF Answered
  <2>3. ASSUME NEW pc, Become(r, [req[r] EXCEPT !.pc = pc]) PROVE InvitesOwnOrg'
    <3>1. [req[r] EXCEPT !.pc = pc].invite = req[r].invite
      BY <2>0 DEF Request, Session
    <3>2. [req[r] EXCEPT !.pc = pc].org = req[r].org
      BY <2>0 DEF Request, Session
    <3>3. QED BY <2>3, <3>1, <3>2, MoveOwnOrg
  <2>4. ASSUME NEW pc, NEW b, Become(r, [req[r] EXCEPT !.pc = pc, !.active = b])
        PROVE  InvitesOwnOrg'
    <3>1. [req[r] EXCEPT !.pc = pc, !.active = b].invite = req[r].invite
      BY <2>0 DEF Request, Session
    <3>2. [req[r] EXCEPT !.pc = pc, !.active = b].org = req[r].org
      BY <2>0 DEF Request, Session
    <3>3. QED BY <2>4, <3>1, <3>2, MoveOwnOrg
  <2>5. ASSUME NEW pc, NEW rows,
               \/ Become(r, [req[r] EXCEPT !.pc = pc, !.caller = rows])
               \/ Become(r, [req[r] EXCEPT !.pc = pc, !.target = rows])
        PROVE  InvitesOwnOrg'
    <3>1. /\ [req[r] EXCEPT !.pc = pc, !.caller = rows].invite = req[r].invite
          /\ [req[r] EXCEPT !.pc = pc, !.target = rows].invite = req[r].invite
      BY <2>0 DEF Request, Session
    <3>2. /\ [req[r] EXCEPT !.pc = pc, !.caller = rows].org = req[r].org
          /\ [req[r] EXCEPT !.pc = pc, !.target = rows].org = req[r].org
      BY <2>0 DEF Request, Session
    <3>3. QED BY <2>5, <3>1, <3>2, MoveOwnOrg
  <2>6. CASE Authorise(r) \/ Rollback(r)
    BY <2>1, <2>2, <2>5, <2>6 DEF Authorise, CheckOrg, CheckMember, Rollback
  <2>7. CASE OrgOps(r)
    BY <2>1, <2>2, <2>3, <2>4, <2>7
       DEF OrgOps, CreateOrgCheck, CreateOrg, UpdateOrgCheck, UpdateOrg, DeleteOrgCheck,
           DeleteOrg, Goto
  <2>8. CASE MemberOps(r)
    BY <2>1, <2>3, <2>5, <2>8
       DEF MemberOps, UpdateMemberCheck, UpdateMember, RemoveMemberCheck, RemoveMember,
           TransferCaller, TransferNewOwner, Transfer, TransferReply, Goto
  <2>9. QED BY <1>1, <2>6, <2>7, <2>8
<1>2. ASSUME NEW r \in Slot, InviteOps(r) PROVE InvitesOwnOrg'
  <2>0. req[r] \in Request BY DEF TypeOK
  <2>1. CASE Fail(r) \/ Succeed(r) BY <2>1, ReplyOwnOrg
  <2>2. ASSUME NEW pc, Become(r, [req[r] EXCEPT !.pc = pc]) PROVE InvitesOwnOrg'
    <3>1. [req[r] EXCEPT !.pc = pc].invite = req[r].invite
      BY <2>0 DEF Request, Session
    <3>2. [req[r] EXCEPT !.pc = pc].org = req[r].org
      BY <2>0 DEF Request, Session
    <3>3. QED BY <2>2, <3>1, <3>2, MoveOwnOrg
  <2>3. ASSUME NEW pc, NEW rows, \A i \in rows : i.org = req[r].org,
               Become(r, [req[r] EXCEPT !.pc = pc, !.invite = rows])
        PROVE  InvitesOwnOrg'
    <3>1. /\ [req[r] EXCEPT !.pc = pc, !.invite = rows].invite = rows
          /\ [req[r] EXCEPT !.pc = pc, !.invite = rows].org = req[r].org
      BY <2>0 DEF Request, Session
    <3>2. QED BY <2>3, <3>1, BecomeOwnOrg
  <2>4. CASE InviteCheck(r)
    <3>1. ASSUME NEW o, NEW u, NEW spelling, NEW role, NEW g, o = req[r].org,
                 Become(r, [req[r] EXCEPT !.pc = "invite",
                              !.invite = {[org |-> o, user |-> u, spelling |-> spelling,
                                           gen |-> g, role |-> role, accepted |-> FALSE,
                                           expired |-> FALSE]}])
          PROVE  InvitesOwnOrg'
      <4> DEFINE rows == {[org |-> o, user |-> u, spelling |-> spelling, gen |-> g,
                           role |-> role, accepted |-> FALSE, expired |-> FALSE]}
      <4>1. \A i \in rows : i.org = req[r].org BY <3>1
      <4>2. Become(r, [req[r] EXCEPT !.pc = "invite", !.invite = rows]) BY <3>1
      <4> HIDE DEF rows
      <4>3. QED BY <2>3, <4>1, <4>2
    <3>2. QED BY <2>1, <2>4, <3>1 DEF InviteCheck, Admitted
  <2>5. CASE RevokeCheck(r)
    BY <2>1, <2>3, <2>5 DEF RevokeCheck, Admitted
  <2>6. CASE AcceptInvite(r)
    <3>1. ASSUME NEW u, NEW i,
                 Become(r, [Answered("accept:member") EXCEPT !.user = u, !.org = i.org,
                                                             !.invite = {i}])
          PROVE  InvitesOwnOrg'
      BY <3>1, BecomeOwnOrg DEF Answered
    <3>2. QED BY <2>1, <2>6, <3>1 DEF AcceptInvite
  <2>7. QED
    BY <1>2, <2>1, <2>2, <2>4, <2>5, <2>6
       DEF InviteOps, Invite, Revoke, AcceptCheckMember, Accept, Goto
<1>3. CASE Expire BY <1>3 DEF Expire, InvitesOwnOrg
<1>4. QED BY <1>1, <1>2, <1>3 DEF Next

\* Flushing a role keeps both.
LEMMA SetRoleUnique ==
  ASSUME NEW table \in SUBSET OrgMember, NEW rows, NEW role,
         \A m, n \in table : m.org = n.org /\ m.user = n.user => m = n
  PROVE  \A m, n \in SetRole(table, rows, role) :
           m.org = n.org /\ m.user = n.user => m = n
<1>1. SUFFICES ASSUME NEW m \in SetRole(table, rows, role), NEW n \in SetRole(table, rows, role),
                      m.org = n.org, m.user = n.user
               PROVE  m = n
  OBVIOUS
<1>2. QED BY <1>1, SetRoleRows

\* Flushing a role makes no row of another organization.
LEMMA SetRoleOrgs ==
  ASSUME NEW table \in SUBSET OrgMember, NEW rows, NEW role \in Role,
         NEW n \in SetRole(table, rows, role)
  PROVE  \E m \in table : m.org = n.org
BY SetRoleRows

\* The routes on organizations keep one membership per user and no orphans.
LEMMA OrgOpsConsistent ==
  ASSUME Consistent, NEW r \in Slot, OrgOps(r) PROVE (UniqueMembership /\ NoOrphans)'
<1> USE DEF Consistent
<1>1. ASSUME UNCHANGED tables PROVE (UniqueMembership /\ NoOrphans)'
  BY <1>1 DEF tables, UniqueMembership, NoOrphans, Exists
<1>2. ASSUME CreateOrg(r) PROVE (UniqueMembership /\ NoOrphans)'
  <2>1. CASE orgs[req[r].org] # "absent"
    BY <1>1, <1>2, <2>1 DEF CreateOrg, tables
  <2>2. CASE orgs[req[r].org] = "absent"
    <3>1. req[r].org \in Org
      BY <1>2 DEF CreateOrg, At, TypeOK, Request, Replied
    <3>2. PICK g \in Gen : members' = members \cup
            {[org |-> req[r].org, user |-> req[r].user, gen |-> g, role |-> "owner"]}
      BY <1>2, <2>2 DEF CreateOrg
    <3>3. \A m \in members : m.org # req[r].org
      BY <2>2 DEF NoOrphans, Exists
    <3>4. UniqueMembership'
      BY <3>2, <3>3 DEF UniqueMembership
    <3>5. orgs' = [orgs EXCEPT ![req[r].org] = "active"] /\ invites' = invites
      BY <1>2, <2>2 DEF CreateOrg
    <3>6. \A o : Exists(o) => Exists(o)'
      BY <3>1, <3>5 DEF Exists, TypeOK
    <3>7. \A row \in members : Exists(row.org)'
      BY <3>6 DEF NoOrphans
    <3>8. orgs'[req[r].org] = "active"
      BY <3>1, <3>5 DEF Exists, TypeOK
    <3>9. NoOrphans'
      BY <3>2, <3>5, <3>6, <3>7, <3>8 DEF NoOrphans, Exists
    <3>10. QED BY <3>4, <3>9
  <2>3. QED BY <2>1, <2>2
<1>3. ASSUME UpdateOrg(r) PROVE (UniqueMembership /\ NoOrphans)'
  <2>1. \A o \in Org : Exists(o) => Exists(o)'
    BY <1>3 DEF UpdateOrg, Exists, TypeOK
  <2>2. \A row \in members \cup invites : row.org \in Org
    BY DEF TypeOK, OrgMember, Invitation
  <2>3. members' = members /\ invites' = invites
    BY <1>3 DEF UpdateOrg
  <2>4. QED BY <2>1, <2>2, <2>3 DEF UniqueMembership, NoOrphans
<1>4. ASSUME DeleteOrg(r) PROVE (UniqueMembership /\ NoOrphans)'
  <2>1. \A o \in Org : o # req[r].org /\ Exists(o) => Exists(o)'
    BY <1>4 DEF DeleteOrg, Exists, TypeOK
  <2>2. \A row \in members \cup invites : row.org \in Org
    BY DEF TypeOK, OrgMember, Invitation
  <2>3. \A row \in members' \cup invites' : row \in members \cup invites /\ row.org # req[r].org
    BY <1>4 DEF DeleteOrg
  <2>4. NoOrphans' BY <2>1, <2>2, <2>3 DEF NoOrphans
  <2>5. UniqueMembership' BY <1>4 DEF DeleteOrg, UniqueMembership
  <2>6. QED BY <2>4, <2>5
<1>5. QED
  BY <1>1, <1>2, <1>3, <1>4 DEF OrgOps, CreateOrgCheck, UpdateOrgCheck, DeleteOrgCheck

\* So do the routes on members.
LEMMA MemberOpsConsistent ==
  ASSUME Consistent, NEW r \in Slot, MemberOps(r) PROVE (UniqueMembership /\ NoOrphans)'
<1> USE DEF Consistent
<1>1. ASSUME UNCHANGED tables PROVE (UniqueMembership /\ NoOrphans)'
  BY <1>1 DEF tables, UniqueMembership, NoOrphans, Exists
<1>2. ASSUME UNCHANGED <<orgs, invites>>, UniqueMembership',
             \A n \in members' : \E m \in members : m.org = n.org
      PROVE  (UniqueMembership /\ NoOrphans)'
  BY <1>2 DEF NoOrphans, Exists
<1>3. ASSUME UpdateMember(r) PROVE (UniqueMembership /\ NoOrphans)'
  <2>1. CASE members' = members
    BY <1>1, <1>3, <2>1 DEF UpdateMember, tables
  <2>2. ASSUME NEW role \in PayloadRole, members' = SetRole(members, req[r].target, role)
        PROVE  (UniqueMembership /\ NoOrphans)'
    <3>1. role \in Role /\ members \in SUBSET OrgMember
      BY OrgAssumption DEF ASSIGNABLE_ROLES, TypeOK
    <3>2. UniqueMembership'
      BY <2>2, <3>1, SetRoleUnique DEF UniqueMembership
    <3>3. \A n \in members' : \E m \in members : m.org = n.org
      BY <2>2, <3>1, SetRoleOrgs
    <3>4. QED BY <1>2, <1>3, <3>2, <3>3 DEF UpdateMember
  <2>3. QED BY <1>3, <2>1, <2>2 DEF UpdateMember
<1>4. ASSUME RemoveMember(r) PROVE (UniqueMembership /\ NoOrphans)'
  <2>1. members' \subseteq members BY <1>4 DEF RemoveMember, Without
  <2>2. UniqueMembership' BY <2>1 DEF UniqueMembership
  <2>3. QED BY <1>2, <1>4, <2>1, <2>2 DEF RemoveMember
<1>5. ASSUME Transfer(r) PROVE (UniqueMembership /\ NoOrphans)'
  <2>1. CASE members' = members
    BY <1>1, <1>5, <2>1 DEF Transfer, tables
  <2> DEFINE demoted == SetRole(members, Demoted(r), "admin")
  <2>2. CASE members' = SetRole(demoted, req[r].target, "owner")
    <3>1. /\ members \in SUBSET OrgMember /\ "admin" \in Role /\ "owner" \in Role
      BY DEF TypeOK, Role
    <3>2. demoted \in SUBSET OrgMember BY <3>1, SetRoleType
    <3>3. \A m, n \in demoted : m.org = n.org /\ m.user = n.user => m = n
      BY <3>1, SetRoleUnique DEF UniqueMembership
    <3>4. UniqueMembership'
      <4> HIDE DEF demoted
      <4>1. QED BY <2>2, <3>2, <3>3, SetRoleUnique DEF UniqueMembership
    <3>5. \A n \in demoted : \E m \in members : m.org = n.org
      BY <3>1, SetRoleOrgs
    <3>6. \A n \in members' : \E m \in demoted : m.org = n.org
      <4> HIDE DEF demoted
      <4>1. QED BY <2>2, <3>1, <3>2, SetRoleOrgs
    <3>7. \A n \in members' : \E m \in members : m.org = n.org
      BY <3>5, <3>6
    <3>8. QED BY <1>2, <1>5, <3>4, <3>7 DEF Transfer
  <2>3. QED BY <1>5, <2>1, <2>2 DEF Transfer
<1>6. QED
  BY <1>1, <1>3, <1>4, <1>5
     DEF MemberOps, UpdateMemberCheck, RemoveMemberCheck, TransferCaller, TransferNewOwner,
         TransferReply

\* So do the routes on invitations, by the unique and foreign keys.
LEMMA InviteOpsConsistent ==
  ASSUME Consistent, NEW r \in Slot, InviteOps(r) PROVE (UniqueMembership /\ NoOrphans)'
<1> USE DEF Consistent
<1>1. ASSUME UNCHANGED tables PROVE (UniqueMembership /\ NoOrphans)'
  BY <1>1 DEF tables, UniqueMembership, NoOrphans, Exists
<1>2. ASSUME Invite(r) PROVE (UniqueMembership /\ NoOrphans)'
  <2>1. \A i \in req[r].invite : i.org = req[r].org
    BY DEF InvitesOwnOrg
  <2>2. QED
    BY <1>1, <1>2, <2>1
       DEF Invite, ForeignKey, tables, UniqueMembership, NoOrphans, Exists
<1>3. ASSUME Revoke(r) PROVE (UniqueMembership /\ NoOrphans)'
  BY <1>3 DEF Revoke, Without, UniqueMembership, NoOrphans, Exists
<1>4. ASSUME Accept(r) PROVE (UniqueMembership /\ NoOrphans)'
  <2>1. CASE UNCHANGED <<members, invites>>
    BY <1>1, <1>4, <2>1 DEF Accept, tables
  <2>2. ASSUME MemberRows(req[r].org, req[r].user) = {}, Exists(req[r].org),
               NEW g \in Gen, NEW i \in req[r].invite,
               members' = members \cup
                 {[org |-> req[r].org, user |-> req[r].user, gen |-> g, role |-> i.role]},
               invites' = {IF InTable(j, req[r].invite)
                             THEN [j EXCEPT !.accepted = TRUE] ELSE j : j \in invites}
        PROVE  (UniqueMembership /\ NoOrphans)'
    <3>1. UniqueMembership'
      BY <2>2 DEF UniqueMembership, MemberRows
    <3>2. \A j \in invites' : \E k \in invites : j.org = k.org
      BY <2>2 DEF TypeOK, Invitation
    <3>3. orgs' = orgs BY <1>4 DEF Accept
    <3>4. NoOrphans'
      BY <2>2, <3>2, <3>3 DEF NoOrphans, Exists
    <3>5. QED BY <3>1, <3>4
  <2>3. QED BY <1>4, <2>1, <2>2 DEF Accept, UniqueKey, ForeignKey
<1>5. QED
  BY <1>1, <1>2, <1>3, <1>4 DEF InviteOps, InviteCheck, RevokeCheck, AcceptInvite, AcceptCheckMember

\* The inductive invariant holds.
LEMMA ConsistentInvariant == Spec => []Consistent
<1>1. Init => UniqueMembership /\ NoOrphans /\ InvitesOwnOrg
  BY DEF Init, UniqueMembership, NoOrphans, InvitesOwnOrg, Answered
<1>2. TypeOK /\ UniqueMembership /\ NoOrphans /\ InvitesOwnOrg /\ [Next]_vars
        => (UniqueMembership /\ NoOrphans /\ InvitesOwnOrg)'
  <2>1. SUFFICES ASSUME Consistent, [Next]_vars
                 PROVE  (UniqueMembership /\ NoOrphans)' /\ InvitesOwnOrg'
    BY DEF Consistent
  <2>2. ASSUME UNCHANGED tables PROVE (UniqueMembership /\ NoOrphans)'
    BY <2>1, <2>2 DEF Consistent, tables, UniqueMembership, NoOrphans, Exists
  <2>3. CASE Expire
    <3>1. UNCHANGED <<orgs, members>> BY <2>3 DEF Expire
    <3>2. \A j \in invites' : \E k \in invites : j.org = k.org
      BY <2>1, <2>3 DEF Expire, Consistent, TypeOK, Invitation
    <3>3. (UniqueMembership /\ NoOrphans)'
      BY <2>1, <3>1, <3>2 DEF Consistent, UniqueMembership, NoOrphans, Exists
    <3>4. QED BY <2>1, <2>3, <3>3, OwnOrgStep DEF Next, Consistent
  <2>4. ASSUME NEW r \in Slot, Authorise(r) \/ Rollback(r)
        PROVE  (UniqueMembership /\ NoOrphans)'
    BY <2>2, <2>4 DEF Authorise, CheckOrg, CheckMember, Rollback
  <2>5. CASE UNCHANGED vars
    BY <2>1, <2>2, <2>5 DEF vars, tables, InvitesOwnOrg, Consistent
  <2>6. CASE Next
    <3>1. InvitesOwnOrg' BY <2>1, <2>6, OwnOrgStep DEF Consistent
    <3>2. QED
      BY <2>1, <2>3, <2>4, <2>6, <3>1, OrgOpsConsistent, MemberOpsConsistent,
         InviteOpsConsistent DEF Next
  <2>7. QED BY <2>1, <2>5, <2>6
<1>3. QED BY <1>1, <1>2, TypeCorrect, PTL DEF Spec, Consistent

\* Checking for a membership and inserting it are two statements, and still no
\* interleaving of requests gives a user two memberships of an organization.
THEOREM UniqueMembershipHolds == Spec => []UniqueMembership
BY ConsistentInvariant, PTL DEF Consistent

\* No interleaving leaves a row behind when its organization is deleted.
THEOREM NoOrphansHolds == Spec => []NoOrphans
BY ConsistentInvariant, PTL DEF Consistent

----------------------------------------------------------------------------
(* Suspension.                                                             *)

\* A slot that does not work for o behind the gate, and does not get there.
LEMMA LockedSlots ==
  ASSUME TypeOK, NEW o \in Org, Locked(o), NEW r \in Slot, NEW q, Become(r, q),
         q.pc \in Gated => q.org # o, orgs'[o] = "suspended"
  PROVE  Locked(o)'
BY DEF Locked, Become, TypeOK

\* Replying leaves the gate.
LEMMA LockedReply ==
  ASSUME TypeOK, NEW o \in Org, Locked(o), NEW r \in Slot, Fail(r) \/ Succeed(r),
         orgs'[o] = "suspended"
  PROVE  Locked(o)'
BY LockedSlots DEF Fail, Succeed, Answered, Gated

\* No step takes a locked organization out of its suspension.
LEMMA LockedOrgs ==
  ASSUME TypeOK, NEW o \in Org, Locked(o), Next
  PROVE  orgs'[o] = "suspended"
<1>1. ASSUME NEW r \in Slot, CreateOrg(r) PROVE orgs'[o] = "suspended"
  BY <1>1 DEF CreateOrg, Locked, TypeOK
<1>2. ASSUME NEW r \in Slot, UpdateOrg(r) PROVE orgs'[o] = "suspended"
  <2>1. req[r].org # o BY <1>2 DEF UpdateOrg, At, Locked, Gated
  <2>2. QED BY <1>2, <2>1 DEF UpdateOrg, Locked, TypeOK
<1>3. ASSUME NEW r \in Slot, DeleteOrg(r) PROVE orgs'[o] = "suspended"
  <2>1. req[r].org # o BY <1>3 DEF DeleteOrg, At, Locked, Gated
  <2>2. QED BY <1>3, <2>1 DEF DeleteOrg, Locked, TypeOK
<1>4. CASE orgs' = orgs BY <1>4 DEF Locked
<1>5. ASSUME NEW r \in Slot, MemberOps(r) PROVE orgs' = orgs
  BY <1>5 DEF MemberOps, UpdateMemberCheck, UpdateMember, RemoveMemberCheck, RemoveMember,
              TransferCaller, TransferNewOwner, Transfer, TransferReply, tables
<1>6. ASSUME NEW r \in Slot, InviteOps(r) PROVE orgs' = orgs
  BY <1>6 DEF InviteOps, InviteCheck, Invite, RevokeCheck, Revoke, AcceptInvite,
              AcceptCheckMember, Accept, tables
<1>7. ASSUME NEW r \in Slot, Authorise(r) \/ Rollback(r) PROVE orgs' = orgs
  BY <1>7 DEF Authorise, CheckOrg, CheckMember, Rollback, tables
<1>8. ASSUME NEW r \in Slot, OrgOps(r) PROVE orgs'[o] = "suspended"
  BY <1>1, <1>2, <1>3, <1>4, <1>8
     DEF OrgOps, CreateOrgCheck, UpdateOrgCheck, DeleteOrgCheck, tables
<1>9. CASE Expire BY <1>4, <1>9 DEF Expire
<1> QED BY <1>4, <1>5, <1>6, <1>7, <1>8, <1>9 DEF Next

\* Every step keeps an organization locked.
LEMMA LockedStep ==
  ASSUME TypeOK, NEW o \in Org, Locked(o), Next
  PROVE  Locked(o)'
<1>0. orgs'[o] = "suspended" BY LockedOrgs
<1>1. ASSUME NEW r \in Slot, Fail(r) \/ Succeed(r) PROVE Locked(o)'
  BY <1>0, <1>1, LockedReply
\* Behind the gate a request keeps the organization it had.
<1>2. ASSUME NEW r \in Slot, req[r].pc \in Gated,
             \E q : Become(r, q) /\ q.org = req[r].org
      PROVE  Locked(o)'
  BY <1>0, <1>2, LockedSlots DEF Locked
\* Outside it, it stays outside.
<1>3. ASSUME NEW r \in Slot, \E q : Become(r, q) /\ q.pc \notin Gated
      PROVE  Locked(o)'
  BY <1>0, <1>3, LockedSlots
<1>4. ASSUME NEW r \in Slot, CheckOrg(r) PROVE Locked(o)'
  <2>1. PICK u \in User, p \in Org :
          \/ OrgActive(p) /\ Become(r, [Answered("member") EXCEPT !.user = u, !.org = p])
          \/ Fail(r)
    BY <1>4 DEF CheckOrg
  <2>2. ASSUME OrgActive(p), Become(r, [Answered("member") EXCEPT !.user = u, !.org = p])
        PROVE  Locked(o)'
    <3>1. p # o BY <2>2 DEF OrgActive, Locked
    <3>2. [Answered("member") EXCEPT !.user = u, !.org = p].org = p BY DEF Answered
    <3>3. QED BY <1>0, <2>2, <3>1, <3>2, LockedSlots
  <2>3. QED BY <1>1, <2>1, <2>2
<1>5. ASSUME NEW r \in Slot, req[r].pc \in Gated, NEW pc,
             \/ Goto(r, pc)
             \/ \E x : \/ Become(r, [req[r] EXCEPT !.pc = pc, !.active = x])
                     \/ Become(r, [req[r] EXCEPT !.pc = pc, !.caller = x])
                     \/ Become(r, [req[r] EXCEPT !.pc = pc, !.target = x])
                     \/ Become(r, [req[r] EXCEPT !.pc = pc, !.invite = x])
      PROVE  Locked(o)'
  <2>1. req[r] \in Request BY DEF TypeOK
  <2>2. [req[r] EXCEPT !.pc = pc].org = req[r].org
    BY <2>1 DEF Request, Session
  <2>3. ASSUME NEW x
        PROVE  /\ [req[r] EXCEPT !.pc = pc, !.active = x].org = req[r].org
               /\ [req[r] EXCEPT !.pc = pc, !.caller = x].org = req[r].org
               /\ [req[r] EXCEPT !.pc = pc, !.target = x].org = req[r].org
               /\ [req[r] EXCEPT !.pc = pc, !.invite = x].org = req[r].org
    BY <2>1 DEF Request, Session
  <2>4. QED BY <1>2, <1>5, <2>2, <2>3 DEF Goto
<1>6. ASSUME NEW r \in Slot, CheckMember(r) PROVE Locked(o)'
  BY <1>1, <1>5, <1>6 DEF CheckMember, At, Gated
<1>7. ASSUME NEW r \in Slot, OrgOps(r) PROVE Locked(o)'
  <2>1. CASE CreateOrgCheck(r)
    <3>1. \A u, p : [Answered("create_org") EXCEPT !.user = u, !.org = p].pc \notin Gated
      BY DEF Answered, Gated
    <3>2. QED BY <1>1, <1>3, <2>1, <3>1 DEF CreateOrgCheck
  <2>2. CASE UpdateOrgCheck(r) \/ DeleteOrgCheck(r)
    BY <1>1, <1>5, <2>2 DEF UpdateOrgCheck, DeleteOrgCheck, At, Gated
  <2>3. CASE CreateOrg(r) \/ UpdateOrg(r) \/ DeleteOrg(r)
    BY <1>1, <2>3 DEF CreateOrg, UpdateOrg, DeleteOrg
  <2>4. QED BY <1>7, <2>1, <2>2, <2>3 DEF OrgOps
<1>8. ASSUME NEW r \in Slot, MemberOps(r) PROVE Locked(o)'
  <2>1. CASE UpdateMemberCheck(r) \/ RemoveMemberCheck(r)
    BY <1>1, <1>5, <2>1 DEF UpdateMemberCheck, RemoveMemberCheck, At, Gated
  <2>2. CASE TransferCaller(r) \/ TransferNewOwner(r)
    BY <1>1, <1>5, <2>2 DEF TransferCaller, TransferNewOwner, At, Gated
  <2>3. CASE Transfer(r)
    BY <1>1, <1>5, <2>3 DEF Transfer, At, Gated
  <2>4. CASE UpdateMember(r) \/ RemoveMember(r) \/ TransferReply(r)
    BY <1>1, <2>4 DEF UpdateMember, RemoveMember, TransferReply
  <2>5. QED BY <1>8, <2>1, <2>2, <2>3, <2>4 DEF MemberOps
<1>9. ASSUME NEW r \in Slot, InviteOps(r) PROVE Locked(o)'
  <2>1. CASE InviteCheck(r)
    BY <1>1, <1>5, <2>1 DEF InviteCheck, At, Gated
  <2>2. CASE RevokeCheck(r)
    BY <1>1, <1>5, <2>2 DEF RevokeCheck, At, Gated
  <2>3. CASE AcceptInvite(r)
    <3>1. \A u, i : [Answered("accept:member") EXCEPT !.user = u, !.org = i.org,
                                                     !.invite = {i}].pc \notin Gated
      BY DEF Answered, Gated
    <3>2. QED BY <1>1, <1>3, <2>3, <3>1 DEF AcceptInvite
  <2>4. CASE AcceptCheckMember(r)
    <3>1. [req[r] EXCEPT !.pc = "accept"].pc \notin Gated
      BY DEF TypeOK, Request, Session, Gated
    <3>2. QED BY <1>1, <1>3, <2>4, <3>1 DEF AcceptCheckMember, Goto
  <2>5. CASE Invite(r) \/ Revoke(r) \/ Accept(r)
    BY <1>1, <2>5 DEF Invite, Revoke, Accept
  <2>6. QED BY <1>9, <2>1, <2>2, <2>3, <2>4, <2>5 DEF InviteOps
<1>10. ASSUME NEW r \in Slot, Rollback(r) PROVE Locked(o)'
  BY <1>1, <1>10 DEF Rollback
<1>11. CASE Expire
  BY <1>0, <1>11 DEF Expire, Locked
<1>12. QED
  BY <1>4, <1>6, <1>7, <1>8, <1>9, <1>10, <1>11 DEF Next, Authorise

\* Nobody reactivates an organization whose last admitted request has ended,
\* however many requests are in flight: the check of require_org_member and the
\* write of is_active need not be atomic for that.
THEOREM SuspensionIsFinalHolds == Spec => SuspensionIsFinal
<1>1. TypeOK /\ [Next]_vars => [\A o \in Org : Locked(o) => Locked(o)']_vars
  BY LockedStep
<1>2. QED BY <1>1, TypeCorrect, PTL DEF Spec, SuspensionIsFinal

----------------------------------------------------------------------------
(* Joining.                                                                *)

\* Rows of invitations with the same primary key, wherever they are held, name the
\* same role: a session's copy of a row never becomes that of another row, because
\* a new key is one that no table and no session knows.
SameRole == \A i, j \in KnownInvites : Key(i) = Key(j) => i.role = j.role

\* A request that accepts holds an invitation to its own user.
Accepting == {"accept:member", "accept"}
Addressed == \A r \in Slot : req[r].pc \in Accepting => \A i \in req[r].invite : i.user = req[r].user

\* What a step leaves of an invitation is known already.
Traced(i) == \E k \in KnownInvites : Key(k) = Key(i) /\ k.role = i.role

\* What sessions and the table hold when one request moves on.
LEMMA KnownAfter ==
  ASSUME TypeOK, NEW r \in Slot, NEW q, Become(r, q),
         \A i \in invites' \cup q.invite : Traced(i)
  PROVE  \A i \in KnownInvites' : Traced(i)
<1> SUFFICES ASSUME NEW i \in KnownInvites' PROVE Traced(i) OBVIOUS
<1>1. CASE i \in invites' BY <1>1
<1>2. ASSUME NEW s \in Slot, i \in req'[s].invite PROVE Traced(i)
  <2>1. CASE s = r BY <1>2, <2>1 DEF Become, TypeOK
  <2>2. CASE s # r
    <3>1. i \in req[s].invite BY <1>2, <2>2 DEF Become, TypeOK
    <3>2. i \in KnownInvites BY <3>1 DEF KnownInvites
    <3> QED BY <3>2 DEF Traced
  <2> QED BY <2>1, <2>2
<1> QED BY <1>1, <1>2 DEF KnownInvites

\* Rows that are traced to known ones agree as those did.
LEMMA TracedAgree ==
  ASSUME SameRole, \A i \in KnownInvites' : Traced(i) PROVE SameRole'
<1> SUFFICES ASSUME NEW i \in KnownInvites', NEW j \in KnownInvites', Key(i) = Key(j)
             PROVE  i.role = j.role
  BY DEF SameRole, Key
<1>1. PICK k \in KnownInvites : Key(k) = Key(i) /\ k.role = i.role BY DEF Traced
<1>2. PICK l \in KnownInvites : Key(l) = Key(j) /\ l.role = j.role BY DEF Traced
<1> QED BY <1>1, <1>2 DEF SameRole

\* Every step but invite_member's makes its invitations from known ones.
LEMMA InvitesTraced ==
  ASSUME TypeOK, NEW r \in Slot,
         Authorise(r) \/ OrgOps(r) \/ MemberOps(r) \/ InviteOps(r) \/ Rollback(r) \/ Expire
  PROVE  \A i \in invites' : Traced(i)
<1>1. \A i \in invites : Traced(i) BY DEF KnownInvites, Traced
<1>2. \A i \in req[r].invite : Traced(i)
  <2>1. req[r].invite \subseteq KnownInvites BY DEF KnownInvites
  <2> QED BY <2>1 DEF Traced
<1>3. \A i \in invites : Key([i EXCEPT !.accepted = TRUE]) = Key(i)
                         /\ [i EXCEPT !.accepted = TRUE].role = i.role
                         /\ Key([i EXCEPT !.expired = TRUE]) = Key(i)
                         /\ [i EXCEPT !.expired = TRUE].role = i.role
  BY DEF TypeOK, Invitation, Key
<1>a. ASSUME NEW i \in invites, NEW j, Key(j) = Key(i), j.role = i.role PROVE Traced(j)
  BY <1>1, <1>a DEF Traced
<1>b. \A i \in invites : Traced([i EXCEPT !.accepted = TRUE])
                         /\ Traced([i EXCEPT !.expired = TRUE])
  BY <1>3, <1>a
<1>4. CASE invites' \subseteq invites BY <1>1, <1>4
<1>5. CASE Invite(r) BY <1>1, <1>2, <1>5 DEF Invite
<1>6. CASE Accept(r)
  <2>1. CASE invites' = invites BY <1>1, <2>1
  <2>2. CASE invites' = {IF InTable(i, req[r].invite)
                           THEN [i EXCEPT !.accepted = TRUE] ELSE i : i \in invites}
    BY <1>1, <1>b, <2>2
  <2> QED BY <1>6, <2>1, <2>2 DEF Accept
<1>7. CASE Expire BY <1>1, <1>b, <1>7 DEF Expire
<1> QED
  BY <1>4, <1>5, <1>6, <1>7
     DEF Authorise, CheckOrg, CheckMember, Rollback, OrgOps, CreateOrgCheck, CreateOrg,
         UpdateOrgCheck, UpdateOrg, DeleteOrgCheck, DeleteOrg, MemberOps, UpdateMemberCheck,
         UpdateMember, RemoveMemberCheck, RemoveMember, TransferCaller, TransferNewOwner,
         Transfer, TransferReply, InviteOps, InviteCheck, RevokeCheck, Revoke, Without,
         AcceptInvite, AcceptCheckMember, tables

\* invite_member builds a row whose key nobody knows.
LEMMA InviteCheckAgrees ==
  ASSUME TypeOK, SameRole, NEW r \in Slot, InviteCheck(r) PROVE SameRole'
<1>1. \A i \in invites' : Traced(i) BY InvitesTraced DEF InviteOps
<1>2. req[r] \in Request BY DEF TypeOK
<1>3. CASE Fail(r)
  <2>1. \A i \in Answered("failed").invite : Traced(i) BY DEF Answered
  <2>2. \A i \in KnownInvites' : Traced(i) BY <1>1, <1>3, <2>1, KnownAfter DEF Fail
  <2> QED BY <2>2, TracedAgree
<1>4. ASSUME NEW o \in Org, NEW u \in Invitee, NEW spelling \in Spelling,
             NEW role \in PayloadRole, NEW g \in Gen, NextGen(g, KnownInvites, o, u),
             Become(r, [req[r] EXCEPT !.pc = "invite",
                          !.invite = {[org |-> o, user |-> u, spelling |-> spelling,
                                       gen |-> g, role |-> role, accepted |-> FALSE,
                                       expired |-> FALSE]}])
      PROVE  SameRole'
  <2>1. PICK n : n = [org |-> o, user |-> u, spelling |-> spelling, gen |-> g, role |-> role,
                      accepted |-> FALSE, expired |-> FALSE]
    OBVIOUS
  <2>2. n.org = o /\ n.user = u /\ n.gen = g BY <2>1
  <2>3. \A k \in KnownInvites : Key(k) # Key(n) BY <1>4, <2>2 DEF NextGen, Key
  <2>4. \A i \in KnownInvites' : Traced(i) \/ i = n
    <3> SUFFICES ASSUME NEW i \in KnownInvites' PROVE Traced(i) \/ i = n OBVIOUS
    <3>1. CASE i \in invites' BY <1>1, <3>1
    <3>2. ASSUME NEW s \in Slot, i \in req'[s].invite PROVE Traced(i) \/ i = n
      <4>1. CASE s = r BY <1>2, <1>4, <2>1, <3>2, <4>1 DEF Become, TypeOK, Request, Session
      <4>2. CASE s # r
        <5>1. i \in req[s].invite BY <1>4, <3>2, <4>2 DEF Become, TypeOK
        <5>2. i \in KnownInvites BY <5>1 DEF KnownInvites
        <5> QED BY <5>2 DEF Traced
      <4> QED BY <4>1, <4>2
    <3> QED BY <3>1, <3>2 DEF KnownInvites
  <2>5. \A i \in KnownInvites' : Key(i) = Key(n) => i = n BY <2>3, <2>4 DEF Traced
  <2>6. \A i, j \in KnownInvites' : Traced(i) /\ Traced(j) /\ Key(i) = Key(j)
                                      => i.role = j.role
    BY DEF Traced, SameRole
  <2>7. \A i, j \in KnownInvites' : Key(i) = Key(j) => i.role = j.role
    BY <2>4, <2>5, <2>6
  <2> QED BY <2>7 DEF SameRole, Key
<1> QED BY <1>3, <1>4 DEF InviteCheck

\* What a request holds after it has moved on, invite_member apart.
LEMMA HeldAfter ==
  ASSUME TypeOK, NEW r \in Slot,
         Authorise(r) \/ OrgOps(r) \/ MemberOps(r) \/ InviteOps(r) \/ Rollback(r),
         ~InviteCheck(r)
  PROVE  \E q : /\ Become(r, q) /\ q.pc # "invite"
                /\ q.invite \subseteq req[r].invite \cup invites
                /\ \/ q.pc \notin Accepting
                   \/ \A i \in q.invite : i \in invites /\ Acceptable(i, q.user)
                   \/ req[r].pc \in Accepting /\ q.user = req[r].user /\ q.invite = req[r].invite
<1>1. req[r] \in Request BY DEF TypeOK
<1> DEFINE Goal == \E q : /\ Become(r, q) /\ q.pc # "invite"
                          /\ q.invite \subseteq req[r].invite \cup invites
                          /\ \/ q.pc \notin Accepting
                             \/ \A i \in q.invite : i \in invites /\ Acceptable(i, q.user)
                             \/ req[r].pc \in Accepting /\ q.user = req[r].user
                                  /\ q.invite = req[r].invite
<1> SUFFICES Goal OBVIOUS
<1>a. ASSUME NEW q, Become(r, q), q.pc \notin Accepting, q.pc # "invite",
             q.invite \subseteq req[r].invite \cup invites
      PROVE  Goal
  BY <1>a
<1>2. CASE Fail(r) \/ Succeed(r)
  <2>1. \A reply \in Replied : Answered(reply).invite = {} /\ Answered(reply).pc = reply
    BY DEF Answered
  <2> QED BY <1>2, <2>1 DEF Fail, Succeed, Replied, Accepting
<1> HIDE DEF Goal
<1>3. ASSUME NEW pc, pc \notin Accepting, pc # "invite", NEW u, NEW o,
             Become(r, [Answered(pc) EXCEPT !.user = u, !.org = o])
      PROVE  Goal
  <2>1. /\ [Answered(pc) EXCEPT !.user = u, !.org = o].invite = {}
        /\ [Answered(pc) EXCEPT !.user = u, !.org = o].pc = pc
    BY DEF Answered
  <2> QED BY <1>3, <1>a, <2>1
<1>4. ASSUME NEW pc, pc \notin Accepting, pc # "invite",
             \/ Goto(r, pc)
             \/ \E x : \/ Become(r, [req[r] EXCEPT !.pc = pc, !.active = x])
                       \/ Become(r, [req[r] EXCEPT !.pc = pc, !.caller = x])
                       \/ Become(r, [req[r] EXCEPT !.pc = pc, !.target = x])
      PROVE  Goal
  <2>1. [req[r] EXCEPT !.pc = pc].invite = req[r].invite /\ [req[r] EXCEPT !.pc = pc].pc = pc
    BY <1>1 DEF Request, Session
  <2>2. ASSUME NEW x
        PROVE  /\ [req[r] EXCEPT !.pc = pc, !.active = x].invite = req[r].invite
               /\ [req[r] EXCEPT !.pc = pc, !.active = x].pc = pc
               /\ [req[r] EXCEPT !.pc = pc, !.caller = x].invite = req[r].invite
               /\ [req[r] EXCEPT !.pc = pc, !.caller = x].pc = pc
               /\ [req[r] EXCEPT !.pc = pc, !.target = x].invite = req[r].invite
               /\ [req[r] EXCEPT !.pc = pc, !.target = x].pc = pc
    BY <1>1 DEF Request, Session
  <2> QED BY <1>4, <1>a, <2>1, <2>2 DEF Goto
<1>b. ASSUME NEW pc, pc \notin Accepting, pc # "invite", NEW i \in invites,
             Become(r, [req[r] EXCEPT !.pc = pc, !.invite = {i}])
      PROVE  Goal
  <2>1. /\ [req[r] EXCEPT !.pc = pc, !.invite = {i}].invite = {i}
        /\ [req[r] EXCEPT !.pc = pc, !.invite = {i}].pc = pc
    BY <1>1 DEF Request, Session
  <2> QED BY <1>a, <1>b, <2>1
<1>5. CASE AcceptInvite(r)
  <2>1. ASSUME NEW u \in Invitee, NEW i \in invites, Acceptable(i, u),
               Become(r, [Answered("accept:member") EXCEPT !.user = u, !.org = i.org,
                                                           !.invite = {i}])
        PROVE  Goal
    <3> DEFINE q == [Answered("accept:member") EXCEPT !.user = u, !.org = i.org, !.invite = {i}]
    <3>1. q.invite = {i} /\ q.user = u /\ q.pc = "accept:member" BY DEF Answered
    <3>2. i \in invites /\ Acceptable(i, u) BY <2>1
    <3> HIDE DEF q
    <3>3. Become(r, q) BY <2>1 DEF q
    <3> QED BY <3>1, <3>2, <3>3 DEF Goal
  <2> QED BY <1>2, <1>5, <2>1 DEF AcceptInvite
<1>6. CASE AcceptCheckMember(r)
  <2>1. CASE Goto(r, "accept")
    <3>1. /\ [req[r] EXCEPT !.pc = "accept"].invite = req[r].invite
          /\ [req[r] EXCEPT !.pc = "accept"].user = req[r].user
          /\ [req[r] EXCEPT !.pc = "accept"].pc = "accept"
      BY <1>1 DEF Request, Session
    <3>2. req[r].pc \in Accepting BY <1>6 DEF AcceptCheckMember, At, Accepting
    <3> QED BY <2>1, <3>1, <3>2 DEF Goto, Goal
  <2> QED BY <1>2, <1>6, <2>1 DEF AcceptCheckMember
<1>7. CASE Authorise(r) \/ Rollback(r)
  <2>1. CASE CheckOrg(r)
    <3>1. "member" \notin Accepting BY DEF Accepting
    <3> QED BY <1>2, <1>3, <2>1, <3>1 DEF CheckOrg
  <2>2. CASE CheckMember(r)
    <3>1. "authorised" \notin Accepting BY DEF Accepting
    <3> QED BY <1>2, <1>4, <2>2, <3>1 DEF CheckMember
  <2> QED BY <1>2, <1>7, <2>1, <2>2 DEF Authorise, Rollback
<1>8. CASE OrgOps(r)
  <2>1. CASE CreateOrgCheck(r)
    <3>1. "create_org" \notin Accepting BY DEF Accepting
    <3> QED BY <1>2, <1>3, <2>1, <3>1 DEF CreateOrgCheck
  <2>2. "update_org" \notin Accepting /\ "delete_org" \notin Accepting BY DEF Accepting
  <2>3. CASE UpdateOrgCheck(r) BY <1>2, <1>4, <2>2, <2>3 DEF UpdateOrgCheck
  <2>4. CASE DeleteOrgCheck(r) BY <1>2, <1>4, <2>2, <2>4 DEF DeleteOrgCheck
  <2>5. CASE CreateOrg(r) \/ UpdateOrg(r) \/ DeleteOrg(r)
    BY <1>2, <2>5 DEF CreateOrg, UpdateOrg, DeleteOrg
  <2> QED BY <1>8, <2>1, <2>3, <2>4, <2>5 DEF OrgOps
<1>9. CASE MemberOps(r)
  <2>1. {"update_member", "remove_member", "transfer:new_owner", "transfer", "transfer:reply"}
          \cap (Accepting \cup {"invite"}) = {}
    BY DEF Accepting
  <2>2. CASE UpdateMemberCheck(r) BY <1>2, <1>4, <2>1, <2>2 DEF UpdateMemberCheck
  <2>3. CASE RemoveMemberCheck(r) BY <1>2, <1>4, <2>1, <2>3 DEF RemoveMemberCheck
  <2>4. CASE TransferCaller(r) BY <1>2, <1>4, <2>1, <2>4 DEF TransferCaller
  <2>5. CASE TransferNewOwner(r) BY <1>2, <1>4, <2>1, <2>5 DEF TransferNewOwner
  <2>6. CASE Transfer(r) BY <1>2, <1>4, <2>1, <2>6 DEF Transfer
  <2>7. CASE UpdateMember(r) \/ RemoveMember(r) \/ TransferReply(r)
    BY <1>2, <2>7 DEF UpdateMember, RemoveMember, TransferReply
  <2> QED BY <1>9, <2>2, <2>3, <2>4, <2>5, <2>6, <2>7 DEF MemberOps
<1>10. CASE InviteOps(r)
  BY <1>2, <1>4, <1>b, <1>5, <1>6, <1>10
     DEF InviteOps, Invite, RevokeCheck, Revoke, Accept, Accepting
<1> QED BY <1>7, <1>8, <1>9, <1>10

\* The two parts of the invariant, step by step.
LEMMA SameRoleStep == ASSUME TypeOK, SameRole, [Next]_vars PROVE SameRole'
<1>1. CASE UNCHANGED vars BY <1>1 DEF vars, SameRole, KnownInvites, Key
<1>2. ASSUME NEW r \in Slot, Expire PROVE SameRole'
  <2>1. \A i \in invites' : Traced(i) BY <1>2, InvitesTraced
  <2>2. req' = req BY <1>2 DEF Expire
  <2>3. \A i \in KnownInvites : Traced(i) BY DEF Traced
  <2>4. \A i \in KnownInvites' : Traced(i) BY <2>1, <2>2, <2>3 DEF KnownInvites
  <2> QED BY <2>4, TracedAgree
<1>3. ASSUME Expire, Slot = {} PROVE SameRole'
  <2>1. KnownInvites = invites /\ KnownInvites' = invites' BY <1>3 DEF KnownInvites
  <2>2. PICK e \in invites : invites' = (invites \ {e}) \cup {[e EXCEPT !.expired = TRUE]}
    BY <1>3 DEF Expire
  <2>3. Key([e EXCEPT !.expired = TRUE]) = Key(e) /\ [e EXCEPT !.expired = TRUE].role = e.role
    BY DEF TypeOK, Invitation, Key
  <2>4. \A i \in invites' : Traced(i) BY <2>1, <2>2, <2>3 DEF Traced
  <2> QED BY <2>1, <2>4, TracedAgree
<1>4. ASSUME NEW r \in Slot,
             Authorise(r) \/ OrgOps(r) \/ MemberOps(r) \/ InviteOps(r) \/ Rollback(r)
      PROVE  SameRole'
  <2>1. CASE InviteCheck(r) BY <2>1, InviteCheckAgrees
  <2>2. CASE ~InviteCheck(r)
    <3>1. PICK q : Become(r, q) /\ q.invite \subseteq req[r].invite \cup invites
      BY <1>4, <2>2, HeldAfter
    <3>2. q.invite \subseteq KnownInvites BY <3>1 DEF KnownInvites
    <3>3. \A i \in q.invite : Traced(i) BY <3>2 DEF Traced
    <3>4. \A i \in invites' : Traced(i) BY <1>4, InvitesTraced
    <3>5. \A i \in KnownInvites' : Traced(i) BY <3>1, <3>3, <3>4, KnownAfter
    <3> QED BY <3>5, TracedAgree
  <2> QED BY <2>1, <2>2
<1> QED BY <1>1, <1>2, <1>3, <1>4 DEF Next

\* Every step keeps Addressed.
LEMMA AddressedStep == ASSUME TypeOK, Addressed, [Next]_vars PROVE Addressed'
<1>1. CASE UNCHANGED vars \/ Expire BY <1>1 DEF vars, Expire, Addressed
<1>2. ASSUME NEW r \in Slot, NEW q, Become(r, q),
             q.pc \in Accepting => \A i \in q.invite : i.user = q.user
      PROVE  Addressed'
  BY <1>2 DEF Become, Addressed, TypeOK
<1>3. ASSUME NEW r \in Slot,
             Authorise(r) \/ OrgOps(r) \/ MemberOps(r) \/ InviteOps(r) \/ Rollback(r)
      PROVE  Addressed'
  <2>1. CASE InviteCheck(r)
    <3>1. req[r] \in Request BY DEF TypeOK
    <3>2. \A x : [req[r] EXCEPT !.pc = "invite", !.invite = x].pc \notin Accepting
      BY <3>1 DEF Request, Session, Accepting
    <3>3. Answered("failed").pc \notin Accepting BY DEF Answered, Accepting
    <3> QED BY <1>2, <2>1, <3>2, <3>3 DEF InviteCheck, Fail
  <2>2. CASE ~InviteCheck(r)
    <3>1. PICK q :
            /\ Become(r, q)
            /\ \/ q.pc \notin Accepting
               \/ \A i \in q.invite : i \in invites /\ Acceptable(i, q.user)
               \/ req[r].pc \in Accepting /\ q.user = req[r].user /\ q.invite = req[r].invite
      BY <1>3, <2>2, HeldAfter
    <3> QED BY <1>2, <3>1 DEF Addressed, Acceptable
  <2> QED BY <2>1, <2>2
<1> QED BY <1>1, <1>3 DEF Next

\* Only creating an organization and accepting an invitation add members.
LEMMA Joining ==
  ASSUME TypeOK, NEW r \in Slot,
         Authorise(r) \/ OrgOps(r) \/ MemberOps(r) \/ InviteOps(r) \/ Rollback(r),
         ~Accept(r), NEW m \in members'
  PROVE  InTable(m, members) \/ orgs[m.org] = "absent"
<1>1. CASE members' \subseteq members BY <1>1 DEF InTable
<1>2. ASSUME NEW table \in SUBSET OrgMember, NEW rows, NEW role, NEW n \in SetRole(table, rows, role)
      PROVE  InTable(n, table)
  BY <1>2, SetRoleRows DEF InTable, Key, OrgMember
<1>3. CASE CreateOrg(r)
  <2>1. CASE members' = members BY <1>1, <2>1
  <2>2. ASSUME orgs[req[r].org] = "absent", NEW g,
               members' = members \cup
                 {[org |-> req[r].org, user |-> req[r].user, gen |-> g, role |-> "owner"]}
        PROVE  InTable(m, members) \/ orgs[m.org] = "absent"
    BY <2>2 DEF InTable
  <2> QED BY <1>3, <2>1, <2>2 DEF CreateOrg
<1>4. CASE UpdateMember(r)
  <2>1. CASE members' = members BY <1>1, <2>1
  <2>2. ASSUME NEW role, members' = SetRole(members, req[r].target, role)
        PROVE  InTable(m, members)
    BY <1>2, <2>2 DEF TypeOK
  <2> QED BY <1>4, <2>1, <2>2 DEF UpdateMember
<1>5. CASE Transfer(r)
  <2> DEFINE demoted == SetRole(members, Demoted(r), "admin")
  <2>1. CASE members' = members BY <1>1, <2>1
  <2>2. CASE members' = SetRole(demoted, req[r].target, "owner")
    <3>1. demoted \in SUBSET OrgMember BY SetRoleType DEF TypeOK, Role
    <3>2. \A n \in demoted : InTable(n, members) BY <1>2 DEF TypeOK
    <3> HIDE DEF demoted
    <3>3. InTable(m, demoted) BY <1>2, <2>2, <3>1
    <3> QED BY <3>2, <3>3 DEF InTable
  <2> QED BY <1>5, <2>1, <2>2 DEF Transfer
<1> QED
  BY <1>1, <1>3, <1>4, <1>5
     DEF Authorise, CheckOrg, CheckMember, Rollback, OrgOps, CreateOrgCheck, UpdateOrgCheck,
         UpdateOrg, DeleteOrgCheck, DeleteOrg, MemberOps, UpdateMemberCheck,
         RemoveMemberCheck, RemoveMember, Without, TransferCaller, TransferNewOwner,
         TransferReply, InviteOps, InviteCheck, Invite, RevokeCheck, Revoke,
         AcceptInvite, AcceptCheckMember, tables

\* An acceptance finds its invitation in the table, as it was when it was read but
\* for accepted and expired, and marks it.
LEMMA AcceptedInvitation ==
  ASSUME TypeOK, InvitesOwnOrg, SameRole, Addressed, NEW r \in Slot, Accept(r),
         NEW m \in members', ~InTable(m, members)
  PROVE  \E i \in invites : /\ i.org = m.org /\ i.user = m.user /\ i.role = m.role
                            /\ [i EXCEPT !.accepted = TRUE] \in invites'
<1>1. PICK g \in Gen, i \in req[r].invite :
        members' = members \cup
          {[org |-> req[r].org, user |-> req[r].user, gen |-> g, role |-> i.role]}
  <2>1. members' # members BY DEF InTable
  <2> QED BY <2>1 DEF Accept
<1>2. /\ AllMatch(req[r].invite, invites)
      /\ invites' = {IF InTable(j, req[r].invite)
                       THEN [j EXCEPT !.accepted = TRUE] ELSE j : j \in invites}
  <2>1. members' # members BY DEF InTable
  <2> QED BY <2>1 DEF Accept
<1>3. m = [org |-> req[r].org, user |-> req[r].user, gen |-> g, role |-> i.role]
  BY <1>1 DEF InTable
<1>4. PICK k \in invites : Key(k) = Key(i) BY <1>2 DEF AllMatch, InTable
<1>5. k.role = i.role
  <2>1. k \in KnownInvites /\ i \in KnownInvites BY DEF KnownInvites
  <2> QED BY <1>4, <2>1 DEF SameRole
<1>6. i.org = req[r].org /\ i.user = req[r].user
  BY DEF Accept, At, InvitesOwnOrg, Addressed, Accepting
<1>7. k.org = m.org /\ k.user = m.user /\ k.role = m.role
  BY <1>3, <1>4, <1>5, <1>6 DEF Key
<1>8. InTable(k, req[r].invite) BY <1>4 DEF InTable
<1>9. [k EXCEPT !.accepted = TRUE] \in invites' BY <1>2, <1>8
<1> QED BY <1>7, <1>9

\* However requests interleave, a user joins an existing organization only by an
\* invitation that is still in the table when the membership is committed, that
\* names the role, and that this very step marks accepted: revoking an invitation
\* beats an acceptance that has read it already.
THEOREM JoinsByInvitationHolds == Spec => JoinsByInvitation
<1>1. Init => SameRole /\ Addressed
  BY DEF Init, SameRole, KnownInvites, Addressed, Answered
<1>2. TypeOK /\ SameRole /\ Addressed /\ [Next]_vars => (SameRole /\ Addressed)'
  BY SameRoleStep, AddressedStep
<1>3. Spec => [](SameRole /\ Addressed) BY <1>1, <1>2, TypeCorrect, PTL DEF Spec
<1>4. Consistent /\ SameRole /\ Addressed /\ [Next]_vars => [\A m \in members' : JoinedBy(m)]_members
  <2> SUFFICES ASSUME Consistent, SameRole, Addressed, Next, NEW m \in members'
               PROVE  JoinedBy(m)
    BY DEF vars
  <2>1. CASE members' = members BY <2>1 DEF InTable, JoinedBy
  <2>2. ASSUME NEW r \in Slot, Accept(r) PROVE JoinedBy(m)
    BY <2>2, AcceptedInvitation DEF Consistent, JoinedBy
  <2>3. ASSUME NEW r \in Slot, ~Accept(r),
               Authorise(r) \/ OrgOps(r) \/ MemberOps(r) \/ InviteOps(r) \/ Rollback(r)
        PROVE  JoinedBy(m)
    BY <2>3, Joining DEF Consistent, JoinedBy
  <2>4. CASE Expire BY <2>1, <2>4 DEF Expire
  <2> QED BY <2>2, <2>3, <2>4 DEF Next
<1> QED BY <1>3, <1>4, ConsistentInvariant, PTL DEF Spec, JoinsByInvitation

----------------------------------------------------------------------------
(* Organizations apart.                                                    *)

\* The memberships that a request has loaded are of the organization of its token:
\* every route compares the path's org_id with it before it uses what it read.
MembersOwnOrg ==
  \A r \in Slot : \A row \in req[r].caller \cup req[r].target : row.org = req[r].org

\* A request that holds memberships of its own organization.
LEMMA BecomeOwnMembers ==
  ASSUME TypeOK, MembersOwnOrg, NEW r \in Slot, NEW q, Become(r, q),
         \A row \in q.caller \cup q.target : row.org = q.org
  PROVE  MembersOwnOrg'
BY DEF Become, MembersOwnOrg, TypeOK

\* What a SELECT on the organization of the token returns.
LEMMA LoadedOwnMembers ==
  ASSUME MembersOwnOrg, NEW r \in Slot, NEW u
  PROVE  \A row \in Loaded(r, MemberRows(req[r].org, u)) : row.org = req[r].org
BY DEF MembersOwnOrg, Loaded, MemberRows

\* Every step keeps MembersOwnOrg.
LEMMA OwnMembersStep == ASSUME TypeOK, MembersOwnOrg, [Next]_vars PROVE MembersOwnOrg'
<1>1. CASE UNCHANGED vars \/ Expire BY <1>1 DEF vars, Expire, MembersOwnOrg
<1>2. ASSUME NEW r \in Slot, Fail(r) \/ Succeed(r) PROVE MembersOwnOrg'
  BY <1>2, BecomeOwnMembers DEF Fail, Succeed, Answered
<1>3. ASSUME NEW r \in Slot, NEW pc, NEW u, NEW o,
             \/ Become(r, [Answered(pc) EXCEPT !.user = u, !.org = o])
             \/ \E rows : Become(r, [Answered(pc) EXCEPT !.user = u, !.org = o, !.invite = rows])
      PROVE  MembersOwnOrg'
  BY <1>3, BecomeOwnMembers DEF Answered
<1>4. ASSUME NEW r \in Slot, NEW pc,
             \/ Goto(r, pc)
             \/ \E x : \/ Become(r, [req[r] EXCEPT !.pc = pc, !.active = x])
                       \/ Become(r, [req[r] EXCEPT !.pc = pc, !.invite = x])
      PROVE  MembersOwnOrg'
  <2>1. req[r] \in Request BY DEF TypeOK
  <2>2. ASSUME NEW q, Become(r, q), q.caller = req[r].caller, q.target = req[r].target,
               q.org = req[r].org
        PROVE  MembersOwnOrg'
    BY <2>2, BecomeOwnMembers DEF MembersOwnOrg
  <2>3. /\ [req[r] EXCEPT !.pc = pc].caller = req[r].caller
        /\ [req[r] EXCEPT !.pc = pc].target = req[r].target
        /\ [req[r] EXCEPT !.pc = pc].org = req[r].org
    BY <2>1 DEF Request, Session
  <2>4. ASSUME NEW x
        PROVE  /\ [req[r] EXCEPT !.pc = pc, !.active = x].caller = req[r].caller
               /\ [req[r] EXCEPT !.pc = pc, !.active = x].target = req[r].target
               /\ [req[r] EXCEPT !.pc = pc, !.active = x].org = req[r].org
               /\ [req[r] EXCEPT !.pc = pc, !.invite = x].caller = req[r].caller
               /\ [req[r] EXCEPT !.pc = pc, !.invite = x].target = req[r].target
               /\ [req[r] EXCEPT !.pc = pc, !.invite = x].org = req[r].org
    BY <2>1 DEF Request, Session
  <2> QED BY <1>4, <2>2, <2>3, <2>4 DEF Goto
<1>5. ASSUME NEW r \in Slot, NEW pc, NEW rows, \A row \in rows : row.org = req[r].org,
             \/ Become(r, [req[r] EXCEPT !.pc = pc, !.caller = rows])
             \/ Become(r, [req[r] EXCEPT !.pc = pc, !.target = rows])
      PROVE  MembersOwnOrg'
  <2>1. req[r] \in Request BY DEF TypeOK
  <2>2. ASSUME NEW q, Become(r, q), q.org = req[r].org,
               q.caller \cup q.target \subseteq req[r].caller \cup req[r].target \cup rows
        PROVE  MembersOwnOrg'
    BY <1>5, <2>2, BecomeOwnMembers DEF MembersOwnOrg
  <2>3. /\ [req[r] EXCEPT !.pc = pc, !.caller = rows].caller = rows
        /\ [req[r] EXCEPT !.pc = pc, !.caller = rows].target = req[r].target
        /\ [req[r] EXCEPT !.pc = pc, !.caller = rows].org = req[r].org
        /\ [req[r] EXCEPT !.pc = pc, !.target = rows].caller = req[r].caller
        /\ [req[r] EXCEPT !.pc = pc, !.target = rows].target = rows
        /\ [req[r] EXCEPT !.pc = pc, !.target = rows].org = req[r].org
    BY <2>1 DEF Request, Session
  <2> QED BY <1>5, <2>2, <2>3
<1>6. ASSUME NEW r \in Slot, Authorise(r) \/ Rollback(r) PROVE MembersOwnOrg'
  <2>1. \A row \in MemberRows(req[r].org, req[r].user) : row.org = req[r].org
    BY DEF MemberRows
  <2> QED BY <1>2, <1>3, <1>5, <1>6, <2>1 DEF Authorise, CheckOrg, CheckMember, Rollback
<1>7. ASSUME NEW r \in Slot, OrgOps(r) PROVE MembersOwnOrg'
  BY <1>2, <1>3, <1>4, <1>7
     DEF OrgOps, CreateOrgCheck, CreateOrg, UpdateOrgCheck, UpdateOrg, DeleteOrgCheck, DeleteOrg
<1>8. ASSUME NEW r \in Slot, MemberOps(r) PROVE MembersOwnOrg'
  <2>1. CASE UpdateMemberCheck(r) \/ RemoveMemberCheck(r)
    BY <1>2, <1>5, <2>1, LoadedOwnMembers DEF UpdateMemberCheck, RemoveMemberCheck, Admitted
  <2>2. CASE TransferCaller(r) \/ TransferNewOwner(r)
    <3>1. \A u : \A row \in Loaded(r, MemberRows(req[r].org, u)) : row.org = req[r].org
      BY LoadedOwnMembers
    <3>2. CASE TransferCaller(r) BY <1>2, <1>5, <2>2, <3>1, <3>2 DEF TransferCaller
    <3>3. CASE TransferNewOwner(r) BY <1>2, <1>5, <2>2, <3>1, <3>3 DEF TransferNewOwner
    <3> QED BY <2>2, <3>2, <3>3
  <2>3. CASE Transfer(r) BY <1>2, <1>4, <2>3 DEF Transfer
  <2>4. CASE UpdateMember(r) \/ RemoveMember(r) \/ TransferReply(r)
    BY <1>2, <2>4 DEF UpdateMember, RemoveMember, TransferReply
  <2> QED BY <1>8, <2>1, <2>2, <2>3, <2>4 DEF MemberOps
<1>9. ASSUME NEW r \in Slot, InviteOps(r) PROVE MembersOwnOrg'
  <2>1. CASE InviteCheck(r) \/ RevokeCheck(r) \/ AcceptCheckMember(r)
    BY <1>2, <1>4, <2>1 DEF InviteCheck, RevokeCheck, AcceptCheckMember
  <2>2. CASE AcceptInvite(r) BY <1>2, <1>3, <2>2 DEF AcceptInvite
  <2>3. CASE Invite(r) \/ Revoke(r) \/ Accept(r) BY <1>2, <2>3 DEF Invite, Revoke, Accept
  <2> QED BY <1>9, <2>1, <2>2, <2>3 DEF InviteOps
<1> QED BY <1>1, <1>6, <1>7, <1>8, <1>9 DEF Next

\* Whoever is not assigned the role keeps the row.
LEMMA SetRoleOthers ==
  ASSUME NEW table \in SUBSET OrgMember, NEW rows, NEW role,
         NEW n \in SetRole(table, rows, role),
         \A row \in rows : ~(row.org = n.org /\ row.user = n.user)
  PROVE  n \in table
<1>1. PICK m \in table : n = IF \E row \in rows : Key(row) = Key(m) /\ row.role # role
                               THEN [m EXCEPT !.role = role] ELSE m
  BY DEF SetRole
<1>2. n.org = m.org /\ n.user = m.user BY <1>1 DEF OrgMember
<1>3. \A row \in rows : Key(row) # Key(m) BY <1>2 DEF Key
<1> QED BY <1>1, <1>3

\* Assigning a role leaves the members of other organizations as they are.
LEMMA SetRoleElsewhere ==
  ASSUME NEW table \in SUBSET OrgMember, NEW rows, NEW role, NEW o,
         \A row \in rows : row.org # o, NEW m, m.org = o
  PROVE  m \in SetRole(table, rows, role) <=> m \in table
<1>1. ASSUME m \in SetRole(table, rows, role) PROVE m \in table BY <1>1, SetRoleOthers
<1>2. ASSUME m \in table PROVE m \in SetRole(table, rows, role)
  BY <1>2 DEF SetRole, Key
<1> QED BY <1>1, <1>2

\* A step that leaves an organization's rows as they are.
Untouched(o) ==
  /\ orgs'[o] = orgs[o]
  /\ \A m \in members \cup members' : m.org = o => (m \in members' <=> m \in members)
  /\ \A i \in invites \cup invites' : i.org = o => (i \in invites' <=> i \in invites)

\* RowsOf shows nothing of it.
LEMMA RowsKept == ASSUME NEW o, Untouched(o) PROVE RowsOf(o)' = RowsOf(o)
<1>1. {m \in members' : m.org = o} = {m \in members : m.org = o} BY DEF Untouched
<1>2. {j \in invites' : j.org = o} = {j \in invites : j.org = o} BY DEF Untouched
<1>3. orgs'[o] = orgs[o] BY DEF Untouched
<1> QED BY <1>1, <1>2, <1>3 DEF RowsOf

\* No request reaches into another organization than that of its token.
LEMMA OnlyOwnOrg ==
  ASSUME TypeOK, InvitesOwnOrg, MembersOwnOrg, NEW r \in Slot,
         Authorise(r) \/ OrgOps(r) \/ MemberOps(r) \/ InviteOps(r) \/ Rollback(r),
         NEW o \in Org, o # req[r].org
  PROVE  Untouched(o)
<1>1. /\ \A row \in req[r].caller \cup req[r].target : row.org # o
      /\ \A i \in req[r].invite : i.org # o
  BY DEF MembersOwnOrg, InvitesOwnOrg
<1>2. CASE UNCHANGED tables BY <1>2 DEF tables, Untouched
<1>3. CASE CreateOrg(r)
  <2>1. orgs'[o] = orgs[o] /\ invites' = invites BY <1>1, <1>3 DEF CreateOrg, TypeOK
  <2>2. CASE members' = members BY <2>1, <2>2 DEF Untouched
  <2>3. ASSUME NEW g,
               members' = members \cup
                 {[org |-> req[r].org, user |-> req[r].user, gen |-> g, role |-> "owner"]}
        PROVE  Untouched(o)
    <3>1. \A m : m.org = o => (m \in members' <=> m \in members) BY <2>3
    <3> QED BY <2>1, <3>1 DEF Untouched
  <2> QED BY <1>3, <2>2, <2>3 DEF CreateOrg
<1>4. CASE UpdateOrg(r)
  <2>1. orgs'[o] = orgs[o] BY <1>1, <1>4 DEF UpdateOrg, TypeOK
  <2>2. UNCHANGED <<members, invites>> BY <1>4 DEF UpdateOrg
  <2> QED BY <2>1, <2>2 DEF Untouched
<1>5. CASE DeleteOrg(r)
  <2>1. orgs'[o] = orgs[o] BY <1>1, <1>5 DEF DeleteOrg, TypeOK
  <2>2. /\ \A m : m.org = o => (m \in members' <=> m \in members)
        /\ \A i : i.org = o => (i \in invites' <=> i \in invites)
    BY <1>5 DEF DeleteOrg
  <2> QED BY <2>1, <2>2 DEF Untouched
<1>6. CASE UpdateMember(r)
  <2>1. UNCHANGED <<orgs, invites>> BY <1>6 DEF UpdateMember
  <2>2. CASE members' = members BY <2>1, <2>2 DEF Untouched
  <2>3. ASSUME NEW role, members' = SetRole(members, req[r].target, role)
        PROVE  Untouched(o)
    <3>1. \A t \in req[r].target : t.org # o BY <1>1
    <3>2. \A m : m.org = o => (m \in members' <=> m \in members)
      BY <1>1, <2>3, <3>1, SetRoleElsewhere DEF TypeOK
    <3> QED BY <2>1, <3>2 DEF Untouched
  <2> QED BY <1>6, <2>2, <2>3 DEF UpdateMember
<1>7. CASE RemoveMember(r)
  <2>1. UNCHANGED <<orgs, invites>> BY <1>7 DEF RemoveMember
  <2>2. \A t \in req[r].target : t.org # o BY <1>1
  <2>3. \A m : m.org = o => (m \in members' <=> m \in members)
    BY <1>7, <2>2 DEF RemoveMember, Without, InTable, Key
  <2> QED BY <2>1, <2>3 DEF Untouched
<1>8. CASE Transfer(r)
  <2>1. UNCHANGED <<orgs, invites>> BY <1>8 DEF Transfer
  <2>2. CASE members' = members BY <2>1, <2>2 DEF Untouched
  <2> DEFINE demoted == SetRole(members, Demoted(r), "admin")
  <2>3. CASE members' = SetRole(demoted, req[r].target, "owner")
    <3>1. demoted \in SUBSET OrgMember BY <1>1, SetRoleType DEF TypeOK, Role
    <3>2. \A t \in req[r].target : t.org # o BY <1>1
    <3>3. \A c \in Demoted(r) : c.org # o BY <1>1 DEF Demoted
    <3>4. \A m : m.org = o => (m \in demoted <=> m \in members)
      BY <1>1, <3>3, SetRoleElsewhere DEF TypeOK
    <3> HIDE DEF demoted
    <3>5. \A m : m.org = o => (m \in members' <=> m \in demoted)
      BY <2>3, <3>1, <3>2, SetRoleElsewhere
    <3> QED BY <2>1, <3>4, <3>5 DEF Untouched
  <2> QED BY <1>8, <2>2, <2>3 DEF Transfer
<1>9. CASE Invite(r) \/ Revoke(r)
  <2>1. UNCHANGED <<orgs, members>> BY <1>9 DEF Invite, Revoke
  <2>2. \A i \in req[r].invite : i.org # o BY <1>1
  <2>3. \A i : i.org = o => (i \in invites' <=> i \in invites)
    BY <1>9, <2>2 DEF Invite, Revoke, Without, InTable, Key
  <2> QED BY <2>1, <2>3 DEF Untouched
<1>10. CASE Accept(r)
  <2>1. orgs' = orgs BY <1>10 DEF Accept
  <2>2. CASE UNCHANGED <<members, invites>> BY <1>2, <2>1, <2>2 DEF tables
  <2>3. ASSUME NEW g, NEW role,
               members' = members \cup
                 {[org |-> req[r].org, user |-> req[r].user, gen |-> g, role |-> role]},
               invites' = {IF InTable(i, req[r].invite)
                             THEN [i EXCEPT !.accepted = TRUE] ELSE i : i \in invites}
        PROVE  Untouched(o)
    <3>1. \A m : m.org = o => (m \in members' <=> m \in members) BY <2>3
    <3>2. \A i \in invites : /\ i.org = o => ~InTable(i, req[r].invite)
                             /\ [i EXCEPT !.accepted = TRUE].org = i.org
      BY <1>1 DEF TypeOK, Invitation, InTable, Key
    <3>3. \A i : i.org = o => (i \in invites' <=> i \in invites) BY <2>3, <3>2
    <3> QED BY <2>1, <3>1, <3>3 DEF Untouched
  <2> QED BY <1>10, <2>2, <2>3 DEF Accept
<1> QED
  BY <1>2, <1>3, <1>4, <1>5, <1>6, <1>7, <1>8, <1>9, <1>10
     DEF Authorise, CheckOrg, CheckMember, Rollback, OrgOps, CreateOrgCheck, UpdateOrgCheck,
         DeleteOrgCheck, MemberOps, UpdateMemberCheck, RemoveMemberCheck, TransferCaller,
         TransferNewOwner, TransferReply, InviteOps, InviteCheck, RevokeCheck, AcceptInvite,
         AcceptCheckMember

\* Time passing changes nothing but what RowsOf leaves out.
LEMMA RowsAfterExpire == ASSUME TypeOK, Expire, NEW o PROVE RowsOf(o)' = RowsOf(o)
<1> DEFINE fresh(i) == [i EXCEPT !.expired = FALSE]
<1>1. PICK e \in invites : invites' = (invites \ {e}) \cup {[e EXCEPT !.expired = TRUE]}
  BY DEF Expire
<1> DEFINE late == [e EXCEPT !.expired = TRUE]
<1>2. fresh(late) = fresh(e) /\ late.org = e.org BY DEF TypeOK, Invitation
<1>3. invites' = (invites \ {e}) \cup {late} BY <1>1
<1> HIDE DEF fresh, late
<1>4. {fresh(i) : i \in {j \in invites' : j.org = o}} = {fresh(i) : i \in {j \in invites : j.org = o}}
  BY <1>2, <1>3
<1>5. UNCHANGED <<orgs, members>> BY DEF Expire
<1> QED BY <1>4, <1>5 DEF RowsOf, fresh

\* A step of a request that changes a table moves the request on.
LEMMA WriteMoves ==
  ASSUME TypeOK, NEW r \in Slot,
         Authorise(r) \/ OrgOps(r) \/ MemberOps(r) \/ InviteOps(r) \/ Rollback(r),
         ~UNCHANGED tables
  PROVE  /\ req[r] # req'[r]
         /\ \/ CreateOrg(r) \/ UpdateOrg(r) \/ DeleteOrg(r) \/ UpdateMember(r)
            \/ RemoveMember(r) \/ Transfer(r) \/ Invite(r) \/ Revoke(r) \/ Accept(r)
<1>1. \/ CreateOrg(r) \/ UpdateOrg(r) \/ DeleteOrg(r) \/ UpdateMember(r)
      \/ RemoveMember(r) \/ Transfer(r) \/ Invite(r) \/ Revoke(r) \/ Accept(r)
  BY DEF Authorise, CheckOrg, CheckMember, Rollback, OrgOps, CreateOrgCheck, UpdateOrgCheck,
         DeleteOrgCheck, MemberOps, UpdateMemberCheck, RemoveMemberCheck, TransferCaller,
         TransferNewOwner, TransferReply, InviteOps, InviteCheck, RevokeCheck, AcceptInvite,
         AcceptCheckMember
<1>2. req[r].pc \notin {"done", "failed", "transfer:reply"}
  BY <1>1 DEF CreateOrg, UpdateOrg, DeleteOrg, UpdateMember, RemoveMember, Transfer, Invite,
              Revoke, Accept, At
<1>3. req'[r].pc \in {"done", "failed", "transfer:reply"}
  <2>1. Fail(r) \/ Succeed(r) \/ Goto(r, "transfer:reply")
    BY <1>1 DEF CreateOrg, UpdateOrg, DeleteOrg, UpdateMember, RemoveMember, Transfer,
                Invite, Revoke, Accept
  <2> QED BY <2>1 DEF Fail, Succeed, Goto, Become, Answered, TypeOK, Request, Session
<1> QED BY <1>1, <1>2, <1>3

\* Tenants are isolated whatever is in flight: a request changes rows of the
\* organization of its token (or of the one it creates, or is invited to) alone.
THEOREM OrganizationsApartHolds == Spec => OrganizationsApart
<1>1. Init => MembersOwnOrg BY DEF Init, MembersOwnOrg, Answered
<1>2. TypeOK /\ MembersOwnOrg /\ [Next]_vars => MembersOwnOrg' BY OwnMembersStep
<1>3. Consistent /\ MembersOwnOrg /\ [Next]_vars
        => [\A o \in Org :
              Touched(o) => \E r \in Slot : req[r].org = o /\ req[r] # req'[r]]_tables
  <2> SUFFICES ASSUME Consistent, MembersOwnOrg, Next, NEW o \in Org, RowsOf(o)' # RowsOf(o)
               PROVE  \E r \in Slot : req[r].org = o /\ req[r] # req'[r]
    BY DEF vars, tables, Touched
  <2>1. PICK r \in Slot : Authorise(r) \/ OrgOps(r) \/ MemberOps(r) \/ InviteOps(r) \/ Rollback(r)
    BY RowsAfterExpire DEF Next, Consistent
  <2>2. req[r].org = o BY <2>1, OnlyOwnOrg, RowsKept DEF Consistent
  <2>3. ~UNCHANGED tables BY DEF tables, RowsOf
  <2> QED BY <2>1, <2>2, <2>3, WriteMoves DEF Consistent
<1> QED BY <1>1, <1>2, <1>3, TypeCorrect, ConsistentInvariant, PTL DEF Spec, OrganizationsApart
=============================================================================
