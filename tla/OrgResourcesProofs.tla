------------------------- MODULE OrgResourcesProofs -------------------------
(***************************************************************************)
(* What OrgResources guarantees for every set of organizations, members,   *)
(* departments, names, keys and concurrent requests: the types, unique     *)
(* names, references that hold, the end of a revoked key,                  *)
(* and that organizations do not touch each other's departments and keys.  *)
(***************************************************************************)
EXTENDS OrgResources, TLAPS

----------------------------------------------------------------------------
(* The inductive invariant.                                                *)

\* A row's id has been used; the id of a row that is about to be inserted is that
\* of no other row, in the table or in a session.
Fresh ==
  /\ \A row \in departments \cup keys : row.id \in used
  /\ \A r \in Slot : \A d \in req[r].dept : d.id \in used
  /\ \A r \in Slot : \A k \in req[r].key : k.id \in used
  /\ \A r \in Slot : At(r, "create_department") => \A d \in req[r].dept :
       /\ DeptOf(d.id) = {}
       /\ \A s \in Slot \ {r} : \A e \in req[s].dept : e.id # d.id

\* A session holds at most one department and one key; outside a look-up they
\* are of the token's organization, and so are the rows they were loaded from.
OwnRow(r) ==
  /\ \A d, e \in req[r].dept : d = e
  /\ \A d \in req[r].dept : d.org = req[r].org /\ \A e \in DeptOf(d.id) : e.org = d.org
  /\ req[r].dept # {} =>
       req[r].pc \in {"create_department", "update_department", "delete_department"}
  /\ At(r, "revoke_key") => \A k \in req[r].key :
       k.org = req[r].org /\ \A l \in KeyOf(k.id) : l.org = k.org

OwnRows == \A r \in Slot : OwnRow(r)

IInv == TypeOK /\ Fresh /\ OwnRows /\ NamesUnique /\ ReferencesHold

\* Every row of a table was in it before, but for a name or a revocation.
Kept(table, old) == \A row \in table : \E was \in old : was.id = row.id /\ was.org = row.org

\* A request moves on without a department, and with no key it did not find.
Released(r) == \E q \in Request :
  /\ Become(r, q)
  /\ q.dept = {}
  /\ q.pc \notin {"create_department", "revoke_key"}
  /\ q.key \subseteq keys \cup req[r].key

----------------------------------------------------------------------------
(* Lemmas on requests.                                                     *)

\* A reply leaves a well-formed, empty slot.
LEMMA AnsweredType ==
  ASSUME NEW reply \in Replied PROVE Answered(reply) \in Request
BY DEF Answered, Request, Replied

\* A step of one slot to a well-formed request keeps all of them well-formed.
LEMMA BecomeType ==
  ASSUME TypeOK, NEW r \in Slot, NEW q \in Request, Become(r, q)
  PROVE  req' \in [Slot -> Request] /\ req'[r] = q /\ \A s \in Slot \ {r} : req'[s] = req[s]
BY DEF Become, TypeOK

\* Every answer releases what the session holds.
LEMMA ReplyReleases ==
  ASSUME TypeOK, NEW r \in Slot, Fail(r) \/ Succeed(r) \/ Conflict(r) \/ Error(r)
  PROVE  Released(r)
BY AnsweredType DEF Fail, Succeed, Conflict, Error, Released, Answered, Replied

\* A release keeps the requests well-formed.
LEMMA ReleasedType ==
  ASSUME TypeOK, NEW r \in Slot, Released(r) PROVE req' \in [Slot -> Request]
BY BecomeType DEF Released

----------------------------------------------------------------------------
(* What the actions do.                                                    *)

\* The steps that leave the tables alone.
LEMMA Readers ==
  ASSUME TypeOK, OwnRows, NEW r \in Slot,
         Authorise(r) \/ WrongPath(r) \/ Rollback(r) \/ FindMember(r)
           \/ LookUpKey(r) \/ KeyOrg(r) \/ TouchKey(r)
  PROVE  Released(r) /\ UNCHANGED <<tables, used>>
<1>0. req[r] \in Request BY DEF TypeOK
<1>1. CASE Authorise(r)
  <2>1. PICK seat \in Seat :
          IF orgs[seat[1]] = "active"
            THEN Become(r, [Answered("authorised") EXCEPT
                              !.org = seat[1], !.member = MemberRows(seat[1], seat[2])])
            ELSE Fail(r)
    BY <1>1 DEF Authorise
  <2>2. CASE orgs[seat[1]] = "active"
    <3>1. DEFINE q == [Answered("authorised") EXCEPT
                         !.org = seat[1], !.member = MemberRows(seat[1], seat[2])]
    <3>2. seat[1] \in Org /\ MemberRows(seat[1], seat[2]) \in SUBSET OrgMember
      BY ResourceAssumption DEF MemberRows, TypeOK
    <3>3. q \in Request /\ q.dept = {} /\ q.key = {} /\ q.pc = "authorised"
      BY <3>2 DEF Answered, Request, Gated
    <3>4. Become(r, q) BY <2>1, <2>2
    <3>5. Released(r) BY <3>3, <3>4 DEF Released
    <3>6. QED BY <1>1, <3>5 DEF Authorise
  <2>3. CASE orgs[seat[1]] # "active"
    BY <1>1, <2>1, <2>3, ReplyReleases DEF Authorise
  <2>4. QED BY <2>2, <2>3
<1>2. CASE WrongPath(r) \/ Rollback(r)
  BY <1>2, ReplyReleases DEF WrongPath, Rollback
<1>3. CASE FindMember(r)
  <2>1. PICK path_org \in Org, u \in User :
          /\ PathMatches(r, path_org)
          /\ IF MemberRows(path_org, u) = {} THEN Fail(r)
             ELSE Become(r, [req[r] EXCEPT
                    !.pc = "assign",
                    !.member = IF \E m \in @ : m.user = u THEN @ ELSE MemberRows(path_org, u)])
    BY <1>3 DEF FindMember
  <2>2. CASE MemberRows(path_org, u) = {}
    BY <1>3, <2>1, <2>2, ReplyReleases DEF FindMember
  <2>3. CASE MemberRows(path_org, u) # {}
    <3>1. PICK rows : /\ rows \in {req[r].member, MemberRows(path_org, u)}
                      /\ Become(r, [req[r] EXCEPT !.pc = "assign", !.member = rows])
      BY <2>1, <2>3
    <3>2. DEFINE q == [req[r] EXCEPT !.pc = "assign", !.member = rows]
    <3>3. rows \in SUBSET OrgMember
      BY <1>0, <3>1 DEF MemberRows, TypeOK, Request
    <3>4. req[r].dept = {}
      BY <2>1 DEF OwnRows, OwnRow, PathMatches, At
    <3>5. q \in Request /\ q.dept = {} /\ q.key = req[r].key /\ q.pc = "assign"
      BY <1>0, <3>3, <3>4 DEF Request, Gated
    <3>6. Released(r) BY <3>1, <3>5 DEF Released
    <3>7. QED BY <1>3, <3>6 DEF FindMember
  <2>4. QED BY <2>2, <2>3
<1>4. CASE LookUpKey(r)
  <2>1. CASE Fail(r) BY <1>4, <2>1, ReplyReleases DEF LookUpKey
  <2>2. CASE ~Fail(r)
    <3>1. PICK k \in keys : Become(r, [Answered("key:org") EXCEPT !.key = {k}])
      BY <1>4, <2>2 DEF LookUpKey
    <3>2. DEFINE q == [Answered("key:org") EXCEPT !.key = {k}]
    <3>3. q \in Request /\ q.dept = {} /\ q.key = {k} /\ q.pc = "key:org"
      BY DEF Answered, Request, ByKey, TypeOK
    <3>4. Released(r) BY <3>1, <3>3 DEF Released
    <3>5. QED BY <1>4, <3>4 DEF LookUpKey
  <2>3. QED BY <2>1, <2>2
<1>5. CASE KeyOrg(r)
  <2>1. CASE Fail(r) BY <1>5, <2>1, ReplyReleases DEF KeyOrg
  <2>2. CASE ~Fail(r)
    <3>1. At(r, "key:org") /\ Become(r, [req[r] EXCEPT !.pc = "key:touch"])
      BY <1>5, <2>2 DEF KeyOrg
    <3>2. DEFINE q == [req[r] EXCEPT !.pc = "key:touch"]
    <3>3. req[r].dept = {}
      BY <3>1 DEF OwnRows, OwnRow, At
    <3>4. q \in Request /\ q.dept = {} /\ q.key = req[r].key /\ q.pc = "key:touch"
      BY <1>0, <3>3 DEF Request, ByKey
    <3>5. Released(r) BY <3>1, <3>4 DEF Released
    <3>6. QED BY <1>5, <3>5 DEF KeyOrg
  <2>3. QED BY <2>1, <2>2
<1>6. CASE TouchKey(r)
  BY <1>6, ReplyReleases DEF TouchKey
<1>7. QED BY <1>1, <1>2, <1>3, <1>4, <1>5, <1>6

\* The steps that change and delete rows, and insert none.
LEMMA Writers ==
  ASSUME TypeOK, Fresh, OwnRows, NEW r \in Slot,
         UpdateDepartment(r) \/ DeleteDepartment(r) \/ Assign(r) \/ RevokeKey(r)
           \/ UpdateOrg(r) \/ DeleteOrg(r)
  PROVE  /\ Released(r)
         /\ Kept(departments', departments) /\ Kept(keys', keys)
         /\ used' = used
<1>1. CASE UpdateDepartment(r)
  <2>1. PICK name \in Name, d \in req[r].dept :
          LET renamed == [d EXCEPT !.name = name] IN
          /\ Error(r) \/ Succeed(r)
          /\ \/ UNCHANGED departments
             \/ /\ DeptOf(d.id) # {}
                /\ departments' = Without({d.id}) \cup {renamed}
    BY <1>1 DEF UpdateDepartment
  <2>2. d \in Department BY DEF TypeOK, Request
  <2>3. CASE UNCHANGED departments
    BY <1>1, <2>1, <2>3, ReplyReleases DEF UpdateDepartment, Kept
  <2>4. CASE DeptOf(d.id) # {} /\ departments' = Without({d.id}) \cup {[d EXCEPT !.name = name]}
    <3>1. PICK e \in departments : e.id = d.id BY <2>4 DEF DeptOf
    <3>2. e.org = d.org BY <3>1 DEF OwnRows, OwnRow, DeptOf
    <3>3. Kept(departments', departments)
      BY <2>2, <2>4, <3>1, <3>2 DEF Kept, Without, Department
    <3>4. QED BY <1>1, <2>1, <3>3, ReplyReleases DEF UpdateDepartment, Kept
  <2>5. QED BY <2>1, <2>3, <2>4
<1>2. CASE DeleteDepartment(r)
  BY <1>2, ReplyReleases DEF DeleteDepartment, Kept, Without
<1>3. CASE Assign(r)
  BY <1>3, ReplyReleases DEF Assign, Kept
<1>4. CASE RevokeKey(r)
  <2>1. PICK k \in req[r].key :
          /\ Error(r) \/ Succeed(r)
          /\ \/ UNCHANGED keys
             \/ keys' = {IF stored.id = k.id THEN [stored EXCEPT !.revoked = TRUE]
                         ELSE stored : stored \in keys}
    BY <1>4 DEF RevokeKey
  <2>2. Kept(keys', keys) BY <2>1 DEF Kept, TypeOK, APIKey
  <2>3. QED BY <1>4, <2>1, <2>2, ReplyReleases DEF RevokeKey, Kept
<1>5. CASE UpdateOrg(r)
  BY <1>5, ReplyReleases DEF UpdateOrg, Kept
<1>6. CASE DeleteOrg(r)
  BY <1>6, ReplyReleases DEF DeleteOrg, Kept, tables
<1>7. QED BY <1>1, <1>2, <1>3, <1>4, <1>5, <1>6

----------------------------------------------------------------------------
(* Ids and owners.                                                         *)

\* A release, and rows that are kept, disturb neither.
LEMMA ReleaseKeeps ==
  ASSUME TypeOK, Fresh, OwnRows, NEW r \in Slot, Released(r),
         Kept(departments', departments), Kept(keys', keys), used \subseteq used'
  PROVE  Fresh' /\ OwnRows'
<1>1. PICK q \in Request :
        /\ Become(r, q) /\ q.dept = {} /\ q.pc \notin {"create_department", "revoke_key"}
        /\ q.key \subseteq keys \cup req[r].key
  BY DEF Released
<1>2. req'[r] = q /\ \A s \in Slot \ {r} : req'[s] = req[s]
  BY <1>1, BecomeType
<1>3. \A id : DeptOf(id)' # {} => DeptOf(id) # {}
  BY DEF DeptOf, Kept
<1>4. Fresh'
  <2>1. \A row \in departments' \cup keys' : row.id \in used'
    BY DEF Fresh, Kept
  <2>2. \A s \in Slot : \A d \in req'[s].dept : d.id \in used'
    BY <1>1, <1>2 DEF Fresh
  <2>3. \A s \in Slot : \A k \in req'[s].key : k.id \in used'
    BY <1>1, <1>2 DEF Fresh
  <2>4. ASSUME NEW s \in Slot, At(s, "create_department")', NEW d \in req'[s].dept
        PROVE  DeptOf(d.id)' = {} /\ \A t \in Slot \ {s} : \A e \in req'[t].dept : e.id # d.id
    BY <1>1, <1>2, <1>3, <2>4 DEF Fresh, At
  <2>5. QED BY <2>1, <2>2, <2>3, <2>4 DEF Fresh
<1>5. OwnRows'
  <2>1. ASSUME NEW id, NEW o, \A e \in DeptOf(id) : e.org = o
        PROVE  \A e \in DeptOf(id)' : e.org = o
    BY <2>1 DEF DeptOf, Kept
  <2>2. ASSUME NEW id, NEW o, \A l \in KeyOf(id) : l.org = o
        PROVE  \A l \in KeyOf(id)' : l.org = o
    BY <2>2 DEF KeyOf, Kept
  <2>3. ASSUME NEW s \in Slot, s # r
        PROVE  OwnRow(s)'
    <3>1. req'[s] = req[s] BY <1>2, <2>3
    <3>2. \A d, e \in req'[s].dept : d = e BY <3>1 DEF OwnRows, OwnRow
    <3>3. ASSUME NEW d \in req'[s].dept
          PROVE  d.org = req'[s].org /\ \A e \in DeptOf(d.id)' : e.org = d.org
      <4>1. d.org = req[s].org /\ \A e \in DeptOf(d.id) : e.org = d.org
        BY <3>1 DEF OwnRows, OwnRow
      <4>2. QED BY <3>1, <4>1, <2>1
    <3>4. req'[s].dept # {} =>
            req'[s].pc \in {"create_department", "update_department", "delete_department"}
      BY <3>1 DEF OwnRows, OwnRow, At
    <3>5. ASSUME At(s, "revoke_key")', NEW k \in req'[s].key
          PROVE  k.org = req'[s].org /\ \A l \in KeyOf(k.id)' : l.org = k.org
      <4>1. k.org = req[s].org /\ \A l \in KeyOf(k.id) : l.org = k.org
        BY <3>1, <3>5 DEF OwnRows, OwnRow, At
      <4>2. QED BY <3>1, <4>1, <2>2
    <3>6. QED BY <3>2, <3>3, <3>4, <3>5 DEF OwnRow
  <2>4. OwnRow(r)' BY <1>1, <1>2 DEF OwnRow, At
  <2>5. QED BY <2>3, <2>4 DEF OwnRows
<1>6. QED BY <1>4, <1>5

\* Building a department takes an id nobody has.
LEMMA CreateDepartmentKeeps ==
  ASSUME TypeOK, Fresh, OwnRows, NEW r \in Slot, CreateDepartment(r)
  PROVE  Fresh' /\ OwnRows' /\ req' \in [Slot -> Request] /\ UNCHANGED tables
           /\ used' \in SUBSET (DeptId \cup KeyId)
<1>1. PICK path_org \in Org, id \in DeptId \ used, name \in Name :
        /\ PathMatches(r, path_org)
        /\ Become(r, [req[r] EXCEPT !.pc = "create_department",
                                    !.dept = {[id |-> id, org |-> path_org, name |-> name]}])
        /\ used' = used \cup {id}
        /\ UNCHANGED tables
  BY DEF CreateDepartment
<1>2. DEFINE row == [id |-> id, org |-> path_org, name |-> name]
             q == [req[r] EXCEPT !.pc = "create_department", !.dept = {row}]
<1>3. req[r] \in Request BY DEF TypeOK
<1>4. q \in Request /\ q.dept = {row} /\ q.key = req[r].key /\ q.org = path_org
        /\ q.pc = "create_department"
  <2>1. row \in Department /\ req[r].org = path_org BY <1>1 DEF Department, PathMatches
  <2>2. q \in Request BY <1>3, <2>1 DEF Request, Gated
  <2>3. QED BY <1>3, <2>1, <2>2 DEF Request
<1>5. req' \in [Slot -> Request] /\ req'[r] = q /\ \A s \in Slot \ {r} : req'[s] = req[s]
  BY <1>1, <1>4, BecomeType
<1>6. DeptOf(id) = {} BY DEF Fresh, DeptOf
<1>7. UNCHANGED <<departments, keys>> BY <1>1 DEF tables
<1> row.id = id /\ row.org = path_org OBVIOUS
<1> HIDE DEF row, q
<1>8. Fresh'
  <2>1. \A s \in Slot \ {r} : \A e \in req[s].dept : e.id # id BY DEF Fresh
  <2>2. \A x \in departments' \cup keys' : x.id \in used' BY <1>1, <1>7 DEF Fresh
  <2>3. ASSUME NEW s \in Slot, NEW d \in req'[s].dept PROVE d.id \in used'
    <3>1. CASE s = r BY <1>1, <1>4, <1>5, <3>1
    <3>2. CASE s # r BY <1>1, <1>5, <3>2 DEF Fresh
    <3>3. QED BY <3>1, <3>2
  <2>4. \A s \in Slot : \A k \in req'[s].key : k.id \in used'
    BY <1>1, <1>4, <1>5 DEF Fresh
  <2>5. ASSUME NEW s \in Slot, At(s, "create_department")', NEW d \in req'[s].dept
        PROVE  DeptOf(d.id)' = {} /\ \A t \in Slot \ {s} : \A e \in req'[t].dept : e.id # d.id
    <3>1. DeptOf(d.id)' = DeptOf(d.id) BY <1>7 DEF DeptOf
    <3>2. CASE s = r
      <4>1. d = row BY <1>4, <1>5, <2>5, <3>2
      <4>2. QED BY <1>5, <1>6, <2>1, <3>1, <3>2, <4>1
    <3>3. CASE s # r
      <4>1. At(s, "create_department") /\ d \in req[s].dept BY <1>5, <2>5, <3>3 DEF At
      <4>2. d.id # id BY <2>1, <3>3, <4>1
      <4>3. DeptOf(d.id) = {} /\ \A t \in Slot \ {s} : \A e \in req[t].dept : e.id # d.id
        BY <4>1 DEF Fresh
      <4>4. ASSUME NEW t \in Slot \ {s}, NEW e \in req'[t].dept PROVE e.id # d.id
        <5>1. CASE t = r BY <1>4, <1>5, <4>2, <5>1
        <5>2. CASE t # r BY <1>5, <4>3, <5>2
        <5>3. QED BY <5>1, <5>2
      <4>5. QED BY <3>1, <4>3, <4>4
    <3>4. QED BY <3>2, <3>3
  <2>6. QED BY <2>2, <2>3, <2>4, <2>5 DEF Fresh
<1>9. OwnRows'
  <2>1. \A d : DeptOf(d)' = DeptOf(d) /\ KeyOf(d)' = KeyOf(d) BY <1>7 DEF DeptOf, KeyOf
  <2>2. ASSUME NEW s \in Slot
        PROVE  OwnRow(s)'
    <3>1. CASE s = r BY <1>4, <1>5, <1>6, <2>1, <3>1 DEF At, OwnRow
    <3>2. CASE s # r
      <4>1. req'[s] = req[s] BY <1>5, <3>2
      <4>2. QED BY <2>1, <4>1 DEF OwnRows, OwnRow, At
    <3>3. QED BY <3>1, <3>2
  <2>3. QED BY <2>2 DEF OwnRows
<1>10. used' \in SUBSET (DeptId \cup KeyId) BY <1>1 DEF TypeOK
<1>11. QED BY <1>1, <1>5, <1>8, <1>9, <1>10

\* Inserting it, or failing to.
LEMMA InsertDepartmentKeeps ==
  ASSUME TypeOK, Fresh, OwnRows, NEW r \in Slot, InsertDepartment(r)
  PROVE  Fresh' /\ OwnRows' /\ Released(r)
<1>1. Released(r) BY ReplyReleases DEF InsertDepartment
<1>2. CASE UNCHANGED departments
  BY <1>1, <1>2, ReleaseKeeps DEF InsertDepartment, Kept
<1>3. CASE departments' = departments \cup req[r].dept
  <2>1. At(r, "create_department") /\ UNCHANGED <<keys, used>> BY DEF InsertDepartment
  <2>2. req'[r].dept = {} /\ req'[r].pc \notin {"create_department", "revoke_key"}
          /\ req'[r].key \subseteq keys \cup req[r].key
          /\ \A s \in Slot \ {r} : req'[s] = req[s]
    BY <1>1, BecomeType DEF Released
  <2>3. \A s \in Slot \ {r} : \A d \in req[s].dept : DeptOf(d.id)' = DeptOf(d.id)
    BY <1>3, <2>1 DEF Fresh, DeptOf
  <2>4. Fresh'
    <3>1. \A x \in departments' \cup keys' : x.id \in used' BY <1>3, <2>1 DEF Fresh
    <3>2. \A s \in Slot : \A d \in req'[s].dept : d.id \in used' BY <2>1, <2>2 DEF Fresh
    <3>3. \A s \in Slot : \A k \in req'[s].key : k.id \in used' BY <2>1, <2>2 DEF Fresh
    <3>4. ASSUME NEW s \in Slot, At(s, "create_department")', NEW d \in req'[s].dept
          PROVE  DeptOf(d.id)' = {} /\ \A t \in Slot \ {s} : \A e \in req'[t].dept : e.id # d.id
      <4>1. s # r /\ At(s, "create_department") /\ d \in req[s].dept BY <2>2, <3>4 DEF At
      <4>2. DeptOf(d.id)' = {} BY <2>3, <4>1 DEF Fresh
      <4>3. QED BY <2>2, <4>1, <4>2 DEF Fresh
    <3>5. QED BY <3>1, <3>2, <3>3, <3>4 DEF Fresh
  <2>5. OwnRows'
    <3>1. \A k : KeyOf(k)' = KeyOf(k) BY <2>1 DEF KeyOf
    <3>2. QED BY <2>2, <2>3, <3>1 DEF OwnRows, OwnRow, At
  <2>6. QED BY <1>1, <2>4, <2>5
<1>4. QED BY <1>2, <1>3 DEF InsertDepartment

\* Finding a department loads a row of the table.
LEMMA FindDepartmentKeeps ==
  ASSUME TypeOK, Fresh, OwnRows, NEW r \in Slot, FindDepartment(r)
  PROVE  Fresh' /\ OwnRows' /\ req' \in [Slot -> Request] /\ UNCHANGED <<tables, used>>
<1>1. PICK path_org \in Org, pc \in {"update_department", "delete_department"} :
        /\ PathMatches(r, path_org)
        /\ \/ \E d \in DepartmentsOf(path_org) : Become(r, [req[r] EXCEPT !.pc = pc, !.dept = {d}])
           \/ Fail(r)
        /\ UNCHANGED <<tables, used>>
  BY DEF FindDepartment
<1>2. UNCHANGED <<departments, keys, used>> BY <1>1 DEF tables
<1>3. CASE Fail(r)
  <2>1. Released(r) BY <1>3, ReplyReleases
  <2>2. Kept(departments', departments) /\ Kept(keys', keys) BY <1>2 DEF Kept
  <2>3. QED BY <1>1, <1>2, <2>1, <2>2, ReleaseKeeps, ReleasedType
<1>4. CASE ~Fail(r)
  <2>1. PICK d \in DepartmentsOf(path_org) : Become(r, [req[r] EXCEPT !.pc = pc, !.dept = {d}])
    BY <1>1, <1>4
  <2>2. DEFINE q == [req[r] EXCEPT !.pc = pc, !.dept = {d}]
  <2>3. req[r] \in Request /\ d \in Department /\ d \in departments
          /\ d.org = path_org /\ req[r].org = path_org
    BY <1>1, <2>1 DEF TypeOK, DepartmentsOf, PathMatches
  <2>4. q \in Request BY <2>3 DEF Request, Gated
  <2>5. q.dept = {d} /\ q.key = req[r].key /\ q.org = path_org
          /\ q.pc \in {"update_department", "delete_department"}
    BY <2>3 DEF Request
  <2>6. req' \in [Slot -> Request] /\ req'[r] = q /\ \A s \in Slot \ {r} : req'[s] = req[s]
    BY <2>1, <2>4, BecomeType
  <2>7. \A id : DeptOf(id)' = DeptOf(id) /\ KeyOf(id)' = KeyOf(id) BY <1>2 DEF DeptOf, KeyOf
  <2>8. \A e \in DeptOf(d.id) : e = d BY <2>3 DEF DeptOf, TypeOK
  <2> HIDE DEF q
  <2>9. Fresh'
    <3>1. \A x \in departments' \cup keys' : x.id \in used' BY <1>2 DEF Fresh
    <3>2. ASSUME NEW s \in Slot, NEW e \in req'[s].dept PROVE e.id \in used'
      <4>1. CASE s = r BY <1>2, <2>3, <2>5, <2>6, <4>1 DEF Fresh
      <4>2. CASE s # r BY <1>2, <2>6, <4>2 DEF Fresh
      <4>3. QED BY <4>1, <4>2
    <3>3. \A s \in Slot : \A k \in req'[s].key : k.id \in used'
      BY <1>2, <2>5, <2>6 DEF Fresh
    <3>4. ASSUME NEW s \in Slot, At(s, "create_department")', NEW e \in req'[s].dept
          PROVE  DeptOf(e.id)' = {} /\ \A t \in Slot \ {s} : \A f \in req'[t].dept : f.id # e.id
      <4>1. s # r BY <2>5, <2>6, <3>4 DEF At
      <4>2. At(s, "create_department") /\ e \in req[s].dept BY <2>6, <3>4, <4>1 DEF At
      <4>3. DeptOf(e.id) = {} /\ \A t \in Slot \ {s} : \A f \in req[t].dept : f.id # e.id
        BY <4>2 DEF Fresh
      <4>4. d.id # e.id BY <2>3, <4>3 DEF DeptOf
      <4>5. ASSUME NEW t \in Slot \ {s}, NEW f \in req'[t].dept PROVE f.id # e.id
        <5>1. CASE t = r BY <2>5, <2>6, <4>4, <5>1
        <5>2. CASE t # r BY <2>6, <4>3, <5>2
        <5>3. QED BY <5>1, <5>2
      <4>6. QED BY <2>7, <4>3, <4>5
    <3>5. QED BY <3>1, <3>2, <3>3, <3>4 DEF Fresh
  <2>10. ASSUME NEW s \in Slot PROVE OwnRow(s)'
    <3>1. CASE s = r BY <2>3, <2>5, <2>6, <2>7, <2>8, <3>1 DEF OwnRow, At
    <3>2. CASE s # r
      <4>1. req'[s] = req[s] BY <2>6, <3>2
      <4>2. QED BY <2>7, <4>1 DEF OwnRows, OwnRow, At
    <3>3. QED BY <3>1, <3>2
  <2>11. QED BY <1>1, <2>6, <2>9, <2>10 DEF OwnRows
<1>5. QED BY <1>3, <1>4

\* Finding a key loads a row of the table.
LEMMA FindKeyKeeps ==
  ASSUME TypeOK, Fresh, OwnRows, NEW r \in Slot, FindKey(r)
  PROVE  Fresh' /\ OwnRows' /\ req' \in [Slot -> Request] /\ UNCHANGED <<tables, used>>
<1>1. PICK path_org \in Org :
        /\ PathMatches(r, path_org)
        /\ \/ \E k \in KeysOf(path_org) : Become(r, [req[r] EXCEPT !.pc = "revoke_key", !.key = {k}])
           \/ Fail(r)
        /\ UNCHANGED <<tables, used>>
  BY DEF FindKey
<1>2. UNCHANGED <<departments, keys, used>> BY <1>1 DEF tables
<1>3. CASE Fail(r)
  <2>1. Released(r) BY <1>3, ReplyReleases
  <2>2. Kept(departments', departments) /\ Kept(keys', keys) BY <1>2 DEF Kept
  <2>3. QED BY <1>1, <1>2, <2>1, <2>2, ReleaseKeeps, ReleasedType
<1>4. CASE ~Fail(r)
  <2>1. PICK k \in KeysOf(path_org) : Become(r, [req[r] EXCEPT !.pc = "revoke_key", !.key = {k}])
    BY <1>1, <1>4
  <2>2. DEFINE q == [req[r] EXCEPT !.pc = "revoke_key", !.key = {k}]
  <2>3. req[r] \in Request /\ k \in APIKey /\ k \in keys
          /\ k.org = path_org /\ req[r].org = path_org /\ req[r].dept = {}
    BY <1>1, <2>1 DEF TypeOK, KeysOf, PathMatches, OwnRows, OwnRow, At
  <2>4. q \in Request BY <2>3 DEF Request, Gated
  <2>5. q.dept = {} /\ q.key = {k} /\ q.org = path_org /\ q.pc = "revoke_key"
    BY <2>3 DEF Request
  <2>6. req' \in [Slot -> Request] /\ req'[r] = q /\ \A s \in Slot \ {r} : req'[s] = req[s]
    BY <2>1, <2>4, BecomeType
  <2>7. \A id : DeptOf(id)' = DeptOf(id) /\ KeyOf(id)' = KeyOf(id) BY <1>2 DEF DeptOf, KeyOf
  <2>8. \A l \in KeyOf(k.id) : l = k BY <2>3 DEF KeyOf, TypeOK
  <2> HIDE DEF q
  <2>9. Fresh'
    <3>1. \A x \in departments' \cup keys' : x.id \in used' BY <1>2 DEF Fresh
    <3>2. \A s \in Slot : \A e \in req'[s].dept : e.id \in used'
      BY <1>2, <2>5, <2>6 DEF Fresh
    <3>3. ASSUME NEW s \in Slot, NEW l \in req'[s].key PROVE l.id \in used'
      <4>1. CASE s = r BY <1>2, <2>3, <2>5, <2>6, <4>1 DEF Fresh
      <4>2. CASE s # r BY <1>2, <2>6, <4>2 DEF Fresh
      <4>3. QED BY <4>1, <4>2
    <3>4. ASSUME NEW s \in Slot, At(s, "create_department")', NEW e \in req'[s].dept
          PROVE  DeptOf(e.id)' = {} /\ \A t \in Slot \ {s} : \A f \in req'[t].dept : f.id # e.id
      <4>1. s # r BY <2>5, <2>6, <3>4 DEF At
      <4>2. At(s, "create_department") /\ e \in req[s].dept BY <2>6, <3>4, <4>1 DEF At
      <4>3. DeptOf(e.id) = {} /\ \A t \in Slot \ {s} : \A f \in req[t].dept : f.id # e.id
        BY <4>2 DEF Fresh
      <4>4. QED BY <2>5, <2>6, <2>7, <4>3
    <3>5. QED BY <3>1, <3>2, <3>3, <3>4 DEF Fresh
  <2>10. ASSUME NEW s \in Slot PROVE OwnRow(s)'
    <3>1. CASE s = r BY <2>3, <2>5, <2>6, <2>7, <2>8, <3>1 DEF OwnRow, At
    <3>2. CASE s # r
      <4>1. req'[s] = req[s] BY <2>6, <3>2
      <4>2. QED BY <2>7, <4>1 DEF OwnRows, OwnRow, At
    <3>3. QED BY <3>1, <3>2
  <2>11. QED BY <1>1, <2>6, <2>9, <2>10 DEF OwnRows
<1>5. QED BY <1>3, <1>4

\* A key is created under an id nobody has.
LEMMA CreateKeyKeeps ==
  ASSUME TypeOK, Fresh, OwnRows, NEW r \in Slot, CreateKey(r)
  PROVE  Fresh' /\ OwnRows' /\ Released(r)
<1>1. PICK path_org \in Org, id \in KeyId \ used, expired \in BOOLEAN :
        /\ used' = used \cup {id}
        /\ \/ keys' = keys \cup {[id |-> id, org |-> path_org,
                                  revoked |-> FALSE, expired |-> expired]}
           \/ UNCHANGED keys
        /\ UNCHANGED departments
  BY DEF CreateKey
<1>2. Released(r) BY ReplyReleases DEF CreateKey
<1>3. CASE UNCHANGED keys
  BY <1>1, <1>2, <1>3, ReleaseKeeps DEF Kept
<1>4. CASE keys' = keys \cup {[id |-> id, org |-> path_org, revoked |-> FALSE, expired |-> expired]}
  <2>1. PICK q \in Request :
          /\ q.dept = {} /\ q.pc \notin {"create_department", "revoke_key"}
          /\ q.key \subseteq keys \cup req[r].key
          /\ req'[r] = q /\ \A s \in Slot \ {r} : req'[s] = req[s]
    BY <1>2, BecomeType DEF Released
  <2>2. \A d : DeptOf(d)' = DeptOf(d) BY <1>1 DEF DeptOf
  <2>3. \A s \in Slot : \A k \in req[s].key : KeyOf(k.id)' = KeyOf(k.id)
    BY <1>4 DEF Fresh, KeyOf
  <2>4. Fresh'
    <3>1. \A x \in departments' \cup keys' : x.id \in used' BY <1>1, <1>4 DEF Fresh
    <3>2. \A s \in Slot : \A e \in req'[s].dept : e.id \in used' BY <1>1, <2>1 DEF Fresh
    <3>3. \A s \in Slot : \A k \in req'[s].key : k.id \in used' BY <1>1, <2>1 DEF Fresh
    <3>4. ASSUME NEW s \in Slot, At(s, "create_department")', NEW e \in req'[s].dept
          PROVE  DeptOf(e.id)' = {} /\ \A t \in Slot \ {s} : \A f \in req'[t].dept : f.id # e.id
      <4>1. s # r /\ At(s, "create_department") /\ e \in req[s].dept BY <2>1, <3>4 DEF At
      <4>2. QED BY <2>1, <2>2, <4>1 DEF Fresh
    <3>5. QED BY <3>1, <3>2, <3>3, <3>4 DEF Fresh
  <2>5. ASSUME NEW s \in Slot PROVE OwnRow(s)'
    <3>1. CASE s = r BY <2>1, <3>1 DEF OwnRow, At
    <3>2. CASE s # r
      <4>1. req'[s] = req[s] BY <2>1, <3>2
      <4>2. QED BY <2>2, <2>3, <4>1 DEF OwnRows, OwnRow, At
    <3>3. QED BY <3>1, <3>2
  <2>6. QED BY <1>2, <2>4, <2>5 DEF OwnRows
<1>5. QED BY <1>1, <1>3, <1>4

\* An expiry changes no id and no owner.
LEMMA ExpireKeeps ==
  ASSUME TypeOK, Fresh, OwnRows, Expire
  PROVE  Fresh' /\ OwnRows'
<1>1. PICK k \in keys :
        /\ keys' = (keys \ {k}) \cup {[k EXCEPT !.expired = TRUE]}
        /\ UNCHANGED <<departments, used, req>>
  BY DEF Expire
<1>2. Kept(keys', keys) BY <1>1 DEF Kept, TypeOK, APIKey
<1>3. \A d : DeptOf(d)' = DeptOf(d) BY <1>1 DEF DeptOf
<1>4. Fresh'
  <2>1. \A x \in departments' \cup keys' : x.id \in used' BY <1>1, <1>2 DEF Fresh, Kept
  <2>2. QED BY <1>1, <1>3, <2>1 DEF Fresh, At
<1>5. ASSUME NEW s \in Slot PROVE OwnRow(s)'
  <2>1. OwnRow(s) BY DEF OwnRows
  <2>2. ASSUME At(s, "revoke_key")', NEW l \in req'[s].key
        PROVE  l.org = req'[s].org /\ \A m \in KeyOf(l.id)' : m.org = l.org
    BY <1>1, <1>2, <2>1, <2>2 DEF OwnRow, At, Kept, KeyOf
  <2>3. QED BY <1>1, <1>3, <2>1, <2>2 DEF OwnRow, At
<1>6. QED BY <1>4, <1>5 DEF OwnRows

----------------------------------------------------------------------------
(* Types, names and references.                                            *)

Tables == TypeOK /\ NamesUnique /\ ReferencesHold

\* Steps of the requests alone.
LEMMA UnwrittenTables ==
  ASSUME Tables, UNCHANGED tables,
         req' \in [Slot -> Request], used' \in SUBSET (DeptId \cup KeyId)
  PROVE  Tables'
BY DEF Tables, TypeOK, NamesUnique, ReferencesHold, tables, DeptOf, Exists

\* The foreign keys of members, whose rows keep their primary key.
LEMMA SetNullKeeps ==
  ASSUME NEW rows \in SUBSET OrgMember, NEW ids \in SUBSET DeptId,
         \A m, n \in rows : m.org = n.org /\ m.user = n.user => m = n
  PROVE  /\ SetNull(rows, ids) \in SUBSET OrgMember
         /\ \A m, n \in SetNull(rows, ids) : m.org = n.org /\ m.user = n.user => m = n
         /\ \A m \in SetNull(rows, ids) :
              /\ \E was \in rows : was.org = m.org /\ m.department_id \in {None, was.department_id}
              /\ m.department_id = None \/ m.department_id \notin ids
<1>1. ASSUME NEW m \in SetNull(rows, ids)
      PROVE  /\ m \in OrgMember
             /\ \E was \in rows :
                  /\ was.org = m.org /\ was.user = m.user
                  /\ m = IF was.department_id \in ids THEN [was EXCEPT !.department_id = None]
                         ELSE was
                  /\ m.department_id \in {None, was.department_id}
                  /\ m.department_id = None \/ m.department_id \notin ids
  <2>1. PICK was \in rows :
          m = IF was.department_id \in ids THEN [was EXCEPT !.department_id = None] ELSE was
    BY DEF SetNull
  <2>2. was \in OrgMember OBVIOUS
  <2>3. QED BY <2>1, <2>2 DEF OrgMember
<1>2. \A m, n \in SetNull(rows, ids) : m.org = n.org /\ m.user = n.user => m = n
  BY <1>1
<1>3. QED BY <1>1, <1>2

\* An insertion has passed both constraints.
LEMMA InsertDepartmentTables ==
  ASSUME Tables, Fresh, OwnRows, NEW r \in Slot, InsertDepartment(r) PROVE Tables'
<1>1. TypeOK /\ NamesUnique /\ ReferencesHold /\ UNCHANGED <<orgs, members, keys, used>>
  BY DEF Tables, InsertDepartment
<1>2. req' \in [Slot -> Request] BY <1>1, ReplyReleases, ReleasedType DEF InsertDepartment
<1>3. CASE UNCHANGED departments
  BY <1>1, <1>2, <1>3, UnwrittenTables DEF tables, TypeOK
<1>4. CASE /\ \A d \in req[r].dept : UniqueName(d) /\ ForeignKey(d.org)
           /\ departments' = departments \cup req[r].dept
  <2>1. \A d \in req[r].dept : DeptOf(d.id) = {} BY DEF InsertDepartment, Fresh
  <2>2. \A d, e \in req[r].dept : d = e BY DEF OwnRows, OwnRow
  <2>3. req[r].dept \in SUBSET Department BY <1>1 DEF TypeOK, Request
  <2>4. \A d, e \in departments' : d.id = e.id => d = e
    BY <1>1, <1>4, <2>1, <2>2 DEF TypeOK, DeptOf
  <2>5. TypeOK' BY <1>1, <1>2, <1>4, <2>3, <2>4 DEF TypeOK
  <2>6. \A d \in req[r].dept, e \in departments : d.org = e.org => d.name # e.name
    BY <1>4, <2>1 DEF UniqueName, DeptOf
  <2>7. NamesUnique' BY <1>1, <1>4, <2>2, <2>6 DEF NamesUnique
  <2>8. ReferencesHold'
    BY <1>1, <1>4 DEF ReferencesHold, ForeignKey, Exists, DeptOf
  <2>9. QED BY <2>5, <2>7, <2>8 DEF Tables
<1>5. QED BY <1>3, <1>4 DEF InsertDepartment

\* A renamed row has the id and the organization of the row it replaces.
LEMMA UpdateDepartmentTables ==
  ASSUME Tables, Fresh, OwnRows, NEW r \in Slot, UpdateDepartment(r) PROVE Tables'
<1>1. TypeOK /\ NamesUnique /\ ReferencesHold /\ UNCHANGED <<orgs, members, keys, used>>
  BY DEF Tables, UpdateDepartment
<1>2. req' \in [Slot -> Request] BY <1>1, ReplyReleases, ReleasedType DEF UpdateDepartment
<1>3. CASE UNCHANGED departments
  BY <1>1, <1>2, <1>3, UnwrittenTables DEF tables, TypeOK
<1>4. CASE departments' # departments
  <2>1. PICK name \in Name, d \in req[r].dept :
          LET renamed == [d EXCEPT !.name = name] IN
          /\ DeptOf(d.id) # {} /\ UniqueName(renamed)
          /\ departments' = Without({d.id}) \cup {renamed}
    BY <1>4 DEF UpdateDepartment
  <2>2. DEFINE renamed == [d EXCEPT !.name = name]
  <2>3. d \in Department BY <1>1 DEF TypeOK, Request
  <2>4. renamed \in Department /\ renamed.id = d.id /\ renamed.org = d.org
    BY <2>3 DEF Department
  <2>5. PICK e \in departments : e.id = d.id /\ e.org = d.org
    BY <2>1 DEF OwnRows, OwnRow, DeptOf
  <2>6. UniqueName(renamed) /\ departments' = Without({d.id}) \cup {renamed} BY <2>1
  <2> HIDE DEF renamed
  <2>7. \A x, y \in departments' : x.id = y.id => x = y
    BY <1>1, <2>4, <2>6 DEF TypeOK, Without
  <2>8. TypeOK' BY <1>1, <1>2, <2>4, <2>6, <2>7 DEF TypeOK, Without
  <2>9. NamesUnique'
    BY <1>1, <2>4, <2>6 DEF NamesUnique, UniqueName, Without
  <2>10. \A id : DeptOf(id) # {} => DeptOf(id)' # {}
    BY <2>4, <2>6 DEF DeptOf, Without
  <2>11. Exists(renamed.org) BY <1>1, <2>4, <2>5 DEF ReferencesHold
  <2>12. \A row \in departments' \cup keys' \cup members' : Exists(row.org)'
    BY <1>1, <2>6, <2>11 DEF ReferencesHold, Exists, Without
  <2>13. ReferencesHold' BY <1>1, <2>10, <2>12 DEF ReferencesHold
  <2>14. QED BY <2>8, <2>9, <2>13 DEF Tables
<1>5. QED BY <1>3, <1>4

\* A deletion sets the references to null that it would leave dangling.
LEMMA DeleteDepartmentTables ==
  ASSUME Tables, NEW r \in Slot, DeleteDepartment(r) PROVE Tables'
<1>1. TypeOK /\ NamesUnique /\ ReferencesHold /\ UNCHANGED <<orgs, keys, used>>
  BY DEF Tables, DeleteDepartment
<1>2. req' \in [Slot -> Request] BY <1>1, ReplyReleases, ReleasedType DEF DeleteDepartment
<1>3. PICK d \in req[r].dept :
        departments' = Without({d.id}) /\ members' = SetNull(members, {d.id})
  BY DEF DeleteDepartment
<1>4. d.id \in DeptId BY <1>1 DEF TypeOK, Request, Department
<1>5. /\ members' \in SUBSET OrgMember
      /\ \A m, n \in members' : m.org = n.org /\ m.user = n.user => m = n
      /\ \A m \in members' :
           /\ \E was \in members : was.org = m.org /\ m.department_id \in {None, was.department_id}
           /\ m.department_id = None \/ m.department_id \notin {d.id}
  <2>1. {d.id} \in SUBSET DeptId /\ members \in SUBSET OrgMember
          /\ \A m, n \in members : m.org = n.org /\ m.user = n.user => m = n
    BY <1>1, <1>4 DEF TypeOK
  <2>2. DEFINE rows == SetNull(members, {d.id})
  <2>3. /\ rows \in SUBSET OrgMember
        /\ \A m, n \in rows : m.org = n.org /\ m.user = n.user => m = n
        /\ \A m \in rows :
             /\ \E was \in members : was.org = m.org /\ m.department_id \in {None, was.department_id}
             /\ m.department_id = None \/ m.department_id \notin {d.id}
    BY <2>1, SetNullKeeps
  <2>4. members' = rows BY <1>3
  <2> HIDE DEF rows
  <2>5. QED BY <2>3, <2>4
<1>6. TypeOK' BY <1>1, <1>2, <1>3, <1>5 DEF TypeOK, Without
<1>7. NamesUnique' BY <1>1, <1>3 DEF NamesUnique, Without
<1>8. \A id : id # d.id => DeptOf(id)' = DeptOf(id) BY <1>3 DEF DeptOf, Without
<1>9. ReferencesHold'
  <2>1. \A row \in departments' \cup keys' \cup members' : Exists(row.org)'
    BY <1>1, <1>3, <1>5 DEF ReferencesHold, Exists, Without
  <2>2. ASSUME NEW m \in members', m.department_id # None PROVE DeptOf(m.department_id)' # {}
    <3>1. PICK was \in members : m.department_id \in {None, was.department_id} BY <1>5
    <3>2. was.department_id = m.department_id BY <2>2, <3>1
    <3>3. m.department_id # d.id BY <1>5, <2>2
    <3>4. DeptOf(m.department_id) # {} BY <1>1, <2>2, <3>2 DEF ReferencesHold
    <3>5. QED BY <1>8, <3>3, <3>4
  <2>3. QED BY <2>1, <2>2 DEF ReferencesHold
<1>10. QED BY <1>6, <1>7, <1>9 DEF Tables

\* An assignment replaces the row of the same member, and points at a department.
LEMMA AssignTables ==
  ASSUME Tables, NEW r \in Slot, Assign(r) PROVE Tables'
<1>1. TypeOK /\ NamesUnique /\ ReferencesHold /\ UNCHANGED <<orgs, departments, keys, used>>
  BY DEF Tables, Assign
<1>2. req' \in [Slot -> Request] BY <1>1, ReplyReleases, ReleasedType DEF Assign
<1>3. CASE UNCHANGED members
  BY <1>1, <1>2, <1>3, UnwrittenTables DEF tables, TypeOK
<1>4. CASE members' # members
  <2>1. PICK id \in DeptId, m \in req[r].member :
          LET rows == MemberRows(m.org, m.user) IN
          /\ rows # {} /\ DeptOf(id) # {}
          /\ members' = (members \ rows) \cup {[m EXCEPT !.department_id = id]}
    BY <1>4 DEF Assign
  <2>2. DEFINE new == [m EXCEPT !.department_id = id]
  <2>3. m \in OrgMember BY <1>1 DEF TypeOK, Request
  <2>4. new \in OrgMember /\ new.org = m.org /\ new.user = m.user /\ new.department_id = id
    BY <2>3 DEF OrgMember
  <2>5. PICK was \in members : was.org = m.org BY <2>1 DEF MemberRows
  <2>6. DeptOf(id) # {} /\ members' = (members \ MemberRows(m.org, m.user)) \cup {new} BY <2>1
  <2> HIDE DEF new
  <2>7. \A x, y \in members' : x.org = y.org /\ x.user = y.user => x = y
    BY <1>1, <2>4, <2>6 DEF TypeOK, MemberRows
  <2>8. members' \in SUBSET OrgMember BY <1>1, <2>4, <2>6 DEF TypeOK
  <2>9. TypeOK' BY <1>1, <1>2, <2>7, <2>8 DEF TypeOK
  <2>10. NamesUnique' BY <1>1 DEF NamesUnique
  <2>11. \A d : DeptOf(d)' = DeptOf(d) BY <1>1 DEF DeptOf
  <2>12. \A row \in departments' \cup keys' \cup members' : Exists(row.org)'
    BY <1>1, <2>4, <2>5, <2>6 DEF ReferencesHold, Exists
  <2>13. \A x \in members' : x.department_id # None => DeptOf(x.department_id)' # {}
    BY <1>1, <2>4, <2>6, <2>11 DEF ReferencesHold
  <2>14. QED BY <2>9, <2>10, <2>12, <2>13 DEF Tables, ReferencesHold
<1>5. QED BY <1>3, <1>4

\* Keys come with an unused id, for an organization that exists.
LEMMA CreateKeyTables ==
  ASSUME Tables, Fresh, NEW r \in Slot, CreateKey(r) PROVE Tables'
<1>1. TypeOK /\ NamesUnique /\ ReferencesHold /\ UNCHANGED <<orgs, departments, members>>
  BY DEF Tables, CreateKey
<1>2. req' \in [Slot -> Request] BY <1>1, ReplyReleases, ReleasedType DEF CreateKey
<1>3. PICK path_org \in Org, id \in KeyId \ used, expired \in BOOLEAN :
        /\ used' = used \cup {id}
        /\ \/ /\ ForeignKey(path_org)
              /\ keys' = keys \cup {[id |-> id, org |-> path_org,
                                     revoked |-> FALSE, expired |-> expired]}
           \/ UNCHANGED keys
  BY DEF CreateKey
<1>4. used' \in SUBSET (DeptId \cup KeyId) BY <1>1, <1>3 DEF TypeOK
<1>5. CASE UNCHANGED keys
  BY <1>1, <1>2, <1>4, <1>5, UnwrittenTables DEF tables
<1>6. CASE keys' # keys
  <2>1. DEFINE new == [id |-> id, org |-> path_org, revoked |-> FALSE, expired |-> expired]
  <2>2. new \in APIKey /\ new.id = id /\ new.org = path_org BY DEF APIKey
  <2>3. Exists(path_org) /\ keys' = keys \cup {new} BY <1>3, <1>6 DEF ForeignKey
  <2> HIDE DEF new
  <2>4. \A k \in keys : k.id # id BY DEF Fresh
  <2>5. \A k, l \in keys' : k.id = l.id => k = l BY <1>1, <2>2, <2>3, <2>4 DEF TypeOK
  <2>6. TypeOK' BY <1>1, <1>2, <1>4, <2>2, <2>3, <2>5 DEF TypeOK
  <2>7. NamesUnique' BY <1>1 DEF NamesUnique
  <2>8. ReferencesHold' BY <1>1, <2>2, <2>3 DEF ReferencesHold, Exists, DeptOf
  <2>9. QED BY <2>6, <2>7, <2>8 DEF Tables
<1>7. QED BY <1>5, <1>6

\* Marking keys changes neither their ids nor their organizations.
LEMMA MarkedKeys ==
  ASSUME Tables, UNCHANGED <<orgs, departments, members, used>>,
         req' \in [Slot -> Request], keys' \in SUBSET APIKey, Kept(keys', keys),
         \A k, l \in keys' : k.id = l.id => k = l
  PROVE  Tables'
<1>1. TypeOK' BY DEF Tables, TypeOK
<1>2. NamesUnique' BY DEF Tables, NamesUnique
<1>3. \A row \in departments' \cup keys' \cup members' : Exists(row.org)'
  BY DEF Tables, ReferencesHold, Exists, Kept
<1>4. ReferencesHold' BY <1>3 DEF Tables, ReferencesHold, DeptOf
<1>5. QED BY <1>1, <1>2, <1>4 DEF Tables

\* A revocation marks the stored row, and no other.
LEMMA RevokeKeyTables ==
  ASSUME Tables, NEW r \in Slot, RevokeKey(r) PROVE Tables'
<1>1. TypeOK /\ UNCHANGED <<orgs, departments, members, used>>
  BY DEF Tables, RevokeKey
<1>2. req' \in [Slot -> Request] BY <1>1, ReplyReleases, ReleasedType DEF RevokeKey
<1>3. PICK k \in req[r].key :
        \/ UNCHANGED keys
        \/ keys' = {IF stored.id = k.id THEN [stored EXCEPT !.revoked = TRUE]
                    ELSE stored : stored \in keys}
  BY DEF RevokeKey
<1>4. CASE UNCHANGED keys
  BY <1>1, <1>2, <1>4, UnwrittenTables DEF tables, TypeOK
<1>5. CASE keys' = {IF stored.id = k.id THEN [stored EXCEPT !.revoked = TRUE]
                    ELSE stored : stored \in keys}
  <2>1. ASSUME NEW l \in keys'
        PROVE  /\ l \in APIKey
               /\ \E was \in keys : /\ was.id = l.id /\ was.org = l.org
                                    /\ l = IF was.id = k.id THEN [was EXCEPT !.revoked = TRUE]
                                           ELSE was
    <3>1. PICK was \in keys :
            l = IF was.id = k.id THEN [was EXCEPT !.revoked = TRUE] ELSE was
      BY <1>5
    <3>2. was \in APIKey BY <1>1 DEF TypeOK
    <3>3. QED BY <3>1, <3>2 DEF APIKey
  <2>2. ASSUME NEW x \in keys', NEW y \in keys', x.id = y.id PROVE x = y
    <3>1. PICK v \in keys : v.id = x.id
                          /\ x = IF v.id = k.id THEN [v EXCEPT !.revoked = TRUE] ELSE v
      BY <2>1
    <3>2. PICK w \in keys : w.id = y.id
                          /\ y = IF w.id = k.id THEN [w EXCEPT !.revoked = TRUE] ELSE w
      BY <2>1
    <3>3. v = w BY <1>1, <2>2, <3>1, <3>2 DEF TypeOK
    <3>4. QED BY <3>1, <3>2, <3>3
  <2>3. keys' \in SUBSET APIKey /\ Kept(keys', keys) BY <2>1 DEF Kept
  <2>4. QED BY <1>1, <1>2, <2>2, <2>3, MarkedKeys
<1>6. QED BY <1>3, <1>4, <1>5

\* Time marks a key as expired.
LEMMA ExpireTables ==
  ASSUME Tables, Expire PROVE Tables'
<1>1. PICK k \in keys :
        /\ keys' = (keys \ {k}) \cup {[k EXCEPT !.expired = TRUE]}
        /\ UNCHANGED <<orgs, departments, members, used, req>>
  BY DEF Expire
<1>2. TypeOK BY DEF Tables
<1>3. DEFINE new == [k EXCEPT !.expired = TRUE]
<1>4. new \in APIKey /\ new.id = k.id /\ new.org = k.org BY <1>2 DEF TypeOK, APIKey
<1>5. keys' = (keys \ {k}) \cup {new} BY <1>1
<1> HIDE DEF new
<1>6. \A x, y \in keys' : x.id = y.id => x = y BY <1>2, <1>4, <1>5 DEF TypeOK
<1>7. keys' \in SUBSET APIKey /\ Kept(keys', keys) /\ req' \in [Slot -> Request]
  BY <1>1, <1>2, <1>4, <1>5 DEF TypeOK, Kept
<1>8. QED BY <1>1, <1>6, <1>7, MarkedKeys

\* Suspension and reactivation delete nothing.
LEMMA UpdateOrgTables ==
  ASSUME Tables, NEW r \in Slot, UpdateOrg(r) PROVE Tables'
<1>1. TypeOK /\ NamesUnique /\ ReferencesHold /\ UNCHANGED <<departments, members, keys, used>>
  BY DEF Tables, UpdateOrg
<1>2. req' \in [Slot -> Request] BY <1>1, ReplyReleases, ReleasedType DEF UpdateOrg
<1>3. CASE UNCHANGED orgs
  BY <1>1, <1>2, <1>3, UnwrittenTables DEF tables, TypeOK
<1>4. CASE orgs' # orgs
  <2>1. PICK path_org \in Org, state \in {"active", "suspended"} :
          Exists(path_org) /\ orgs' = [orgs EXCEPT ![path_org] = state]
    BY <1>4 DEF UpdateOrg
  <2>2. TypeOK' BY <1>1, <1>2, <2>1 DEF TypeOK
  <2>3. NamesUnique' BY <1>1 DEF NamesUnique
  <2>4. \A o \in Org : Exists(o) => Exists(o)' BY <1>1, <2>1 DEF Exists, TypeOK
  <2>5. \A row \in departments \cup keys \cup members : row.org \in Org
    BY <1>1 DEF TypeOK, Department, APIKey, OrgMember
  <2>6. ReferencesHold' BY <1>1, <2>4, <2>5 DEF ReferencesHold, DeptOf
  <2>7. QED BY <2>2, <2>3, <2>6 DEF Tables
<1>5. QED BY <1>3, <1>4

\* Deleting an organization takes all that references it along.
LEMMA DeleteOrgTables ==
  ASSUME Tables, NEW r \in Slot, DeleteOrg(r) PROVE Tables'
<1>1. TypeOK /\ NamesUnique /\ ReferencesHold /\ UNCHANGED used
  BY DEF Tables, DeleteOrg
<1>2. req' \in [Slot -> Request] BY <1>1, ReplyReleases, ReleasedType DEF DeleteOrg
<1>3. CASE UNCHANGED tables
  BY <1>1, <1>2, <1>3, UnwrittenTables DEF TypeOK
<1>4. CASE ~UNCHANGED tables
  <2>1. PICK gone \in Org :
          /\ orgs' = [orgs EXCEPT ![gone] = "deleted"]
          /\ departments' = {d \in departments : d.org # gone}
          /\ members' = SetNull({m \in members : m.org # gone},
                                {d.id : d \in {dept \in departments : dept.org = gone}})
          /\ keys' = {k \in keys : k.org # gone}
    BY <1>4 DEF DeleteOrg
  <2>2. DEFINE staying == {m \in members : m.org # gone}
               ids == {d.id : d \in {dept \in departments : dept.org = gone}}
               rows == SetNull(staying, ids)
  <2>3. staying \in SUBSET OrgMember /\ ids \in SUBSET DeptId
          /\ \A m, n \in staying : m.org = n.org /\ m.user = n.user => m = n
    BY <1>1 DEF TypeOK, Department
  <2>4. members' = rows BY <2>1
  <2>5. \A d \in departments : d.org = gone => d.id \in ids OBVIOUS
  <2>6. \A m \in staying : m \in members /\ m.org # gone OBVIOUS
  <2> HIDE DEF staying, ids
  <2>7. /\ rows \in SUBSET OrgMember
        /\ \A m, n \in rows : m.org = n.org /\ m.user = n.user => m = n
        /\ \A m \in rows :
             /\ \E was \in staying : was.org = m.org /\ m.department_id \in {None, was.department_id}
             /\ m.department_id = None \/ m.department_id \notin ids
    BY <2>3, SetNullKeeps
  <2> HIDE DEF rows
  <2>8. TypeOK' BY <1>1, <1>2, <2>1, <2>4, <2>7 DEF TypeOK
  <2>9. NamesUnique' BY <1>1, <2>1 DEF NamesUnique
  <2>10. \A o \in Org : Exists(o) /\ o # gone => Exists(o)' BY <1>1, <2>1 DEF Exists, TypeOK
  <2>11. \A row \in departments \cup keys \cup members : row.org \in Org
    BY <1>1 DEF TypeOK, Department, APIKey, OrgMember
  <2>12. \A row \in departments' \cup keys' \cup members' : Exists(row.org)'
    BY <1>1, <2>1, <2>4, <2>6, <2>7, <2>10, <2>11 DEF ReferencesHold
  <2>13. ASSUME NEW m \in members', m.department_id # None PROVE DeptOf(m.department_id)' # {}
    <3>1. PICK was \in staying : m.department_id \in {None, was.department_id} BY <2>4, <2>7
    <3>2. was.department_id = m.department_id BY <2>13, <3>1
    <3>3. m.department_id \notin ids BY <2>4, <2>7, <2>13
    <3>4. PICK d \in departments : d.id = m.department_id
      BY <1>1, <2>6, <2>13, <3>2 DEF ReferencesHold, DeptOf
    <3>5. QED BY <2>1, <2>5, <3>3, <3>4 DEF DeptOf
  <2>14. QED BY <2>8, <2>9, <2>12, <2>13 DEF Tables, ReferencesHold
<1>5. QED BY <1>3, <1>4

----------------------------------------------------------------------------
(* The invariant.                                                          *)

\* An empty database, and one session per slot that holds nothing.
LEMMA InitInvariant == Init => IInv
<1> SUFFICES ASSUME Init PROVE IInv
  OBVIOUS
<1>1. \A r \in Slot : req[r] = Answered("replied") BY DEF Init
<1>2. \A r \in Slot : req[r].dept = {} /\ req[r].key = {} /\ req[r].pc = "replied"
  BY <1>1 DEF Answered
<1>3. \A m \in members : m \in OrgMember /\ m.department_id = None
                       /\ \E seat \in Seat : m = [org |-> seat[1], user |-> seat[2],
                                                  department_id |-> None]
  BY ResourceAssumption DEF Init, OrgMember
<1>4. \A m, n \in members : m.org = n.org /\ m.user = n.user => m = n BY <1>3
<1>5. req \in [Slot -> Request] BY AnsweredType DEF Init, Replied
<1>6. TypeOK BY <1>3, <1>4, <1>5 DEF Init, TypeOK
<1>7. Fresh BY <1>2 DEF Init, Fresh, At
<1>8. OwnRows BY <1>2 DEF OwnRows, OwnRow, At
<1>9. NamesUnique BY DEF Init, NamesUnique
<1>10. \A m \in members : m.org \in Org BY <1>3 DEF OrgMember
<1>11. ReferencesHold BY <1>3, <1>10 DEF Init, ReferencesHold, Exists
<1>12. QED BY <1>6, <1>7, <1>8, <1>9, <1>11 DEF IInv

\* The steps that release the session's rows, and insert none.
Releasing(r) ==
  \/ Authorise(r) \/ WrongPath(r) \/ Rollback(r) \/ FindMember(r)
  \/ LookUpKey(r) \/ KeyOrg(r) \/ TouchKey(r)
  \/ UpdateDepartment(r) \/ DeleteDepartment(r) \/ Assign(r) \/ RevokeKey(r)
  \/ UpdateOrg(r) \/ DeleteOrg(r)

\* Each of them preserves the invariant.
LEMMA ReleasingStep ==
  ASSUME IInv, NEW r \in Slot, Releasing(r) PROVE IInv'
<1>1. Tables /\ Fresh /\ OwnRows /\ TypeOK BY DEF IInv, Tables
<1>2. CASE Authorise(r) \/ WrongPath(r) \/ Rollback(r) \/ FindMember(r)
             \/ LookUpKey(r) \/ KeyOrg(r) \/ TouchKey(r)
  <2>1. Released(r) /\ UNCHANGED <<tables, used>> BY <1>1, <1>2, Readers
  <2>2. Kept(departments', departments) /\ Kept(keys', keys) BY <2>1 DEF tables, Kept
  <2>3. Fresh' /\ OwnRows' BY <1>1, <2>1, <2>2, ReleaseKeeps
  <2>4. Tables' BY <1>1, <2>1, UnwrittenTables, ReleasedType DEF TypeOK
  <2>5. QED BY <2>3, <2>4 DEF IInv, Tables
<1>3. CASE UpdateDepartment(r) \/ DeleteDepartment(r) \/ Assign(r) \/ RevokeKey(r)
             \/ UpdateOrg(r) \/ DeleteOrg(r)
  <2>1. Fresh' /\ OwnRows' BY <1>1, <1>3, Writers, ReleaseKeeps
  <2>2. Tables'
    BY <1>1, <1>3, UpdateDepartmentTables, DeleteDepartmentTables, AssignTables,
       RevokeKeyTables, UpdateOrgTables, DeleteOrgTables
  <2>3. QED BY <2>1, <2>2 DEF IInv, Tables
<1>4. QED BY <1>2, <1>3 DEF Releasing

\* The steps that load a row to act upon, or insert one.
Loading(r) ==
  \/ CreateDepartment(r) \/ InsertDepartment(r) \/ FindDepartment(r)
  \/ CreateKey(r) \/ FindKey(r)

\* So does each of these.
LEMMA LoadingStep ==
  ASSUME IInv, NEW r \in Slot, Loading(r) PROVE IInv'
<1>1. Tables /\ Fresh /\ OwnRows /\ TypeOK BY DEF IInv, Tables
<1>2. CASE CreateDepartment(r)
  BY <1>1, <1>2, CreateDepartmentKeeps, UnwrittenTables DEF IInv, Tables
<1>3. CASE InsertDepartment(r)
  BY <1>1, <1>3, InsertDepartmentKeeps, InsertDepartmentTables DEF IInv, Tables
<1>4. CASE FindDepartment(r)
  <2>1. Fresh' /\ OwnRows' /\ req' \in [Slot -> Request] /\ UNCHANGED <<tables, used>>
    BY <1>1, <1>4, FindDepartmentKeeps
  <2>2. Tables' BY <1>1, <2>1, UnwrittenTables DEF TypeOK
  <2>3. QED BY <2>1, <2>2 DEF IInv, Tables
<1>5. CASE CreateKey(r)
  BY <1>1, <1>5, CreateKeyKeeps, CreateKeyTables DEF IInv, Tables
<1>6. CASE FindKey(r)
  <2>1. Fresh' /\ OwnRows' /\ req' \in [Slot -> Request] /\ UNCHANGED <<tables, used>>
    BY <1>1, <1>6, FindKeyKeeps
  <2>2. Tables' BY <1>1, <2>1, UnwrittenTables DEF TypeOK
  <2>3. QED BY <2>1, <2>2 DEF IInv, Tables
<1>7. QED BY <1>2, <1>3, <1>4, <1>5, <1>6 DEF Loading

\* A step is one of a slot, an expiry, or a stutter.
LEMMA Steps ==
  ASSUME [Next]_vars
  PROVE  (\E r \in Slot : Releasing(r) \/ Loading(r)) \/ Expire \/ UNCHANGED vars
BY DEF Next, DepartmentOps, KeyOps, Releasing, Loading

\* Every step preserves the invariant.
LEMMA InvariantStep == IInv /\ [Next]_vars => IInv'
<1> SUFFICES ASSUME IInv, [Next]_vars PROVE IInv'
  OBVIOUS
<1>1. CASE \E r \in Slot : Releasing(r) \/ Loading(r)
  BY <1>1, ReleasingStep, LoadingStep
<1>2. CASE Expire
  BY <1>2, ExpireKeeps, ExpireTables DEF IInv, Tables
<1>3. CASE UNCHANGED vars
  <2>1. UNCHANGED tables /\ UNCHANGED <<departments, keys, used, req>>
    BY <1>3 DEF vars, tables
  <2>2. Tables' BY <2>1, UnwrittenTables DEF IInv, Tables, TypeOK
  <2>3. \A id : DeptOf(id)' = DeptOf(id) /\ KeyOf(id)' = KeyOf(id)
    BY <2>1 DEF DeptOf, KeyOf
  <2>4. Fresh' BY <2>1, <2>3 DEF IInv, Fresh, At
  <2>5. OwnRows' BY <2>1, <2>3 DEF IInv, OwnRows, OwnRow, At
  <2>6. QED BY <2>2, <2>4, <2>5 DEF IInv, Tables
<1>4. QED BY <1>1, <1>2, <1>3, Steps

\* The invariant holds in every reachable state.
LEMMA Invariant == Spec => []IInv
<1>1. Init => IInv BY InitInvariant
<1>2. IInv /\ [Next]_vars => IInv' BY InvariantStep
<1>3. QED BY <1>1, <1>2, PTL DEF Spec

\* The tables, the ids and the requests have their types, and ids are primary
\* keys, for any number of concurrent requests.
THEOREM TypeCorrect == Spec => []TypeOK
<1>1. IInv => TypeOK BY DEF IInv
<1>2. QED BY <1>1, Invariant, PTL

\* No two departments of an organization share a name, however their creations
\* and renamings interleave.
THEOREM NamesUniqueHolds == Spec => []NamesUnique
<1>1. IInv => NamesUnique BY DEF IInv
<1>2. QED BY <1>1, Invariant, PTL

\* Nothing outlives the organization it belongs to, and no member points at a
\* department that is gone.
THEOREM ReferencesHoldAlways == Spec => []ReferencesHold
<1>1. IInv => ReferencesHold BY DEF IInv
<1>2. QED BY <1>1, Invariant, PTL

----------------------------------------------------------------------------
(* Steps and answers.                                                      *)

\* A step of one slot is no step of another.
LEMMA OneSlot ==
  ASSUME IInv, NEW r \in Slot, Releasing(r) \/ Loading(r)
  PROVE  \A s \in Slot \ {r} : req'[s] = req[s]
<1>1. TypeOK /\ OwnRows /\ Fresh /\ req \in [Slot -> Request] BY DEF IInv, TypeOK
<1>2. CASE Releasing(r)
  <2>1. Released(r) BY <1>1, <1>2, Readers, Writers DEF Releasing
  <2>2. QED BY <1>1, <2>1 DEF Released, Become
<1>3. CASE CreateDepartment(r) \/ InsertDepartment(r) \/ CreateKey(r)
  BY <1>1, <1>3 DEF CreateDepartment, InsertDepartment, CreateKey, Become, Succeed, Fail, Conflict, Error
<1>4. CASE FindDepartment(r) \/ FindKey(r)
  BY <1>1, <1>4 DEF FindDepartment, FindKey, Become, Fail
<1>5. QED BY <1>2, <1>3, <1>4 DEF Loading

\* What the pc of an answer says.
LEMMA Answers ==
  ASSUME req \in [Slot -> Request], NEW r \in Slot
  PROVE  /\ Fail(r) \/ Succeed(r) => req'[r] = Answered("replied") /\ req'[r].pc = "replied"
         /\ Conflict(r) => req'[r] = Answered("conflict") /\ req'[r].pc = "conflict"
         /\ Error(r) => req'[r] = Answered("error") /\ req'[r].pc = "error"
BY DEF Fail, Succeed, Conflict, Error, Become, Answered

----------------------------------------------------------------------------
(* Revocation.                                                             *)

\* A key whose id is known was there before, and has lost neither mark.
LEMMA MarksStay ==
  ASSUME IInv, [Next]_vars, NEW k \in keys', k.id \in used
  PROVE  \E was \in keys : /\ was.id = k.id
                           /\ (was.revoked => k.revoked) /\ (was.expired => k.expired)
<1>1. \A l \in keys : l \in APIKey BY DEF IInv, TypeOK
<1>2. CASE UNCHANGED keys BY <1>2
<1>3. ASSUME NEW r \in Slot, CreateKey(r) PROVE k \in keys
  BY <1>3 DEF CreateKey
<1>4. ASSUME NEW r \in Slot, DeleteOrg(r) PROVE k \in keys
  BY <1>4 DEF DeleteOrg, tables
<1>5. ASSUME NEW r \in Slot, RevokeKey(r)
      PROVE  \E was \in keys : /\ was.id = k.id
                               /\ (was.revoked => k.revoked) /\ (was.expired => k.expired)
  <2>1. CASE k \in keys BY <2>1
  <2>2. CASE k \notin keys
    <3>1. PICK was \in keys : k = [was EXCEPT !.revoked = TRUE] BY <1>5, <2>2 DEF RevokeKey
    <3>2. QED BY <1>1, <3>1 DEF APIKey
  <2>3. QED BY <2>1, <2>2
<1>6. ASSUME Expire
      PROVE  \E was \in keys : /\ was.id = k.id
                               /\ (was.revoked => k.revoked) /\ (was.expired => k.expired)
  <2>1. CASE k \in keys BY <2>1
  <2>2. CASE k \notin keys
    <3>1. PICK was \in keys : k = [was EXCEPT !.expired = TRUE] BY <1>6, <2>2 DEF Expire
    <3>2. QED BY <1>1, <3>1 DEF APIKey
  <2>3. QED BY <2>1, <2>2
<1>7. ASSUME NEW r \in Slot, Releasing(r) \/ Loading(r),
             ~CreateKey(r), ~DeleteOrg(r), ~RevokeKey(r)
      PROVE  UNCHANGED keys
  <2>1. IInv => TypeOK /\ OwnRows /\ Fresh BY DEF IInv
  <2>2. CASE Authorise(r) \/ WrongPath(r) \/ Rollback(r) \/ FindMember(r)
               \/ LookUpKey(r) \/ KeyOrg(r) \/ TouchKey(r)
    BY <2>1, <2>2, Readers DEF tables
  <2>3. CASE UpdateDepartment(r) \/ DeleteDepartment(r) \/ Assign(r) \/ UpdateOrg(r)
    BY <2>3 DEF UpdateDepartment, DeleteDepartment, Assign, UpdateOrg
  <2>4. CASE CreateDepartment(r) \/ InsertDepartment(r) \/ FindDepartment(r) \/ FindKey(r)
    BY <2>4 DEF CreateDepartment, InsertDepartment, FindDepartment, FindKey, tables
  <2>5. QED BY <1>7, <2>2, <2>3, <2>4 DEF Releasing, Loading
<1>8. CASE UNCHANGED vars BY <1>2, <1>8 DEF vars, tables
<1>9. QED BY <1>2, <1>3, <1>4, <1>5, <1>6, <1>7, <1>8, Steps

\* A request is let in by a key it has just found usable, or by the one it holds.
LEMMA LetIn ==
  ASSUME IInv, [Next]_vars, NEW r \in Slot, req'[r].pc \in ByKey
  PROVE  \/ req[r].pc \in ByKey /\ req'[r].key = req[r].key
         \/ \E k \in keys : Usable(k) /\ req'[r].key = {k}
<1>1. req \in [Slot -> Request] /\ req[r] \in Request BY DEF IInv, TypeOK
<1>2. CASE req'[r] = req[r] BY <1>2
<1>3. CASE req'[r] # req[r]
  <2>1. PICK s \in Slot : Releasing(s) \/ Loading(s) BY <1>3, Steps DEF Expire, vars
  <2>2. s = r BY <1>3, <2>1, OneSlot
  <2>3. ~Fail(r) /\ ~Succeed(r) /\ ~Conflict(r) /\ ~Error(r) BY <1>1, Answers DEF ByKey
  <2>4. ASSUME NEW q, q.pc \notin ByKey PROVE ~Become(r, q)
    BY <1>1, <2>4 DEF Become
  <2>5. ~Authorise(r)
    <3>1. SUFFICES ASSUME NEW seat \in Seat PROVE
            ~Become(r, [Answered("authorised") EXCEPT
                          !.org = seat[1], !.member = MemberRows(seat[1], seat[2])])
      BY <2>3 DEF Authorise
    <3>2. QED BY <2>4 DEF Answered, ByKey
  <2>6. ~CreateDepartment(r) /\ ~FindDepartment(r) /\ ~FindKey(r) /\ ~FindMember(r)
    <3>1. ASSUME NEW x, NEW pc \in Gated PROVE ~Become(r, [req[r] EXCEPT !.pc = pc, !.dept = x])
      BY <1>1, <2>4 DEF Request, Gated, ByKey
    <3>2. ASSUME NEW x, NEW pc \in Gated PROVE ~Become(r, [req[r] EXCEPT !.pc = pc, !.key = x])
      BY <1>1, <2>4 DEF Request, Gated, ByKey
    <3>3. ASSUME NEW x, NEW pc \in Gated PROVE ~Become(r, [req[r] EXCEPT !.pc = pc, !.member = x])
      BY <1>1, <2>4 DEF Request, Gated, ByKey
    <3>4. ~CreateDepartment(r) BY <3>1 DEF CreateDepartment, Gated
    <3>5. ~FindDepartment(r) BY <2>3, <3>1 DEF FindDepartment, Gated
    <3>6. ~FindKey(r) BY <2>3, <3>2 DEF FindKey, Gated
    <3>7. ~FindMember(r) BY <2>3, <3>3 DEF FindMember, Gated
    <3>8. QED BY <3>4, <3>5, <3>6, <3>7
  <2>7. CASE LookUpKey(r)
    <3>1. PICK k \in keys : Usable(k) /\ Become(r, [Answered("key:org") EXCEPT !.key = {k}])
      BY <2>3, <2>7 DEF LookUpKey
    <3>2. req'[r].key = {k} BY <1>1, <3>1 DEF Become, Answered
    <3>3. QED BY <3>1, <3>2
  <2>8. CASE KeyOrg(r)
    <3>1. At(r, "key:org") /\ Become(r, [req[r] EXCEPT !.pc = "key:touch"])
      BY <2>3, <2>8 DEF KeyOrg
    <3>2. req'[r].key = req[r].key BY <1>1, <3>1 DEF Become, Request
    <3>3. QED BY <3>1, <3>2 DEF At, ByKey
  <2>9. ~WrongPath(r) /\ ~Rollback(r) /\ ~TouchKey(r) /\ ~UpdateDepartment(r)
          /\ ~DeleteDepartment(r) /\ ~Assign(r) /\ ~RevokeKey(r)
    BY <2>3 DEF WrongPath, Rollback, TouchKey, UpdateDepartment, DeleteDepartment, Assign, RevokeKey
  <2>10. ~UpdateOrg(r) /\ ~DeleteOrg(r) /\ ~InsertDepartment(r) /\ ~CreateKey(r)
    BY <2>3 DEF UpdateOrg, DeleteOrg, InsertDepartment, CreateKey
  <2>11. QED
    BY <2>1, <2>2, <2>5, <2>6, <2>7, <2>8, <2>9, <2>10 DEF Releasing, Loading
<1>4. QED BY <1>2, <1>3

\* Ids are never given back.
LEMMA UsedStays == ASSUME IInv, [Next]_vars PROVE used \subseteq used'
<1>1. TypeOK /\ OwnRows /\ Fresh BY DEF IInv
<1>2. ASSUME NEW r \in Slot, Releasing(r) PROVE used' = used
  BY <1>1, <1>2, Readers, Writers DEF Releasing
<1>3. ASSUME NEW r \in Slot, Loading(r) PROVE used \subseteq used'
  BY <1>3 DEF Loading, CreateDepartment, InsertDepartment, FindDepartment, CreateKey, FindKey
<1>4. QED BY <1>2, <1>3, Steps DEF Expire, vars

\* The step of RevocationIsFinal.
LEMMA DeadStep ==
  ASSUME IInv, [Next]_vars, NEW id \in KeyId, Dead(id)
  PROVE  Dead(id)'
<1>1. id \in used' BY UsedStays DEF Dead
<1>2. ASSUME NEW k \in KeyOf(id)' PROVE k.revoked \/ k.expired
  <2>1. k \in keys' /\ k.id = id BY DEF KeyOf
  <2>2. PICK was \in keys : /\ was.id = id
                            /\ (was.revoked => k.revoked) /\ (was.expired => k.expired)
    BY <2>1, MarksStay DEF Dead
  <2>3. was.revoked \/ was.expired BY <2>2 DEF Dead, KeyOf
  <2>4. QED BY <2>2, <2>3
<1>3. ASSUME NEW r \in Slot, req'[r].pc \in ByKey, NEW k \in req'[r].key PROVE k.id # id
  <2>1. CASE req[r].pc \in ByKey /\ req'[r].key = req[r].key BY <1>3, <2>1 DEF Dead
  <2>2. CASE \E l \in keys : Usable(l) /\ req'[r].key = {l}
    BY <1>3, <2>2 DEF Dead, KeyOf, Usable
  <2>3. QED BY <1>3, <2>1, <2>2, LetIn
<1>4. QED BY <1>1, <1>2, <1>3 DEF Dead

\* Once revoked, and out of the hands of the requests that looked it up before, a
\* key lets nobody in again.
THEOREM RevocationIsFinalHolds == Spec => RevocationIsFinal
<1> DEFINE Final == \A id \in KeyId : Dead(id) => Dead(id)'
<1>1. IInv /\ [Next]_vars => [Final]_vars BY DeadStep
<1>2. QED BY <1>1, Invariant, PTL DEF Spec, RevocationIsFinal

----------------------------------------------------------------------------
(* Isolation.                                                              *)

\* The writers of departments and keys write rows of the request's organization.
LEMMA OwnOrganization ==
  ASSUME IInv, NEW r \in Slot, Releasing(r) \/ Loading(r),
         NEW o \in Org, o # req[r].org
  PROVE  ResourcesOf(o)' = ResourcesOf(o)
<1>1. TypeOK /\ OwnRows /\ Fresh /\ req[r] \in Request /\ OwnRow(r)
  BY DEF IInv, TypeOK, OwnRows
<1>2. CASE UNCHANGED <<departments, keys>> BY <1>2 DEF ResourcesOf
<1>3. ASSUME UNCHANGED keys, \A d : d.org = o => (d \in departments' <=> d \in departments)
      PROVE  ResourcesOf(o)' = ResourcesOf(o)
  <2>1. {d \in departments' : d.org = o} = {d \in departments : d.org = o} BY <1>3
  <2>2. QED BY <1>3, <2>1 DEF ResourcesOf
<1>4. ASSUME UNCHANGED departments, \A k : k.org = o => (k \in keys' <=> k \in keys)
      PROVE  ResourcesOf(o)' = ResourcesOf(o)
  <2>1. {k \in keys' : k.org = o} = {k \in keys : k.org = o} BY <1>4
  <2>2. QED BY <1>4, <2>1 DEF ResourcesOf
<1>5. CASE InsertDepartment(r)
  <2>1. UNCHANGED keys /\ departments' \in {departments, departments \cup req[r].dept}
    BY <1>5 DEF InsertDepartment
  <2>2. \A d \in req[r].dept : d.org # o BY <1>1 DEF OwnRow
  <2>3. QED BY <1>3, <2>1, <2>2
<1>6. CASE UpdateDepartment(r)
  <2>1. CASE UNCHANGED departments BY <1>2, <1>6, <2>1 DEF UpdateDepartment
  <2>2. CASE departments' # departments
    <3>1. PICK name \in Name, d \in req[r].dept :
            departments' = Without({d.id}) \cup {[d EXCEPT !.name = name]}
      BY <1>6, <2>2 DEF UpdateDepartment
    <3>2. d \in Department /\ d.org # o /\ \A e \in DeptOf(d.id) : e.org # o
      BY <1>1 DEF OwnRow, Request
    <3>3. [d EXCEPT !.name = name].org # o BY <3>2 DEF Department
    <3>4. \A e : e.org = o => (e \in departments' <=> e \in departments)
      BY <3>1, <3>2, <3>3 DEF Without, DeptOf
    <3>5. QED BY <1>3, <1>6, <3>4 DEF UpdateDepartment
  <2>3. QED BY <2>1, <2>2
<1>7. CASE DeleteDepartment(r)
  <2>1. PICK d \in req[r].dept : departments' = Without({d.id}) BY <1>7 DEF DeleteDepartment
  <2>2. \A e \in DeptOf(d.id) : e.org # o BY <1>1 DEF OwnRow
  <2>3. \A e : e.org = o => (e \in departments' <=> e \in departments)
    BY <2>1, <2>2 DEF Without, DeptOf
  <2>4. QED BY <1>3, <1>7, <2>3 DEF DeleteDepartment
<1>8. CASE CreateKey(r)
  <2>1. PICK path_org \in Org, id \in KeyId, expired \in BOOLEAN :
          /\ path_org = req[r].org
          /\ keys' \in {keys, keys \cup {[id |-> id, org |-> path_org,
                                          revoked |-> FALSE, expired |-> expired]}}
    BY <1>8 DEF CreateKey, PathMatches
  <2>2. \A k : k.org = o => (k \in keys' <=> k \in keys) BY <2>1
  <2>3. QED BY <1>4, <1>8, <2>2 DEF CreateKey
<1>9. CASE RevokeKey(r)
  <2>1. CASE UNCHANGED keys BY <1>2, <1>9, <2>1 DEF RevokeKey
  <2>2. CASE keys' # keys
    <3>1. PICK k \in req[r].key :
            /\ At(r, "revoke_key")
            /\ keys' = {IF stored.id = k.id THEN [stored EXCEPT !.revoked = TRUE]
                        ELSE stored : stored \in keys}
      BY <1>9, <2>2 DEF RevokeKey
    <3>2. \A l \in keys : l.id = k.id => l.org # o BY <1>1, <3>1 DEF OwnRow, KeyOf
    <3>3. \A l \in keys : [l EXCEPT !.revoked = TRUE].org = l.org BY <1>1 DEF TypeOK, APIKey
    <3>4. ASSUME NEW l, l.org = o PROVE l \in keys' <=> l \in keys
      BY <3>1, <3>2, <3>3, <3>4
    <3>5. QED BY <1>4, <1>9, <3>4 DEF RevokeKey
  <2>3. QED BY <2>1, <2>2
<1>10. CASE DeleteOrg(r)
  <2>1. CASE UNCHANGED tables BY <1>2, <2>1 DEF tables
  <2>2. CASE ~UNCHANGED tables
    <3>1. PICK gone \in Org : /\ gone # o
                              /\ departments' = {d \in departments : d.org # gone}
                              /\ keys' = {k \in keys : k.org # gone}
      BY <1>10, <2>2 DEF DeleteOrg, PathMatches
    <3>2. {d \in departments' : d.org = o} = {d \in departments : d.org = o} BY <3>1
    <3>3. {k \in keys' : k.org = o} = {k \in keys : k.org = o} BY <3>1
    <3>4. QED BY <3>2, <3>3 DEF ResourcesOf
  <2>3. QED BY <2>1, <2>2
<1>11. CASE Authorise(r) \/ WrongPath(r) \/ Rollback(r) \/ FindMember(r)
              \/ LookUpKey(r) \/ KeyOrg(r) \/ TouchKey(r)
  BY <1>1, <1>2, <1>11, Readers DEF tables
<1>12. CASE Assign(r) \/ UpdateOrg(r)
  BY <1>2, <1>12 DEF Assign, UpdateOrg
<1>13. CASE CreateDepartment(r) \/ FindDepartment(r) \/ FindKey(r)
  BY <1>2, <1>13 DEF CreateDepartment, FindDepartment, FindKey, tables
<1>14. QED
  BY <1>5, <1>6, <1>7, <1>8, <1>9, <1>10, <1>11, <1>12, <1>13 DEF Releasing, Loading

\* A request that writes departments or keys is answered by the same step.
LEMMA WritersAnswer ==
  ASSUME IInv, NEW r \in Slot, Releasing(r) \/ Loading(r), req'[r] = req[r]
  PROVE  UNCHANGED <<departments, keys>>
<1>1. TypeOK /\ OwnRows /\ Fresh /\ req \in [Slot -> Request] BY DEF IInv, TypeOK
<1>2. CASE Ready(r)
  <2>1. \A path_org : ~PathMatches(r, path_org) BY <1>2 DEF Ready, PathMatches, At, Replied
  <2>2. ~InsertDepartment(r) /\ ~UpdateDepartment(r) /\ ~DeleteDepartment(r) /\ ~RevokeKey(r)
    BY <1>2 DEF Ready, At, Replied, InsertDepartment, UpdateDepartment, DeleteDepartment, RevokeKey
  <2>3. ~CreateKey(r) /\ ~DeleteOrg(r) BY <2>1 DEF CreateKey, DeleteOrg
  <2>4. CASE Authorise(r) \/ WrongPath(r) \/ Rollback(r) \/ FindMember(r)
               \/ LookUpKey(r) \/ KeyOrg(r) \/ TouchKey(r)
    BY <1>1, <2>4, Readers DEF tables
  <2>5. CASE Assign(r) \/ UpdateOrg(r) BY <2>5 DEF Assign, UpdateOrg
  <2>6. CASE CreateDepartment(r) \/ FindDepartment(r) \/ FindKey(r)
    BY <2>6 DEF CreateDepartment, FindDepartment, FindKey, tables
  <2>7. QED BY <2>2, <2>3, <2>4, <2>5, <2>6 DEF Releasing, Loading
<1>3. CASE ~Ready(r)
  <2>1. ~Fail(r) /\ ~Succeed(r) /\ ~Conflict(r) /\ ~Error(r) BY <1>1, <1>3, Answers DEF Ready, Replied
  <2>2. ~InsertDepartment(r) /\ ~UpdateDepartment(r) /\ ~DeleteDepartment(r) /\ ~RevokeKey(r)
          /\ ~CreateKey(r) /\ ~DeleteOrg(r)
    BY <2>1 DEF InsertDepartment, UpdateDepartment, DeleteDepartment, RevokeKey, CreateKey, DeleteOrg
  <2>3. CASE Authorise(r) \/ WrongPath(r) \/ Rollback(r) \/ FindMember(r)
               \/ LookUpKey(r) \/ KeyOrg(r) \/ TouchKey(r)
    BY <1>1, <2>3, Readers DEF tables
  <2>4. CASE Assign(r) \/ UpdateOrg(r) BY <2>4 DEF Assign, UpdateOrg
  <2>5. CASE CreateDepartment(r) \/ FindDepartment(r) \/ FindKey(r)
    BY <2>5 DEF CreateDepartment, FindDepartment, FindKey, tables
  <2>6. QED BY <2>2, <2>3, <2>4, <2>5 DEF Releasing, Loading
<1>4. QED BY <1>2, <1>3

\* An expiry is not a change of a key's owner, id or revocation.
LEMMA ExpiryIsNoWrite ==
  ASSUME IInv, Expire, NEW o \in Org PROVE ResourcesOf(o)' = ResourcesOf(o)
<1>1. PICK k \in keys : /\ ~k.expired /\ UNCHANGED departments
                        /\ keys' = (keys \ {k}) \cup {[k EXCEPT !.expired = TRUE]}
  BY DEF Expire
<1>2. DEFINE Bare(rows) == {[l EXCEPT !.expired = FALSE] : l \in {key \in rows : key.org = o}}
             new == [k EXCEPT !.expired = TRUE]
<1>3. k \in APIKey BY DEF IInv, TypeOK
<1>4. new.org = k.org /\ [new EXCEPT !.expired = FALSE] = [k EXCEPT !.expired = FALSE]
  BY <1>3 DEF APIKey
<1>5. keys' = (keys \ {k}) \cup {new} BY <1>1
<1> HIDE DEF new
<1>6. Bare(keys') = Bare(keys) BY <1>1, <1>4, <1>5
<1>7. QED BY <1>1, <1>6 DEF ResourcesOf

\* The step of ResourceIsolation.
LEMMA IsolationStep ==
  ASSUME IInv, [Next]_vars, NEW o \in Org, ResourcesOf(o)' # ResourcesOf(o)
  PROVE  \E r \in Slot : req[r].org = o /\ req'[r] # req[r]
<1>1. ~Expire BY ExpiryIsNoWrite
<1>2. ~UNCHANGED <<departments, keys>> BY DEF ResourcesOf
<1>3. PICK r \in Slot : Releasing(r) \/ Loading(r) BY <1>1, <1>2, Steps DEF vars, tables
<1>4. req[r].org = o BY <1>3, OwnOrganization
<1>5. req'[r] # req[r] BY <1>2, <1>3, WritersAnswer
<1>6. QED BY <1>4, <1>5

\* Whatever ids a request names, it writes departments and keys of its own
\* organization only.
THEOREM ResourceIsolationHolds == Spec => ResourceIsolation
<1> DEFINE Isolated ==
      \A o \in Org :
        ResourcesOf(o)' # ResourcesOf(o) =>
          \E r \in Slot : req[r].org = o /\ req'[r] # req[r]
<1>1. IInv /\ [Next]_vars => [Isolated]_vars BY IsolationStep
<1>2. QED BY <1>1, Invariant, PTL DEF Spec, ResourceIsolation
=============================================================================
