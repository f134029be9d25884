---------------------------- MODULE OrgResources ----------------------------
(***************************************************************************)
(* What an organization owns: its departments, which its members are       *)
(* assigned to, and its API keys, with the requests of                     *)
(* app/modules/organizations that read and write them, interleaved.        *)
(*                                                                         *)
(* Requests, sessions and statements are as in OrgMembership: a SELECT is  *)
(* a step, the last flush and the commit are one, an UPDATE that matches   *)
(* no row raises StaleDataError, a DELETE that matches none only warns,    *)
(* and a request that raises changes nothing.  Roles, invitations and      *)
(* removals are in that module: here the members of an organization stay   *)
(* for as long as it exists, require_org_role is one step, which may       *)
(* refuse anybody, and update_org and delete_org read and write in one.    *)
(*                                                                         *)
(* Ids are uuid4 values and never return: used are those a row was built   *)
(* with.  An API key's plaintext, hash and prefix are its id.              *)
(***************************************************************************)
EXTENDS FiniteSets

CONSTANTS
  Org,     \* organizations, all active at first
  User,    \* users
  Seat,    \* who is a member of which organization: pairs <<org, user>>
  DeptId,  \* ids of departments: bounds how many a behaviour creates
  Name,    \* names of departments
  KeyId,   \* API keys: bounds how many a behaviour creates
  Slot,    \* requests that can be in flight at the same time
  None     \* no organization, no department

ASSUME ResourceAssumption ==
  /\ Seat \subseteq Org \X User
  /\ None \notin Org \cup DeptId

VARIABLES
  orgs,         \* active, suspended (is_active false) or deleted
  departments,  \* rows of departments
  members,      \* rows of org_members
  keys,         \* rows of api_keys
  used,         \* ids of departments and keys that were built
  req           \* the request in each slot, with what its session has loaded

tables == <<orgs, departments, members, keys>>
vars   == <<orgs, departments, members, keys, used, req>>

Department == [id : DeptId, org : Org, name : Name]

OrgMember == [org : Org, user : User, department_id : DeptId \cup {None}]

APIKey == [id : KeyId, org : Org, revoked : BOOLEAN, expired : BOOLEAN]

\* Where a request is: answered, a 409 and a 500 told apart, or about to take a step.
Replied == {"replied", "conflict", "error"}
Gated == {"authorised", "create_department", "update_department", "delete_department",
          "assign", "revoke_key"}
ByKey == {"key:org", "key:touch"}

Request == [pc     : Replied \cup Gated \cup ByKey,
            org    : Org \cup {None},     \* the org_id of its token
            member : SUBSET OrgMember,    \* the caller's row, then the target's
            dept   : SUBSET Department,   \* the department acted upon
            key    : SUBSET APIKey]       \* the key acted upon, or let in by

Answered(reply) == [pc |-> reply, org |-> None, member |-> {}, dept |-> {}, key |-> {}]

----------------------------------------------------------------------------
(* Rows and the constraints on them.                                       *)

Exists(o) == orgs[o] # "deleted"

DeptOf(id) == {d \in departments : d.id = id}
KeyOf(id) == {k \in keys : k.id = id}

MemberRows(o, u) == {m \in members : m.org = o /\ m.user = u}

\* uq_departments_org_name
NoUniqueName(row) == TRUE
UniqueName(row) ==
  \A d \in departments : d.org = row.org /\ d.name = row.name => d.id = row.id

\* departments.organization_id and api_keys.organization_id
ForeignKey(o) == Exists(o)

Keeping(ids) == departments
Without(ids) == {d \in departments : d.id \notin ids}

\* org_members.department_id: ON DELETE SET NULL, whoever's member it is.
LeftDangling(rows, ids) == rows
SetNull(rows, ids) ==
  {IF m.department_id \in ids THEN [m EXCEPT !.department_id = None] ELSE m : m \in rows}

----------------------------------------------------------------------------
(* The life of a request.                                                  *)

At(r, pc) == req[r].pc = pc

Ready(r) == req[r].pc \in Replied

Become(r, q) == req' = [req EXCEPT ![r] = q]

\* Success and refusals end a request alike; a refusal changes no table.
Succeed(r) == Become(r, Answered("replied"))

Fail(r) == Become(r, Answered("replied"))

Conflict(r) == Become(r, Answered("conflict"))

\* An IntegrityError or a StaleDataError that the handler does not catch.
Error(r) == Become(r, Answered("error"))

\* Any request may be refused for its role, fail, or die before its commit.
Rollback(r) ==
  /\ ~Ready(r)
  /\ Fail(r)
  /\ UNCHANGED <<tables, used>>

\* require_org_role: the organization of the token is active, and the caller
\* one of its members.
Authorise(r) == \E seat \in Seat :
  /\ Ready(r)
  /\ IF orgs[seat[1]] = "active"
       THEN Become(r, [Answered("authorised") EXCEPT
                         !.org = seat[1], !.member = MemberRows(seat[1], seat[2])])
       ELSE Fail(r)
  /\ UNCHANGED <<tables, used>>

\* org_id != requesting_org_id is a 404.
PathMatches(r, path_org) == At(r, "authorised") /\ path_org = req[r].org

\* Every route compares the organization in its path with the token's.
WrongPath(r) == \E path_org \in Org :
  /\ At(r, "authorised")
  /\ path_org # req[r].org
  /\ Fail(r)
  /\ UNCHANGED <<tables, used>>

----------------------------------------------------------------------------
(* Departments.                                                            *)

\* create_department builds the row ...
CreateDepartment(r) == \E path_org \in Org, id \in DeptId \ used, name \in Name :
  /\ PathMatches(r, path_org)
  /\ Become(r, [req[r] EXCEPT !.pc = "create_department",
                              !.dept = {[id |-> id, org |-> path_org, name |-> name]}])
  /\ used' = used \cup {id}
  /\ UNCHANGED tables

\* ... and takes every IntegrityError, the foreign key's too, for a name that
\* exists already.
InsertDepartment(r) ==
  /\ At(r, "create_department")
  /\ IF \A d \in req[r].dept : UniqueName(d) /\ ForeignKey(d.org)
       THEN departments' = departments \cup req[r].dept /\ Succeed(r)
       ELSE UNCHANGED departments /\ Conflict(r)
  /\ UNCHANGED <<orgs, members, keys, used>>

\* The department by its id and organization.
DepartmentsOfAny(path_org) == departments
DepartmentsOf(path_org) == {d \in departments : d.org = path_org}

FindDepartment(r) == \E path_org \in Org, pc \in {"update_department", "delete_department"} :
  /\ PathMatches(r, path_org)
  /\ \/ \E d \in DepartmentsOf(path_org) : Become(r, [req[r] EXCEPT !.pc = pc, !.dept = {d}])
     \/ Fail(r)
  /\ UNCHANGED <<tables, used>>

\* A name that is the loaded one is not flushed; a row that is gone and a name
\* that is taken raise, and update_department catches neither.
UpdateDepartment(r) == \E name \in Name, d \in req[r].dept :
  LET renamed == [d EXCEPT !.name = name] IN
  /\ At(r, "update_department")
  /\ \/ /\ name = d.name
        /\ UNCHANGED departments /\ Succeed(r)
     \/ /\ name # d.name /\ DeptOf(d.id) # {} /\ UniqueName(renamed)
        /\ departments' = Without({d.id}) \cup {renamed}
        /\ Succeed(r)
     \/ /\ name # d.name /\ (DeptOf(d.id) = {} \/ ~UniqueName(renamed))
        /\ UNCHANGED departments /\ Error(r)
  /\ UNCHANGED <<orgs, members, keys, used>>

DeleteDepartment(r) == \E d \in req[r].dept :
  /\ At(r, "delete_department")
  /\ departments' = Without({d.id})
  /\ members' = SetNull(members, {d.id})
  /\ Succeed(r)
  /\ UNCHANGED <<orgs, keys, used>>

\* update_member: the target, which the session holds already if it is the caller.
FindMember(r) == \E path_org \in Org, u \in User :
  /\ PathMatches(r, path_org)
  /\ IF MemberRows(path_org, u) = {} THEN Fail(r)
     ELSE Become(r, [req[r] EXCEPT
            !.pc = "assign",
            !.member = IF \E m \in @ : m.user = u THEN @ ELSE MemberRows(path_org, u)])
  /\ UNCHANGED <<tables, used>>

\* The payload's department_id is any uuid; the foreign key asks for a department,
\* not for one of the same organization.
Assign(r) == \E id \in DeptId, m \in req[r].member :
  LET rows == MemberRows(m.org, m.user) IN
  /\ At(r, "assign")
  /\ \/ /\ id = m.department_id
        /\ UNCHANGED members /\ Succeed(r)
     \/ /\ id # m.department_id /\ rows # {} /\ DeptOf(id) # {}
        /\ members' = (members \ rows) \cup {[m EXCEPT !.department_id = id]}
        /\ Succeed(r)
     \/ /\ id # m.department_id /\ (rows = {} \/ DeptOf(id) = {})
        /\ UNCHANGED members /\ Error(r)
  /\ UNCHANGED <<orgs, departments, keys, used>>

----------------------------------------------------------------------------
(* API keys.                                                               *)

\* create_api_key; expires_at may lie in the past.
CreateKey(r) == \E path_org \in Org, id \in KeyId \ used, expired \in BOOLEAN :
  /\ PathMatches(r, path_org)
  /\ used' = used \cup {id}
  /\ IF ForeignKey(path_org)
       THEN /\ keys' = keys \cup {[id |-> id, org |-> path_org,
                                   revoked |-> FALSE, expired |-> expired]}
            /\ Succeed(r)
       ELSE UNCHANGED keys /\ Error(r)
  /\ UNCHANGED <<orgs, departments, members>>

\* revoke_api_key finds a key of the organization, revoked ones included.
KeysOf(path_org) == {k \in keys : k.org = path_org}

FindKey(r) == \E path_org \in Org :
  /\ PathMatches(r, path_org)
  /\ \/ \E k \in KeysOf(path_org) : Become(r, [req[r] EXCEPT !.pc = "revoke_key", !.key = {k}])
     \/ Fail(r)
  /\ UNCHANGED <<tables, used>>

RevokeKey(r) == \E k \in req[r].key :
  /\ At(r, "revoke_key")
  /\ IF KeyOf(k.id) = {} THEN UNCHANGED keys /\ Error(r)
     ELSE /\ keys' = {IF stored.id = k.id THEN [stored EXCEPT !.revoked = TRUE]
                      ELSE stored : stored \in keys}
          /\ Succeed(r)
  /\ UNCHANGED <<orgs, departments, members, used>>

\* get_org_by_api_key: the key by its hash, not revoked; then expires_at.
UnexpiredOnly(k) == ~k.expired
Usable(k) == ~k.revoked /\ ~k.expired

LookUpKey(r) ==
  /\ Ready(r)
  /\ \/ \E k \in keys : Usable(k) /\ Become(r, [Answered("key:org") EXCEPT !.key = {k}])
     \/ Fail(r)
  /\ UNCHANGED <<tables, used>>

KeyOrg(r) == \E k \in req[r].key :
  /\ At(r, "key:org")
  /\ IF orgs[k.org] = "active" THEN Become(r, [req[r] EXCEPT !.pc = "key:touch"]) ELSE Fail(r)
  /\ UNCHANGED <<tables, used>>

\* The flush of last_used_at is an UPDATE of the key's row.
TouchKey(r) == \E k \in req[r].key :
  /\ At(r, "key:touch")
  /\ IF KeyOf(k.id) = {} THEN Error(r) ELSE Succeed(r)
  /\ UNCHANGED <<tables, used>>

Expire == \E k \in keys :
  /\ ~k.expired
  /\ keys' = (keys \ {k}) \cup {[k EXCEPT !.expired = TRUE]}
  /\ UNCHANGED <<orgs, departments, members, used, req>>

----------------------------------------------------------------------------
(* The organization.                                                       *)

UpdateOrg(r) == \E path_org \in Org, state \in {"active", "suspended"} :
  /\ PathMatches(r, path_org)
  /\ IF Exists(path_org)
       THEN orgs' = [orgs EXCEPT ![path_org] = state] /\ Succeed(r)
       ELSE UNCHANGED orgs /\ Fail(r)
  /\ UNCHANGED <<departments, members, keys, used>>

\* All that references the organization goes with it; its departments leave the
\* members of others, too.
DeleteOrg(r) == \E path_org \in Org :
  /\ PathMatches(r, path_org)
  /\ IF Exists(path_org)
       THEN /\ orgs' = [orgs EXCEPT ![path_org] = "deleted"]
            /\ departments' = {d \in departments : d.org # path_org}
            /\ members' = SetNull({m \in members : m.org # path_org},
                                  {d.id : d \in {dept \in departments : dept.org = path_org}})
            /\ keys' = {k \in keys : k.org # path_org}
            /\ Succeed(r)
       ELSE UNCHANGED tables /\ Fail(r)
  /\ UNCHANGED used

----------------------------------------------------------------------------
Init ==
  /\ orgs = [o \in Org |-> "active"]
  /\ departments = {}
  /\ members = {[org |-> seat[1], user |-> seat[2], department_id |-> None] : seat \in Seat}
  /\ keys = {}
  /\ used = {}
  /\ req = [r \in Slot |-> Answered("replied")]

DepartmentOps(r) ==
  \/ CreateDepartment(r) \/ InsertDepartment(r)
  \/ FindDepartment(r) \/ UpdateDepartment(r) \/ DeleteDepartment(r)
  \/ FindMember(r) \/ Assign(r)

KeyOps(r) ==
  \/ CreateKey(r) \/ FindKey(r) \/ RevokeKey(r)
  \/ LookUpKey(r) \/ KeyOrg(r) \/ TouchKey(r)

Next ==
  \/ \E r \in Slot : \/ Authorise(r) \/ WrongPath(r) \/ Rollback(r)
                     \/ DepartmentOps(r) \/ KeyOps(r)
                     \/ UpdateOrg(r) \/ DeleteOrg(r)
  \/ Expire

Spec == Init /\ [][Next]_vars

----------------------------------------------------------------------------
(* Properties.                                                             *)

\* The variables have the types of the tables and of the requests; ids are
\* primary keys.
TypeOK ==
  /\ orgs \in [Org -> {"active", "suspended", "deleted"}]
  /\ departments \in SUBSET Department
  /\ \A d, e \in departments : d.id = e.id => d = e
  /\ members \in SUBSET OrgMember
  /\ \A m, n \in members : m.org = n.org /\ m.user = n.user => m = n
  /\ keys \in SUBSET APIKey
  /\ \A k, l \in keys : k.id = l.id => k = l
  /\ used \in SUBSET (DeptId \cup KeyId)
  /\ req \in [Slot -> Request]

\* No two departments of an organization have the same name, whatever is created
\* and renamed at the same time; neither operation looks before it writes.
NamesUnique ==
  \A d, e \in departments : d.org = e.org /\ d.name = e.name => d = e

\* Departments, API keys and members never outlive their organization, and a
\* member's department exists: deletions of both kinds race with rows that other
\* requests have read, built or pointed at.
ReferencesHold ==
  /\ \A row \in departments \cup keys \cup members : Exists(row.org)
  /\ \A m \in members : m.department_id # None => DeptOf(m.department_id) # {}

\* A key that can never be used again: revoked, expired or deleted with its
\* organization, and held by no request that is past the look-up.
Dead(id) ==
  /\ id \in used
  /\ \A k \in KeyOf(id) : k.revoked \/ k.expired
  /\ \A r \in Slot : req[r].pc \in ByKey => \A k \in req[r].key : k.id # id

\* Revoking a key ends its use for good ("Immediately prevents further use",
\* docs/api/API.md): once no request that looked it up earlier is still running,
\* none is ever let in with it again.
RevocationIsFinal == [][\A id \in KeyId : Dead(id) => Dead(id)']_vars

\* The departments and keys of an organization change only by a request whose
\* token is of that organization, or by a key's expiry.
ResourcesOf(o) ==
  <<{d \in departments : d.org = o},
    {[k EXCEPT !.expired = FALSE] : k \in {key \in keys : key.org = o}}>>

ResourceIsolation ==
  [][\A o \in Org :
       ResourcesOf(o)' # ResourcesOf(o) =>
         \E r \in Slot : req[r].org = o /\ req'[r] # req[r]]_vars
=============================================================================
