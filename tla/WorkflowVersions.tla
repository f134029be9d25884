-------------------------- MODULE WorkflowVersions --------------------------
(***************************************************************************)
(* Workflows and their published versions: app/modules/workflows, one      *)
(* request after the other.                                                *)
(*                                                                         *)
(* A request runs in a database session.  No route of app/modules/workflows *)
(* commits: get_db opens a session per request and closing it takes back   *)
(* what the request flushed, whereas tests/conftest.py gives every request *)
(* the same session, in which later requests see what earlier ones have    *)
(* flushed.  SharedSession tells the two apart.  With sessions of their    *)
(* own requests cannot affect each other, and a shared session serves one  *)
(* request at a time: a request is one step.                               *)
(*                                                                         *)
(* A definition is abstract; Valid are those that validate_graph accepts   *)
(* (module GraphValidator).  A version's uuid stands for its workflow and  *)
(* number, which are unique.  Name, description and timestamps are left    *)
(* out, and so is the user in created_by.                                  *)
(***************************************************************************)
EXTENDS Integers, FiniteSets, FiniteSetsExt

CONSTANTS
  Workflow,       \* uuid4 values of workflows
  Org,            \* organizations
  Definition,     \* graph definitions
  Valid,          \* those that validate_graph accepts
  None,           \* no definition, no version, no workflow
  MaxVersions,    \* bound on the versions of a workflow
  SharedSession   \* whether all requests use one session

ASSUME WorkflowAssumption ==
  /\ Valid \subseteq Definition
  /\ None \notin Definition \cup Workflow \cup Org \cup Int
  /\ MaxVersions \in Nat
  /\ SharedSession \in BOOLEAN

VARIABLES
  workflows,  \* rows of workflows, as the next request sees them
  versions,   \* rows of workflow_versions
  graphs,     \* workflow_nodes and workflow_edges: the graph that a version's rows make
  ids,        \* ids of the rows that workflows has ever had
  reply       \* the last reply

tables == <<workflows, versions, graphs>>
vars == <<workflows, versions, graphs, ids, reply>>

Status == {"draft", "published", "archived"}

VersionId == Workflow \X (1..MaxVersions)

Row == [id : Workflow, org : Org, status : Status,
        current_version : (1..MaxVersions) \cup {None},
        active_version_id : VersionId \cup {None},
        draft_definition : Definition \cup {None}]

Version == [workflow : Workflow, number : 1..MaxVersions, definition : Definition]

Id(v) == <<v.workflow, v.number>>

\* What a request was answered: the organization of its sender, and the workflow
\* in the body of the reply.
Reply == [ok : BOOLEAN, org : Org \cup {None}, workflow : Workflow \cup {None}]

Refused(o) == [ok |-> FALSE, org |-> o, workflow |-> None]
Done(o, w) == [ok |-> TRUE, org |-> o, workflow |-> w]

----------------------------------------------------------------------------
(* Helpers of the service.                                                 *)

\* _get_workflow: 404 for a workflow of another organization.
FoundAnywhere(w, o) == {row \in workflows : row.id = w}
Found(w, o) == {row \in workflows : row.id = w /\ row.org = o}

VersionsOf(w) == {v \in versions : v.workflow = w}

\* _next_version_number
NextVersionNumber(w) == Max({v.number : v \in VersionsOf(w)} \cup {0}) + 1

Unreplaced(row, new) == workflows \cup {new}
Replaced(row, new) == (workflows \ {row}) \cup {new}

\* require_org_role.  No route of the module tells employees and analysts from
\* viewers, or owners from admins.
Rank == [viewer |-> 1, manager |-> 2, admin |-> 3]
HasRole(role, min_role) == Rank[role] >= Rank[min_role]

\* The request is over, with these tables in its session and w in the reply.
Flush(o, w, new_workflows, new_versions, new_graphs) ==
  /\ reply' = Done(o, w)
  /\ IF SharedSession
       THEN /\ workflows' = new_workflows
            /\ versions' = new_versions
            /\ graphs' = new_graphs
            /\ ids' = ids \cup {row.id : row \in new_workflows}
       ELSE UNCHANGED <<tables, ids>>

\* 403, 404, 409, 422.
Refuse(o) == reply' = Refused(o) /\ UNCHANGED <<tables, ids>>

----------------------------------------------------------------------------
(* The routes that write.  The caller has a role in organization o.        *)

CreateWorkflow(o, role) == \E w \in Workflow \ ids :
  IF HasRole(role, "manager")
    THEN Flush(o, w,
           workflows \cup {[id |-> w, org |-> o, status |-> "draft",
                            current_version |-> None, active_version_id |-> None,
                            draft_definition |-> None]},
           versions, graphs)
    ELSE Refuse(o)

\* The draft is replaced whatever the workflow's status; None is a payload that
\* changes name or description alone.
UpdateWorkflow(o, role, w) ==
  \/ \E row \in Found(w, o), definition \in Definition \cup {None} :
       /\ HasRole(role, "manager")
       /\ Flush(o, w,
            IF definition = None THEN workflows
            ELSE Replaced(row, [row EXCEPT !.draft_definition = definition]),
            versions, graphs)
  \/ /\ Found(w, o) = {} \/ ~HasRole(role, "manager")
     /\ Refuse(o)

\* The versions and their rows go with the workflow (ORM and ON DELETE CASCADE).
RowsLeft(w) == graphs
Cascaded(w) == {g \in graphs : g.version[1] # w}

DeleteWorkflow(o, role, w) ==
  \/ \E row \in Found(w, o) :
       /\ HasRole(role, "admin")
       /\ Flush(o, None, workflows \ {row}, versions \ VersionsOf(w), Cascaded(w))
  \/ /\ Found(w, o) = {} \/ ~HasRole(role, "admin")
     /\ Refuse(o)

\* The definition of the body, or the draft.
ToPublish(row, body) == IF body # None THEN body ELSE row.draft_definition

\* The row points to its new version, and the draft is gone.
InactivePublished(row, v) ==
  [row EXCEPT !.current_version = v.number, !.status = "published",
              !.draft_definition = None]
Published(row, v) ==
  [row EXCEPT !.current_version = v.number, !.active_version_id = Id(v),
              !.status = "published", !.draft_definition = None]

LastOnly(v) == (versions \ VersionsOf(v.workflow)) \cup {v}
Recorded(v) == versions \cup {v}

\* uq_workflow_versions
UniqueNumber(v) == \A other \in VersionsOf(v.workflow) : other.number # v.number

\* publish_workflow of a row that was found.  The version is flushed before its
\* rows and the pointers are, but a flush that fails takes the transaction of its
\* session back, the version included: nobody sees the one without the others.
Publish(o, row, body) ==
  LET graph == ToPublish(row, body)
      v == [workflow |-> row.id, number |-> NextVersionNumber(row.id), definition |-> graph]
  IN
  \/ /\ graph \in Valid /\ UniqueNumber(v)
     /\ v.number <= MaxVersions
     /\ Flush(o, row.id, Replaced(row, Published(row, v)), Recorded(v),
              graphs \cup {[version |-> Id(v), graph |-> graph]})
  \/ /\ graph \notin Valid \/ ~UniqueNumber(v)
     /\ Refuse(o)

PublishWorkflow(o, role, w) ==
  \/ \E row \in Found(w, o), body \in Definition \cup {None} :
       HasRole(role, "manager") /\ Publish(o, row, body)
  \/ /\ Found(w, o) = {} \/ ~HasRole(role, "manager")
     /\ Refuse(o)

\* revert_workflow publishes the definition of an earlier version again; the
\* number may be one that the workflow does not have.
RevertWorkflow(o, role, w) ==
  \/ \E row \in Found(w, o), source \in VersionsOf(w) :
       HasRole(role, "admin") /\ Publish(o, row, source.definition)
  \/ Refuse(o)

\* Only the draft is copied.
DuplicateWorkflow(o, role, w) ==
  \/ \E row \in Found(w, o), copy \in Workflow \ ids :
       /\ HasRole(role, "manager")
       /\ Flush(o, copy,
            workflows \cup {[id |-> copy, org |-> o, status |-> "draft",
                             current_version |-> None, active_version_id |-> None,
                             draft_definition |-> row.draft_definition]},
            versions, graphs)
  \/ /\ Found(w, o) = {} \/ ~HasRole(role, "manager")
     /\ Refuse(o)

ArchiveWorkflow(o, role, w) ==
  \/ \E row \in Found(w, o) :
       /\ HasRole(role, "admin") /\ row.status # "archived"
       /\ Flush(o, w, Replaced(row, [row EXCEPT !.status = "archived"]), versions, graphs)
  \/ /\ \/ ~HasRole(role, "admin")
        \/ \A row \in Found(w, o) : row.status = "archived"
     /\ Refuse(o)

----------------------------------------------------------------------------
Init ==
  /\ workflows = {}
  /\ versions = {}
  /\ graphs = {}
  /\ ids = {}
  /\ reply = [ok |-> FALSE, org |-> None, workflow |-> None]

Next == \E o \in Org, role \in DOMAIN Rank :
  \/ CreateWorkflow(o, role)
  \/ \E w \in Workflow :
       \/ UpdateWorkflow(o, role, w) \/ DeleteWorkflow(o, role, w)
       \/ PublishWorkflow(o, role, w) \/ RevertWorkflow(o, role, w)
       \/ DuplicateWorkflow(o, role, w) \/ ArchiveWorkflow(o, role, w)

Spec == Init /\ [][Next]_vars

----------------------------------------------------------------------------
(* Properties.                                                             *)

\* The tables have the types of their columns; ids are primary keys.
TypeOK ==
  /\ workflows \in SUBSET Row
  /\ \A row, other \in workflows : row.id = other.id => row = other
  /\ versions \in SUBSET Version
  /\ graphs \in SUBSET [version : VersionId, graph : Definition]
  /\ ids \in SUBSET Workflow
  /\ reply \in Reply

\* What a workflow says of its versions is so, after any sequence of updates,
\* publications, reverts and archivals: the current version is the last one, the
\* active one is the same, and a published workflow has one.
PointersMatch ==
  \A row \in workflows :
    /\ row.current_version = None <=> VersionsOf(row.id) = {}
    /\ row.current_version # None =>
         /\ row.active_version_id = <<row.id, row.current_version>>
         /\ \E v \in VersionsOf(row.id) : Id(v) = row.active_version_id
         /\ \A v \in VersionsOf(row.id) : v.number <= row.current_version
    /\ row.status = "published" => row.current_version # None

\* The node and edge rows of every version (_persist_graph_rows) make the graph
\* that the version keeps as JSON, but for canvas positions, which the rows
\* truncate; and no rows are left of versions that are gone.
GraphsMatch ==
  graphs = {[version |-> Id(v), graph |-> v.definition] : v \in versions}

\* What the tables say of a workflow's life and history.
LifeOf(w) ==
  IF \E row \in workflows : row.id = w THEN "alive"
  ELSE IF w \in ids THEN "deleted" ELSE "unborn"

DefinitionAt(w, n) ==
  IF \E v \in VersionsOf(w) : v.number = n
    THEN (CHOOSE v \in VersionsOf(w) : v.number = n).definition ELSE None

HistoryOf(w) == [n \in 1..Cardinality(VersionsOf(w)) |-> DefinitionAt(w, n)]

History == INSTANCE VersionHistory WITH
  life <- [w \in Workflow |-> LifeOf(w)],
  history <- [w \in Workflow |-> HistoryOf(w)]

\* Whatever is published, reverted, archived and deleted, the rows of
\* workflow_versions implement an append-only history of valid definitions.
ImplementsHistory == History!Spec

\* A workflow's rows and versions change only by a request from its own
\* organization that is answered with success: _get_workflow hides all others.
TenantIsolation ==
  [][\A row \in workflows :
       \/ reply'.ok /\ reply'.org = row.org
       \/ row \in workflows' /\ VersionsOf(row.id)' = VersionsOf(row.id)]_vars

\* A workflow that a request was answered 201 or 200 for is there for the next
\* one: docs/api/API.md, "Create a new draft workflow".
SavedIsThere ==
  reply.workflow # None => \E row \in workflows : row.id = reply.workflow
=============================================================================
