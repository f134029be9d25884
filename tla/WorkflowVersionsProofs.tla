---------------------- MODULE WorkflowVersionsProofs ----------------------
(***************************************************************************)
(* What WorkflowVersions guarantees for every set of workflows, whichever  *)
(* session the requests use: version numbers, pointers and graph rows      *)
(* agree, and nobody reaches into another organization.                    *)
(***************************************************************************)
EXTENDS WorkflowVersions, SequenceTheorems, FiniteSetTheorems, TLAPS

----------------------------------------------------------------------------
(* The inductive invariant, on the tables that a session holds.            *)

Of(w, vs) == {v \in vs : v.workflow = w}

\* The pointers of one row.
Pointing(row, vs) ==
  /\ row.current_version = None <=> Of(row.id, vs) = {}
  /\ row.current_version # None =>
       /\ row.active_version_id = <<row.id, row.current_version>>
       /\ \E v \in Of(row.id, vs) : Id(v) = row.active_version_id
       /\ \A v \in Of(row.id, vs) : v.number <= row.current_version
  /\ row.status = "published" => row.current_version # None

\* Rows are well-typed and keyed, point to their versions, and own them.
TablesOK(ws, vs, gs) ==
  /\ ws \in SUBSET Row
  /\ \A row, other \in ws : row.id = other.id => row = other
  /\ vs \in SUBSET Version
  /\ \A row \in ws : Pointing(row, vs)
  /\ gs = {[version |-> Id(v), graph |-> v.definition] : v \in vs}
  /\ \A v \in vs : \E row \in ws : row.id = v.workflow

Inv ==
  /\ TablesOK(workflows, versions, graphs)
  /\ ids \in SUBSET Workflow
  /\ \A row \in workflows : row.id \in ids
  /\ reply \in Reply

\* The invariant is what the properties need.
LEMMA InvTypes == Inv => TypeOK /\ PointersMatch /\ GraphsMatch
<1> SUFFICES ASSUME Inv PROVE TypeOK /\ PointersMatch /\ GraphsMatch OBVIOUS
<1>1. PointersMatch BY DEF Inv, TablesOK, Pointing, Of, PointersMatch, VersionsOf
<1>2. GraphsMatch BY DEF Inv, TablesOK, GraphsMatch
<1>3. \A v \in versions :
        [version |-> Id(v), graph |-> v.definition] \in [version : VersionId, graph : Definition]
  BY DEF Inv, TablesOK, Version, VersionId, Id
<1>4. graphs \in SUBSET [version : VersionId, graph : Definition]
  BY <1>2, <1>3 DEF GraphsMatch
<1> QED BY <1>1, <1>2, <1>4 DEF Inv, TablesOK, TypeOK

\* What a request flushes is what the next one finds, or nothing is.
LEMMA FlushInv ==
  ASSUME Inv, NEW o \in Org, NEW w \in Workflow \cup {None}, NEW ws, NEW vs, NEW gs,
         TablesOK(ws, vs, gs), Flush(o, w, ws, vs, gs)
  PROVE  Inv'
<1>1. reply' \in Reply BY DEF Flush, Done, Reply
<1>2. {row.id : row \in ws} \subseteq Workflow BY DEF TablesOK, Row
<1>3. CASE SharedSession
  <2>1. workflows' = ws /\ versions' = vs /\ graphs' = gs
        /\ ids' = ids \cup {row.id : row \in ws}
    BY <1>3 DEF Flush
  <2>2. TablesOK(workflows, versions, graphs)' BY <2>1 DEF TablesOK, Pointing, Of, Id
  <2> QED BY <1>1, <1>2, <2>1, <2>2 DEF Inv
<1>4. CASE ~SharedSession
  <2>1. UNCHANGED <<tables, ids>> BY <1>4 DEF Flush
  <2>2. TablesOK(workflows, versions, graphs)'
    BY <2>1 DEF Inv, TablesOK, Pointing, Of, Id, tables
  <2> QED BY <1>1, <2>1, <2>2 DEF Inv, tables
<1> QED BY <1>3, <1>4

\* A refusal changes nothing.
LEMMA RefuseInv == ASSUME Inv, NEW o \in Org, Refuse(o) PROVE Inv'
<1>1. reply' \in Reply BY DEF Refuse, Refused, Reply
<1>2. UNCHANGED <<tables, ids>> BY DEF Refuse
<1>3. TablesOK(workflows, versions, graphs)'
  BY <1>2 DEF Inv, TablesOK, Pointing, Of, Id, tables
<1> QED BY <1>1, <1>2, <1>3 DEF Inv, tables

\* A new draft has no version.
LEMMA NewDraft ==
  ASSUME Inv, NEW w \in Workflow \ ids, NEW o \in Org, NEW draft \in Definition \cup {None}
  PROVE  TablesOK(workflows \cup {[id |-> w, org |-> o, status |-> "draft",
                                   current_version |-> None, active_version_id |-> None,
                                   draft_definition |-> draft]}, versions, graphs)
<1> DEFINE new == [id |-> w, org |-> o, status |-> "draft", current_version |-> None,
                   active_version_id |-> None, draft_definition |-> draft]
<1>1. new \in Row BY DEF Row, Status
<1>2. new.id = w /\ new.current_version = None /\ new.status = "draft" OBVIOUS
<1> HIDE DEF new
<1>3. \A row \in workflows : row.id # w BY DEF Inv
<1>4. Of(w, versions) = {} BY <1>3 DEF Inv, TablesOK, Of
<1>5. Pointing(new, versions) BY <1>2, <1>4 DEF Pointing
<1>6. TablesOK(workflows \cup {new}, versions, graphs)
  BY <1>1, <1>2, <1>3, <1>5 DEF Inv, TablesOK
<1> QED BY <1>6 DEF new

\* A row that keeps its pointers may change its draft, and its status unless it
\* becomes published.
LEMMA ChangedRow ==
  ASSUME Inv, NEW row \in workflows, NEW new \in Row,
         new.id = row.id, new.current_version = row.current_version,
         new.active_version_id = row.active_version_id,
         new.status = "published" => row.status = "published"
  PROVE  TablesOK(Replaced(row, new), versions, graphs)
<1>1. Pointing(row, versions) BY DEF Inv, TablesOK
<1>2. Pointing(new, versions) BY <1>1 DEF Pointing
<1> QED BY <1>2 DEF Inv, TablesOK, Replaced

\* A workflow goes with its versions and their rows.
LEMMA DeletedRow ==
  ASSUME Inv, NEW row \in workflows
  PROVE  TablesOK(workflows \ {row}, versions \ VersionsOf(row.id), Cascaded(row.id))
<1> DEFINE ws == workflows \ {row}
           vs == versions \ VersionsOf(row.id)
<1>1. \A other \in ws : other.id # row.id BY DEF Inv, TablesOK
<1>2. \A other \in ws : Of(other.id, vs) = Of(other.id, versions)
  BY <1>1 DEF Of, VersionsOf
<1>3. \A other \in ws : Pointing(other, vs) BY <1>2 DEF Inv, TablesOK, Pointing
<1>4. \A v \in vs : \E other \in ws : other.id = v.workflow
  BY DEF Inv, TablesOK, VersionsOf
<1>5. Cascaded(row.id) = {[version |-> Id(v), graph |-> v.definition] : v \in vs}
  <2>1. graphs = {[version |-> Id(v), graph |-> v.definition] : v \in versions}
    BY DEF Inv, TablesOK
  <2>2. \A v \in versions :
          [version |-> Id(v), graph |-> v.definition].version[1] = v.workflow
    BY DEF Id
  <2>3. vs = {v \in versions : v.workflow # row.id} BY DEF VersionsOf
  <2> QED BY <2>1, <2>2, <2>3 DEF Cascaded
<1> QED BY <1>1, <1>3, <1>4, <1>5 DEF Inv, TablesOK

\* MAX(version_number) + 1 is the successor of the current version.
LEMMA NextNumber ==
  ASSUME Inv, NEW row \in workflows
  PROVE  /\ NextVersionNumber(row.id) \in Nat \ {0}
         /\ \A v \in VersionsOf(row.id) : v.number < NextVersionNumber(row.id)
<1> DEFINE numbers == {v.number : v \in VersionsOf(row.id)} \cup {0}
           last == IF row.current_version = None THEN 0 ELSE row.current_version
<1>1. \A v \in VersionsOf(row.id) : v.number \in Nat BY DEF Inv, TablesOK, Version, VersionsOf
<1>2. row.current_version \in (1..MaxVersions) \cup {None} BY DEF Inv, TablesOK, Row
<1>3. Pointing(row, versions) /\ Of(row.id, versions) = VersionsOf(row.id)
  BY DEF Inv, TablesOK, Of, VersionsOf
<1>4. last \in numbers /\ \A n \in numbers : last >= n
  <2>1. CASE row.current_version = None
    <3>1. VersionsOf(row.id) = {} BY <1>3, <2>1 DEF Pointing
    <3> QED BY <2>1, <3>1
  <2>2. CASE row.current_version # None
    <3>1. PICK v \in VersionsOf(row.id) : Id(v) = <<row.id, row.current_version>>
      BY <1>3, <2>2 DEF Pointing
    <3>2. v.number = row.current_version BY <3>1 DEF Id
    <3>3. \A u \in VersionsOf(row.id) : u.number <= row.current_version
      BY <1>3, <2>2 DEF Pointing
    <3> QED BY <1>1, <1>2, <2>2, <3>1, <3>2, <3>3
  <2> QED BY <2>1, <2>2
<1>5. numbers \subseteq Nat BY <1>1
<1>6. NextVersionNumber(row.id) = Max(numbers) + 1 BY DEF NextVersionNumber
<1> HIDE DEF last
<1>7. Max(numbers) \in numbers /\ \A n \in numbers : Max(numbers) >= n
  BY <1>4 DEF Max
<1>8. \A v \in VersionsOf(row.id) : v.number \in numbers OBVIOUS
<1> HIDE DEF numbers
<1>9. \A v \in VersionsOf(row.id) : v.number \in Nat /\ v.number <= Max(numbers)
  BY <1>5, <1>7, <1>8
<1>10. Max(numbers) \in Nat BY <1>5, <1>7
<1>11. \A m \in Nat, n \in Nat : n <= m => m + 1 \in Nat \ {0} /\ n < m + 1 OBVIOUS
<1>12. NextVersionNumber(row.id) \in Nat \ {0} BY <1>6, <1>10, <1>11
<1> QED BY <1>6, <1>9, <1>10, <1>11, <1>12

\* A publication moves the pointers of its row to the version that it adds.
LEMMA PublishInv ==
  ASSUME Inv, NEW o \in Org, NEW row \in workflows, NEW body, Publish(o, row, body)
  PROVE  Inv'
<1> DEFINE graph == ToPublish(row, body)
           v == [workflow |-> row.id, number |-> NextVersionNumber(row.id),
                 definition |-> graph]
           new == Published(row, v)
           gs == graphs \cup {[version |-> Id(v), graph |-> graph]}
<1>1. CASE /\ graph \in Valid
           /\ v.number <= MaxVersions
           /\ Flush(o, row.id, Replaced(row, new), Recorded(v), gs)
  <2>1. row \in Row BY DEF Inv, TablesOK
  <2>2. v.number = NextVersionNumber(row.id) /\ v.workflow = row.id /\ v.definition = graph
    OBVIOUS
  <2>3. v.number \in 1..MaxVersions BY <1>1, <2>2, NextNumber, WorkflowAssumption
  <2>4. v \in Version BY <1>1, <2>1, <2>2, <2>3, WorkflowAssumption DEF Version, Row
  <2>5. \A u \in VersionsOf(row.id) : u.number \in Nat /\ u.number <= v.number
    <3>1. \A u \in VersionsOf(row.id) : u.number \in Nat
      BY DEF Inv, TablesOK, Version, VersionsOf
    <3> QED BY <2>2, <3>1, NextNumber
  <2>6. Id(v) = <<row.id, v.number>> BY <2>2 DEF Id
  <2>7. /\ new.id = row.id /\ new.org = row.org /\ new.status = "published"
        /\ new.current_version = v.number /\ new.active_version_id = Id(v)
        /\ new.draft_definition = None
    BY <2>1 DEF Published, Row
  <2>8. new \in Row
    <3>1. row.id \in Workflow BY <2>1 DEF Row
    <3>2. Id(v) \in VersionId /\ v.number \in 1..MaxVersions BY <2>3, <2>6, <3>1 DEF VersionId
    <3>3. \A n \in 1..MaxVersions : [row EXCEPT !.current_version = n] \in Row BY <2>1 DEF Row
    <3>4. \A r \in Row, i \in VersionId : [r EXCEPT !.active_version_id = i] \in Row BY DEF Row
    <3>5. \A r \in Row : [r EXCEPT !.status = "published"] \in Row BY DEF Row, Status
    <3>6. \A r \in Row : [r EXCEPT !.draft_definition = None] \in Row BY DEF Row
    <3> HIDE DEF v
    <3> QED BY <3>2, <3>3, <3>4, <3>5, <3>6 DEF Published
  <2>9. v.number # None BY <2>3, WorkflowAssumption
  <2> HIDE DEF v, new
  <2>10. Recorded(v) = versions \cup {v} BY DEF Recorded
  <2>11. Of(row.id, versions \cup {v}) = VersionsOf(row.id) \cup {v}
    BY <2>2 DEF Of, VersionsOf
  <2>12. Pointing(new, versions \cup {v})
    <3>1. \A u \in VersionsOf(row.id) \cup {v} : u.number <= v.number BY <2>3, <2>5
    <3> QED BY <2>6, <2>7, <2>9, <2>11, <3>1 DEF Pointing
  <2>13. \A other \in workflows \ {row} : Pointing(other, versions \cup {v})
    <3>1. \A other \in workflows \ {row} : other.id # row.id BY DEF Inv, TablesOK
    <3>2. \A other \in workflows \ {row} :
            Of(other.id, versions \cup {v}) = Of(other.id, versions)
      BY <2>2, <3>1 DEF Of
    <3> QED BY <3>2 DEF Inv, TablesOK, Pointing
  <2>14. gs = {[version |-> Id(u), graph |-> u.definition] : u \in versions \cup {v}}
    <3>1. graphs = {[version |-> Id(u), graph |-> u.definition] : u \in versions}
      BY DEF Inv, TablesOK
    <3> QED BY <2>2, <3>1
  <2>15. TablesOK(Replaced(row, new), Recorded(v), gs)
    BY <2>2, <2>4, <2>7, <2>8, <2>10, <2>12, <2>13, <2>14 DEF Inv, TablesOK, Replaced
  <2> QED BY <1>1, <2>1, <2>15, FlushInv DEF Row
<1>2. CASE Refuse(o) BY <1>2, RefuseInv
<1> QED BY <1>1, <1>2 DEF Publish

\* Every request keeps the invariant.
LEMMA InvNext == Inv /\ [Next]_vars => Inv'
<1> SUFFICES ASSUME Inv, [Next]_vars PROVE Inv' OBVIOUS
<1>1. CASE UNCHANGED vars
  <2>1. TablesOK(workflows, versions, graphs)'
    BY <1>1 DEF Inv, TablesOK, Pointing, Of, Id, vars, tables
  <2> QED BY <1>1, <2>1 DEF Inv, vars, tables
<1>2. ASSUME NEW o \in Org, NEW role \in DOMAIN Rank, CreateWorkflow(o, role) PROVE Inv'
  <2>1. CASE Refuse(o) BY <2>1, RefuseInv
  <2>2. CASE \E w \in Workflow \ ids :
               Flush(o, w,
                 workflows \cup {[id |-> w, org |-> o, status |-> "draft",
                                  current_version |-> None, active_version_id |-> None,
                                  draft_definition |-> None]}, versions, graphs)
    BY <2>2, NewDraft, FlushInv
  <2> QED BY <1>2, <2>1, <2>2 DEF CreateWorkflow
<1>3. ASSUME NEW o \in Org, NEW role \in DOMAIN Rank, NEW w \in Workflow,
             \/ UpdateWorkflow(o, role, w) \/ DeleteWorkflow(o, role, w)
             \/ PublishWorkflow(o, role, w) \/ RevertWorkflow(o, role, w)
             \/ DuplicateWorkflow(o, role, w) \/ ArchiveWorkflow(o, role, w)
      PROVE  Inv'
  <2>1. Found(w, o) \subseteq workflows /\ \A row \in Found(w, o) : row.id = w
    BY DEF Found
  <2>2. TablesOK(workflows, versions, graphs) /\ workflows \subseteq Row
    BY DEF Inv, TablesOK
  <2>3. CASE Refuse(o) BY <2>3, RefuseInv
  <2>4. ASSUME NEW row \in Found(w, o), NEW definition \in Definition \cup {None},
               Flush(o, w, IF definition = None THEN workflows
                           ELSE Replaced(row, [row EXCEPT !.draft_definition = definition]),
                     versions, graphs)
        PROVE  Inv'
    <3>1. CASE definition = None BY <2>2, <2>4, <3>1, FlushInv
    <3>2. CASE definition # None
      <4> DEFINE new == [row EXCEPT !.draft_definition = definition]
      <4>1. new \in Row /\ new.id = row.id /\ new.current_version = row.current_version
            /\ new.active_version_id = row.active_version_id /\ new.status = row.status
        BY <2>1, <2>2 DEF Row
      <4> HIDE DEF new
      <4>2. TablesOK(Replaced(row, new), versions, graphs)
        BY <2>1, <4>1, ChangedRow
      <4>3. Flush(o, w, Replaced(row, new), versions, graphs)
        BY <2>4, <3>2 DEF new
      <4> QED BY <4>2, <4>3, FlushInv
    <3> QED BY <3>1, <3>2
  <2>5. ASSUME NEW row \in Found(w, o),
               Flush(o, None, workflows \ {row}, versions \ VersionsOf(w), Cascaded(w))
        PROVE  Inv'
    BY <2>1, <2>5, DeletedRow, FlushInv
  <2>6. ASSUME NEW row \in Found(w, o), NEW body, Publish(o, row, body) PROVE Inv'
    BY <2>1, <2>6, PublishInv
  <2>7. ASSUME NEW row \in Found(w, o), NEW copy \in Workflow \ ids,
               Flush(o, copy,
                 workflows \cup {[id |-> copy, org |-> o, status |-> "draft",
                                  current_version |-> None, active_version_id |-> None,
                                  draft_definition |-> row.draft_definition]},
                 versions, graphs)
        PROVE  Inv'
    <3>1. row.draft_definition \in Definition \cup {None} BY <2>1, <2>2 DEF Row
    <3> QED BY <2>7, <3>1, NewDraft, FlushInv
  <2>8. ASSUME NEW row \in Found(w, o),
               Flush(o, w, Replaced(row, [row EXCEPT !.status = "archived"]), versions, graphs)
        PROVE  Inv'
    <3> DEFINE new == [row EXCEPT !.status = "archived"]
    <3>1. new \in Row /\ new.id = row.id /\ new.current_version = row.current_version
          /\ new.active_version_id = row.active_version_id /\ new.status = "archived"
      BY <2>1, <2>2 DEF Row, Status
    <3> HIDE DEF new
    <3>2. TablesOK(Replaced(row, new), versions, graphs)
      BY <2>1, <3>1, ChangedRow
    <3> QED BY <2>8, <3>2, FlushInv DEF new
  <2>9. CASE UpdateWorkflow(o, role, w) BY <2>9, <2>3, <2>4 DEF UpdateWorkflow
  <2>10. CASE DeleteWorkflow(o, role, w) BY <2>10, <2>3, <2>5 DEF DeleteWorkflow
  <2>11. CASE PublishWorkflow(o, role, w) BY <2>11, <2>3, <2>6 DEF PublishWorkflow
  <2>12. CASE RevertWorkflow(o, role, w) BY <2>12, <2>3, <2>6 DEF RevertWorkflow
  <2>13. CASE DuplicateWorkflow(o, role, w) BY <2>13, <2>3, <2>7 DEF DuplicateWorkflow
  <2>14. CASE ArchiveWorkflow(o, role, w) BY <2>14, <2>3, <2>8 DEF ArchiveWorkflow
  <2> QED BY <1>3, <2>9, <2>10, <2>11, <2>12, <2>13, <2>14
<1> QED BY <1>1, <1>2, <1>3 DEF Next

\* The tables start empty.
LEMMA InvInit == Init => Inv
BY DEF Init, Inv, TablesOK, Reply

\* The invariant holds throughout.
LEMMA InvAlways == Spec => []Inv
BY InvInit, InvNext, PTL DEF Spec

----------------------------------------------------------------------------
(* Whose rows a request may change.                                        *)

Isolated ==
  \A row \in workflows :
    \/ reply'.ok /\ reply'.org = row.org
    \/ row \in workflows' /\ VersionsOf(row.id)' = VersionsOf(row.id)

\* A flush changes what its session has changed.
LEMMA FlushIsolates ==
  ASSUME NEW o \in Org, NEW w, NEW ws, NEW vs, NEW gs, Flush(o, w, ws, vs, gs),
         \A row \in workflows :
           row.org # o => row \in ws /\ Of(row.id, vs) = VersionsOf(row.id)
  PROVE  Isolated
<1>1. reply'.ok /\ reply'.org = o BY DEF Flush, Done
<1>2. SUFFICES ASSUME NEW row \in workflows, row.org # o
      PROVE  row \in workflows' /\ VersionsOf(row.id)' = VersionsOf(row.id)
  BY <1>1 DEF Isolated
<1>3. CASE SharedSession
  <2>1. workflows' = ws /\ versions' = vs BY <1>3 DEF Flush
  <2>2. VersionsOf(row.id)' = Of(row.id, vs) BY <2>1 DEF VersionsOf, Of
  <2> QED BY <1>2, <2>1, <2>2
<1>4. CASE ~SharedSession
  <2>1. workflows' = workflows /\ versions' = versions BY <1>4 DEF Flush, tables
  <2> QED BY <2>1 DEF VersionsOf
<1> QED BY <1>3, <1>4

\* The tables of a request that leaves them alone.
LEMMA UnchangedIsolates == UNCHANGED tables => Isolated
BY DEF tables, Isolated, VersionsOf

\* A request finds the rows of its own organization; another row's id differs
\* from theirs.
LEMMA Others ==
  ASSUME Inv, NEW o \in Org, NEW w \in Workflow, NEW row \in Found(w, o),
         NEW other \in workflows, other.org # o
  PROVE  other # row /\ other.id # w
BY DEF Inv, TablesOK, Found

\* A publication adds a row of versions for its own workflow.
LEMMA PublishIsolates ==
  ASSUME Inv, NEW o \in Org, NEW w \in Workflow, NEW row \in Found(w, o), NEW body,
         Publish(o, row, body)
  PROVE  Isolated
<1> DEFINE v == [workflow |-> row.id, number |-> NextVersionNumber(row.id),
                 definition |-> ToPublish(row, body)]
           gs == graphs \cup {[version |-> Id(v), graph |-> ToPublish(row, body)]}
<1>1. CASE Flush(o, row.id, Replaced(row, Published(row, v)), Recorded(v), gs)
  <2>1. v.workflow = row.id /\ row.id = w BY DEF Found
  <2> HIDE DEF v, gs
  <2>2. ASSUME NEW other \in workflows, other.org # o
        PROVE  /\ other \in Replaced(row, Published(row, v))
               /\ Of(other.id, Recorded(v)) = VersionsOf(other.id)
    BY <2>1, <2>2, Others DEF Replaced, Recorded, Of, VersionsOf
  <2> QED BY <1>1, <2>2, FlushIsolates
<1>2. CASE Refuse(o) BY <1>2, UnchangedIsolates DEF Refuse
<1> QED BY <1>1, <1>2 DEF Publish

\* Every request leaves the rows of other organizations alone.
LEMMA NextIsolates == Inv /\ Next => Isolated
<1> SUFFICES ASSUME Inv, Next PROVE Isolated OBVIOUS
<1>1. ASSUME NEW o \in Org, Refuse(o) PROVE Isolated
  BY <1>1, UnchangedIsolates DEF Refuse
<1>2. ASSUME NEW o \in Org, NEW w, NEW row,
             Flush(o, w, workflows \cup {row}, versions, graphs)
      PROVE  Isolated
  BY <1>2, FlushIsolates DEF Of, VersionsOf
<1>3. ASSUME NEW o \in Org, NEW role \in DOMAIN Rank, CreateWorkflow(o, role)
      PROVE  Isolated
  BY <1>1, <1>2, <1>3 DEF CreateWorkflow
<1>4. ASSUME NEW o \in Org, NEW role \in DOMAIN Rank, NEW w \in Workflow,
             \/ UpdateWorkflow(o, role, w) \/ DeleteWorkflow(o, role, w)
             \/ PublishWorkflow(o, role, w) \/ RevertWorkflow(o, role, w)
             \/ DuplicateWorkflow(o, role, w) \/ ArchiveWorkflow(o, role, w)
      PROVE  Isolated
  <2>1. ASSUME NEW row \in Found(w, o), NEW new,
               Flush(o, w, Replaced(row, new), versions, graphs)
        PROVE  Isolated
    <3>1. ASSUME NEW other \in workflows, other.org # o
          PROVE  other \in Replaced(row, new) /\ Of(other.id, versions) = VersionsOf(other.id)
      BY <3>1, Others DEF Replaced, Of, VersionsOf
    <3> QED BY <2>1, <3>1, FlushIsolates
  <2>2. ASSUME Flush(o, w, workflows, versions, graphs) PROVE Isolated
    BY <2>2, FlushIsolates DEF Of, VersionsOf
  <2>3. CASE UpdateWorkflow(o, role, w) BY <1>1, <2>1, <2>2, <2>3 DEF UpdateWorkflow
  <2>4. ASSUME NEW row \in Found(w, o),
               Flush(o, None, workflows \ {row}, versions \ VersionsOf(w), Cascaded(w))
        PROVE  Isolated
    <3>1. ASSUME NEW other \in workflows, other.org # o
          PROVE  /\ other \in workflows \ {row}
                 /\ Of(other.id, versions \ VersionsOf(w)) = VersionsOf(other.id)
      BY <3>1, Others DEF Of, VersionsOf
    <3> QED BY <2>4, <3>1, FlushIsolates
  <2>5. CASE DeleteWorkflow(o, role, w) BY <1>1, <2>4, <2>5 DEF DeleteWorkflow
  <2>6. CASE PublishWorkflow(o, role, w) BY <1>1, <2>6, PublishIsolates DEF PublishWorkflow
  <2>7. CASE RevertWorkflow(o, role, w) BY <1>1, <2>7, PublishIsolates DEF RevertWorkflow
  <2>8. CASE DuplicateWorkflow(o, role, w) BY <1>1, <1>2, <2>8 DEF DuplicateWorkflow
  <2>9. CASE ArchiveWorkflow(o, role, w) BY <1>1, <2>1, <2>9 DEF ArchiveWorkflow
  <2> QED BY <1>4, <2>3, <2>5, <2>6, <2>7, <2>8, <2>9
<1> QED BY <1>3, <1>4 DEF Next

----------------------------------------------------------------------------
(* The history that the versions make.                                     *)

\* The versions of every workflow are numbered 1, 2, ..., and their definitions
\* have passed validate_graph.
Numbered ==
  /\ \A u, v \in versions : Id(u) = Id(v) => u = v
  /\ \A v \in versions : v.definition \in Valid
  /\ \A w \in Workflow : \E n \in 0..MaxVersions : {v.number : v \in VersionsOf(w)} = 1..n

Alive == {row.id : row \in workflows}

\* What a request does to the workflows that exist and to their versions.
Kept == UNCHANGED <<versions, ids>> /\ Alive' = Alive

Born(w) ==
  /\ w \notin ids
  /\ versions' = versions /\ ids' = ids \cup {w} /\ Alive' = Alive \cup {w}

Gone(w) ==
  /\ w \in Alive
  /\ versions' = versions \ VersionsOf(w) /\ ids' = ids /\ Alive' = Alive \ {w}

Extended(w, d) ==
  /\ w \in Alive
  /\ versions' = versions \cup
       {[workflow |-> w, number |-> NextVersionNumber(w), definition |-> d]}
  /\ NextVersionNumber(w) <= MaxVersions
  /\ ids' = ids /\ Alive' = Alive

Effect ==
  \/ Kept
  \/ \E w \in Workflow : Born(w) \/ Gone(w) \/ \E d \in Valid : Extended(w, d)

\* Without a shared session nothing is kept of what a request flushed.
LEMMA FlushKeeps ==
  ASSUME NEW o, NEW w, NEW ws, NEW vs, NEW gs, Flush(o, w, ws, vs, gs), ~SharedSession
  PROVE  Kept
BY DEF Flush, Kept, Alive, tables

\* Publishing a row that was found is refused or extends its history.
LEMMA PublishEffect ==
  ASSUME Inv, NEW o \in Org, NEW row \in workflows, NEW body, Publish(o, row, body)
  PROVE  Effect
<1> DEFINE graph == ToPublish(row, body)
           v == [workflow |-> row.id, number |-> NextVersionNumber(row.id),
                 definition |-> graph]
           new == Published(row, v)
           gs == graphs \cup {[version |-> Id(v), graph |-> graph]}
<1>1. row \in Row /\ row.id \in Workflow BY DEF Inv, TablesOK, Row
<1>2. CASE /\ graph \in Valid /\ v.number <= MaxVersions /\ SharedSession
           /\ Flush(o, row.id, Replaced(row, new), Recorded(v), gs)
  <2>1. new.id = row.id BY <1>1 DEF Published, Row
  <2>2. v.number = NextVersionNumber(row.id) OBVIOUS
  <2> HIDE DEF new
  <2>3. {r.id : r \in Replaced(row, new)} = Alive BY <2>1 DEF Replaced, Alive
  <2>4. Alive \subseteq ids BY DEF Inv, Alive
  <2>5. /\ workflows' = Replaced(row, new) /\ versions' = versions \cup {v}
        /\ ids' = ids \cup {r.id : r \in Replaced(row, new)}
    BY <1>2 DEF Flush, Recorded
  <2>6. Alive' = Alive /\ ids' = ids BY <2>3, <2>4, <2>5 DEF Alive
  <2>7. row.id \in Alive BY DEF Alive
  <2>8. Extended(row.id, graph) BY <1>2, <2>2, <2>5, <2>6, <2>7 DEF Extended
  <2> QED BY <1>1, <1>2, <2>8 DEF Effect
<1>3. CASE Refuse(o) BY <1>3 DEF Refuse, Effect, Kept, Alive, tables
<1> QED BY <1>2, <1>3, FlushKeeps DEF Publish, Effect

\* Every request has one of these effects.
LEMMA StepEffect == Inv /\ [Next]_vars => Effect
<1> SUFFICES ASSUME Inv, [Next]_vars PROVE Effect OBVIOUS
<1>1. Alive \subseteq ids /\ Alive \subseteq Workflow BY DEF Inv, Alive, TablesOK, Row
<1>2. CASE UNCHANGED vars BY <1>2 DEF vars, Effect, Kept, Alive
<1>3. ASSUME NEW o \in Org, Refuse(o) PROVE Effect
  BY <1>3 DEF Refuse, Effect, Kept, Alive, tables
\* A new row.
<1>4. ASSUME NEW o \in Org, NEW w \in Workflow \ ids, NEW d,
             Flush(o, w, workflows \cup {[id |-> w, org |-> o, status |-> "draft",
                                          current_version |-> None,
                                          active_version_id |-> None,
                                          draft_definition |-> d]}, versions, graphs)
      PROVE  Effect
  <2> DEFINE row == [id |-> w, org |-> o, status |-> "draft", current_version |-> None,
                     active_version_id |-> None, draft_definition |-> d]
  <2>1. CASE SharedSession
    <3> row.id = w OBVIOUS
    <3>1. {r.id : r \in workflows \cup {row}} = Alive \cup {w}
      <4> HIDE DEF row
      <4> QED BY DEF Alive
    <3>2. workflows' = workflows \cup {row} /\ versions' = versions
          /\ ids' = ids \cup {r.id : r \in workflows \cup {row}}
      BY <1>4, <2>1 DEF Flush
    <3>3. Alive' = Alive \cup {w} BY <3>1, <3>2 DEF Alive
    <3>4. Born(w) BY <1>1, <3>1, <3>2, <3>3 DEF Born
    <3> QED BY <3>4 DEF Effect
  <2> QED BY <1>4, <2>1, FlushKeeps DEF Effect
\* A row that changes and keeps its id.
<1>5. ASSUME NEW o \in Org, NEW w \in Workflow, NEW row \in workflows, NEW new, new.id = row.id,
             Flush(o, w, Replaced(row, new), versions, graphs)
      PROVE  Effect
  <2>1. CASE SharedSession
    <3>1. {r.id : r \in Replaced(row, new)} = Alive BY <1>5 DEF Replaced, Alive
    <3>2. workflows' = Replaced(row, new) /\ versions' = versions
          /\ ids' = ids \cup {r.id : r \in Replaced(row, new)}
      BY <1>5, <2>1 DEF Flush
    <3>3. Kept BY <1>1, <3>1, <3>2 DEF Kept, Alive
    <3> QED BY <3>3 DEF Effect
  <2> QED BY <1>5, <2>1, FlushKeeps DEF Effect
<1>6. ASSUME NEW o \in Org, NEW w \in Workflow, Flush(o, w, workflows, versions, graphs)
      PROVE  Effect
  <2>1. CASE SharedSession
    <3>1. UNCHANGED <<workflows, versions>> /\ ids' = ids \cup Alive
      BY <1>6, <2>1 DEF Flush, Alive
    <3> QED BY <1>1, <3>1 DEF Effect, Kept, Alive
  <2> QED BY <1>6, <2>1, FlushKeeps DEF Effect
\* A row that goes.
<1>7. ASSUME NEW o \in Org, NEW w \in Workflow, NEW row \in Found(w, o),
             Flush(o, None, workflows \ {row}, versions \ VersionsOf(w), Cascaded(w))
      PROVE  Effect
  <2>1. CASE SharedSession
    <3>1. row \in workflows /\ row.id = w BY DEF Found
    <3>2. {r.id : r \in workflows \ {row}} = Alive \ {w} BY <3>1 DEF Inv, TablesOK, Alive
    <3>3. workflows' = workflows \ {row} /\ versions' = versions \ VersionsOf(w)
          /\ ids' = ids \cup {r.id : r \in workflows \ {row}}
      BY <1>7, <2>1 DEF Flush
    <3>4. w \in Alive BY <3>1 DEF Alive
    <3>5. Alive' = Alive \ {w} BY <3>2, <3>3 DEF Alive
    <3>6. Gone(w) BY <1>1, <3>2, <3>3, <3>4, <3>5 DEF Gone
    <3> QED BY <3>6 DEF Effect
  <2> QED BY <1>7, <2>1, FlushKeeps DEF Effect
<1>8. ASSUME NEW o \in Org, NEW role \in DOMAIN Rank, CreateWorkflow(o, role) PROVE Effect
  BY <1>3, <1>4, <1>8 DEF CreateWorkflow
<1>9. ASSUME NEW o \in Org, NEW role \in DOMAIN Rank, NEW w \in Workflow,
             \/ UpdateWorkflow(o, role, w) \/ DeleteWorkflow(o, role, w)
             \/ PublishWorkflow(o, role, w) \/ RevertWorkflow(o, role, w)
             \/ DuplicateWorkflow(o, role, w) \/ ArchiveWorkflow(o, role, w)
      PROVE  Effect
  <2>1. Found(w, o) \subseteq workflows BY DEF Found
  <2>2. ASSUME NEW row \in workflows, NEW d
        PROVE  /\ [row EXCEPT !.draft_definition = d].id = row.id
               /\ [row EXCEPT !.status = d].id = row.id
    BY DEF Inv, TablesOK, Row
  <2>3. CASE UpdateWorkflow(o, role, w)
    BY <1>3, <1>5, <1>6, <2>1, <2>2, <2>3 DEF UpdateWorkflow
  <2>4. CASE DeleteWorkflow(o, role, w) BY <1>3, <1>7, <2>4 DEF DeleteWorkflow
  <2>5. CASE PublishWorkflow(o, role, w)
    BY <1>3, <2>1, <2>5, PublishEffect DEF PublishWorkflow
  <2>6. CASE RevertWorkflow(o, role, w)
    BY <1>3, <2>1, <2>6, PublishEffect DEF RevertWorkflow
  <2>7. CASE DuplicateWorkflow(o, role, w) BY <1>3, <1>4, <2>7 DEF DuplicateWorkflow
  <2>8. CASE ArchiveWorkflow(o, role, w)
    BY <1>3, <1>5, <2>1, <2>2, <2>8 DEF ArchiveWorkflow
  <2> QED BY <1>9, <2>3, <2>4, <2>5, <2>6, <2>7, <2>8
<1> QED BY <1>2, <1>8, <1>9 DEF Next

\* MAX + 1 of 1, ..., n.
LEMMA NextOfRange ==
  ASSUME NEW w, NEW n \in Nat, {v.number : v \in VersionsOf(w)} = 1..n
  PROVE  NextVersionNumber(w) = n + 1
<1>1. NextVersionNumber(w) = Max((1..n) \cup {0}) + 1 BY DEF NextVersionNumber
<1>2. n \in (1..n) \cup {0} /\ \A m \in (1..n) \cup {0} : n >= m OBVIOUS
<1>3. Max((1..n) \cup {0}) = n
  <2>1. \E m \in (1..n) \cup {0} : \A k \in (1..n) \cup {0} : m >= k BY <1>2
  <2>2. Max((1..n) \cup {0}) \in (1..n) \cup {0}
        /\ \A k \in (1..n) \cup {0} : Max((1..n) \cup {0}) >= k
    BY <2>1 DEF Max
  <2>3. PICK m : m = Max((1..n) \cup {0}) OBVIOUS
  <2>4. m \in Nat /\ m >= n /\ n >= m BY <1>2, <2>2, <2>3
  <2> QED BY <2>3, <2>4
<1> QED BY <1>1, <1>3

\* No effect makes a gap in the numbers or uses one twice.
LEMMA NumberedNext == Inv /\ Numbered /\ Effect => Numbered'
<1> SUFFICES ASSUME Inv, Numbered, Effect PROVE Numbered' OBVIOUS
<1>1. CASE Kept BY <1>1 DEF Kept, Numbered, VersionsOf
<1>2. ASSUME NEW w \in Workflow, Born(w) PROVE Numbered'
  BY <1>2 DEF Born, Numbered, VersionsOf
<1>3. ASSUME NEW w \in Workflow, Gone(w) PROVE Numbered'
  <2>1. versions' \subseteq versions BY <1>3 DEF Gone
  <2>2. VersionsOf(w)' = {} BY <1>3 DEF Gone, VersionsOf
  <2>3. \A x \in Workflow \ {w} : VersionsOf(x)' = VersionsOf(x)
    BY <1>3 DEF Gone, VersionsOf
  <2>4. {v.number : v \in VersionsOf(w)'} = 1..0 /\ 0 \in 0..MaxVersions
    BY <2>2, WorkflowAssumption
  <2>5. \A x \in Workflow : \E n \in 0..MaxVersions : {v.number : v \in VersionsOf(x)'} = 1..n
    BY <2>3, <2>4 DEF Numbered
  <2> QED BY <2>1, <2>5 DEF Numbered
<1>4. ASSUME NEW w \in Workflow, NEW d \in Valid, Extended(w, d) PROVE Numbered'
  <2> DEFINE v == [workflow |-> w, number |-> NextVersionNumber(w), definition |-> d]
  <2>1. PICK n \in 0..MaxVersions : {u.number : u \in VersionsOf(w)} = 1..n BY DEF Numbered
  <2>2. n \in Nat BY <2>1, WorkflowAssumption
  <2>3. v.workflow = w /\ v.number = n + 1 /\ v.definition = d BY <2>1, <2>2, NextOfRange
  <2>4. versions' = versions \cup {v} /\ n + 1 <= MaxVersions
    BY <1>4, <2>3 DEF Extended
  <2> HIDE DEF v
  <2>5. VersionsOf(w)' = VersionsOf(w) \cup {v} BY <2>3, <2>4 DEF VersionsOf
  <2>6. \A x \in Workflow \ {w} : VersionsOf(x)' = VersionsOf(x)
    BY <2>3, <2>4 DEF VersionsOf
  <2>7. {u.number : u \in VersionsOf(w)'} = 1..(n + 1)
    <3>1. {u.number : u \in VersionsOf(w)'} = {u.number : u \in VersionsOf(w)} \cup {n + 1}
      BY <2>3, <2>5
    <3> QED BY <2>1, <2>2, <3>1
  <2>8. n + 1 \in 0..MaxVersions BY <2>2, <2>4, WorkflowAssumption
  <2>9. \A x \in Workflow : \E m \in 0..MaxVersions : {u.number : u \in VersionsOf(x)'} = 1..m
    BY <2>6, <2>7, <2>8 DEF Numbered
  <2>10. \A u \in versions : Id(u) # Id(v)
    <3> SUFFICES ASSUME NEW u \in versions, Id(u) = Id(v) PROVE FALSE OBVIOUS
    <3>1. u.workflow = w /\ u.number = n + 1 BY <2>3 DEF Id
    <3>2. u.number \in 1..n BY <2>1, <3>1 DEF VersionsOf
    <3> QED BY <2>2, <3>1, <3>2
  <2>11. \A u \in versions' : u.definition \in Valid BY <2>3, <2>4 DEF Numbered
  <2>12. \A u, x \in versions' : Id(u) = Id(x) => u = x BY <2>4, <2>10 DEF Numbered
  <2> QED BY <2>9, <2>11, <2>12 DEF Numbered, Id
<1> QED BY <1>1, <1>2, <1>3, <1>4 DEF Effect

\* The numbers count the versions.
LEMMA Count ==
  ASSUME NEW S, NEW n \in Nat, {v.number : v \in S} = 1..n,
         \A u, v \in S : u.number = v.number => u = v
  PROVE  Cardinality(S) = n
<1> DEFINE f == [i \in 1..n |-> CHOOSE v \in S : v.number = i]
<1>1. \A i \in 1..n : \E v \in S : v.number = i OBVIOUS
<1>2. \A i \in 1..n : f[i] \in S /\ f[i].number = i BY <1>1
<1>3. f \in [1..n -> S] BY <1>2
<1>4. \A v \in S : v.number \in 1..n OBVIOUS
<1>5. \A v \in S : f[v.number] = v BY <1>2, <1>4
<1> HIDE DEF f
<1>6. \A i, j \in 1..n : f[i] = f[j] => i = j BY <1>2
<1>7. f \in Bijection(1..n, S)
  BY <1>3, <1>4, <1>5, <1>6 DEF Bijection, Injection, Surjection, IsInjective
<1>8. ExistsBijection(1..n, S) BY <1>7 DEF ExistsBijection
<1> QED BY <1>8, FS_CountingElements

\* The numbers of a workflow's versions, which are known to exist.
LEMMA Length ==
  ASSUME Numbered, NEW w \in Workflow
  PROVE  \E n \in Nat : /\ {v.number : v \in VersionsOf(w)} = 1..n
                        /\ HistoryOf(w) = [i \in 1..n |-> DefinitionAt(w, i)]
<1>1. PICK n \in 0..MaxVersions : {v.number : v \in VersionsOf(w)} = 1..n BY DEF Numbered
<1>2. n \in Nat BY <1>1, WorkflowAssumption
<1>3. \A u, v \in VersionsOf(w) : u.number = v.number => u = v
  BY DEF Numbered, VersionsOf, Id
<1>4. Cardinality(VersionsOf(w)) = n BY <1>1, <1>2, <1>3, Count
<1> QED BY <1>1, <1>2, <1>4 DEF HistoryOf

\* A function on 1..n+1 is the one on 1..n with a last element.
LEMMA AppendOne ==
  ASSUME NEW S, NEW n \in Nat, NEW F \in [1..n -> S], NEW G \in [1..(n + 1) -> S],
         \A i \in 1..n : G[i] = F[i]
  PROVE  G = Append(F, G[n + 1])
<1>1. F \in Seq(S) /\ G \in Seq(S) BY SeqDef
<1>2. Len(F) = n /\ Len(G) = n + 1 BY <1>1, LenProperties
<1>3. G[n + 1] \in S OBVIOUS
<1> QED BY <1>1, <1>2, <1>3

\* The history and the life of a workflow depend on its versions, on its row and
\* on its id alone.
LEMMA SameHistory ==
  ASSUME NEW w, VersionsOf(w)' = VersionsOf(w) PROVE HistoryOf(w)' = HistoryOf(w)
BY DEF HistoryOf, DefinitionAt

\* A workflow whose row and id stay as they are stays alive, deleted or unborn.
LEMMA SameLife ==
  ASSUME NEW w, w \in Alive' <=> w \in Alive, w \in ids' <=> w \in ids
  PROVE  LifeOf(w)' = LifeOf(w)
BY DEF LifeOf, Alive

\* The three lives of a workflow.
LEMMA LifeCases ==
  ASSUME NEW w
  PROVE  LifeOf(w) = IF w \in Alive THEN "alive" ELSE IF w \in ids THEN "deleted" ELSE "unborn"
BY DEF LifeOf, Alive

\* A step that leaves all other workflows alone moves one component of the mapping.
LEMMA MoveOne ==
  ASSUME NEW w \in Workflow, \A x \in Workflow \ {w} :
           LifeOf(x)' = LifeOf(x) /\ HistoryOf(x)' = HistoryOf(x)
  PROVE  /\ [x \in Workflow |-> LifeOf(x)]' =
              [[x \in Workflow |-> LifeOf(x)] EXCEPT ![w] = LifeOf(w)']
         /\ [x \in Workflow |-> HistoryOf(x)]' =
              [[x \in Workflow |-> HistoryOf(x)] EXCEPT ![w] = HistoryOf(w)']
OBVIOUS

\* Every effect is a step of VersionHistory or changes nothing of its story.
LEMMA RefineNext ==
  Inv /\ Numbered /\ Numbered' /\ Effect => [History!Next]_History!story
<1> SUFFICES ASSUME Inv, Numbered, Numbered', Effect PROVE [History!Next]_History!story
  OBVIOUS
<1>1. CASE Kept
  <2>1. \A w \in Workflow : LifeOf(w)' = LifeOf(w) BY <1>1, SameLife DEF Kept
  <2>2. \A w \in Workflow : HistoryOf(w)' = HistoryOf(w)
    BY <1>1, SameHistory DEF Kept, VersionsOf
  <2> QED BY <2>1, <2>2 DEF History!story
<1>2. ASSUME NEW w \in Workflow, Born(w) PROVE History!Next
  <2>1. \A x \in Workflow : HistoryOf(x)' = HistoryOf(x)
    BY <1>2, SameHistory DEF Born, VersionsOf
  <2>2. \A x \in Workflow \ {w} : LifeOf(x)' = LifeOf(x) BY <1>2, SameLife DEF Born
  <2>3. w \notin Alive BY <1>2 DEF Born, Inv, Alive
  <2>4. LifeOf(w) = "unborn" BY <1>2, <2>3, LifeCases DEF Born
  <2>5. LifeOf(w)' = "alive" BY <1>2 DEF Born, LifeOf, Alive
  <2>6. History!Begin(w) BY <2>1, <2>2, <2>4, <2>5, MoveOne DEF History!Begin
  <2> QED BY <2>6 DEF History!Next
<1>3. ASSUME NEW w \in Workflow, Gone(w) PROVE History!Next
  <2>1. \A x \in Workflow \ {w} : LifeOf(x)' = LifeOf(x) /\ HistoryOf(x)' = HistoryOf(x)
    BY <1>3, SameLife, SameHistory DEF Gone, VersionsOf
  <2>2. w \in ids BY <1>3 DEF Gone, Inv, Alive
  <2>3. LifeOf(w) = "alive" /\ LifeOf(w)' = "deleted"
    BY <1>3, <2>2 DEF Gone, LifeOf, Alive
  <2>4. HistoryOf(w)' = <<>>
    <3>1. VersionsOf(w)' = {} BY <1>3 DEF Gone, VersionsOf
    <3>2. Cardinality(VersionsOf(w)') = 0 BY <3>1, FS_EmptySet
    <3> QED BY <3>2 DEF HistoryOf
  <2>5. History!Delete(w)
    <3>1. [x \in Workflow |-> HistoryOf(x)]' =
            [[x \in Workflow |-> HistoryOf(x)] EXCEPT ![w] = <<>>]
      BY <2>1, <2>4, MoveOne
    <3> QED BY <2>1, <2>3, <3>1, MoveOne DEF History!Delete
  <2> QED BY <2>5 DEF History!Next
<1>4. ASSUME NEW w \in Workflow, NEW d \in Valid, Extended(w, d) PROVE History!Next
  <2> DEFINE v == [workflow |-> w, number |-> NextVersionNumber(w), definition |-> d]
  <2>1. PICK n \in Nat : /\ {u.number : u \in VersionsOf(w)} = 1..n
                         /\ HistoryOf(w) = [i \in 1..n |-> DefinitionAt(w, i)]
    BY Length
  <2>2. v.workflow = w /\ v.number = n + 1 /\ v.definition = d BY <2>1, NextOfRange
  <2>3. versions' = versions \cup {v} BY <1>4 DEF Extended
  <2> HIDE DEF v
  <2>4. VersionsOf(w)' = VersionsOf(w) \cup {v} BY <2>2, <2>3 DEF VersionsOf
  <2>5. {u.number : u \in VersionsOf(w)'} = 1..(n + 1)
    <3>1. {u.number : u \in VersionsOf(w)'} = {u.number : u \in VersionsOf(w)} \cup {n + 1}
      BY <2>2, <2>4
    <3> QED BY <2>1, <3>1
  <2>6. Cardinality(VersionsOf(w)') = n + 1
    <3>1. \A x, y \in VersionsOf(w)' : x.number = y.number => x = y
      BY DEF Numbered, VersionsOf, Id
    <3> QED BY <2>1, <2>5, <3>1, Count
  <2>7. HistoryOf(w)' = [i \in 1..(n + 1) |-> DefinitionAt(w, i)'] BY <2>6 DEF HistoryOf
  <2>8. \A u \in VersionsOf(w) : u.number \in 1..n BY <2>1
  <2>9. \A i \in 1..n : DefinitionAt(w, i)' = DefinitionAt(w, i)
    <3> SUFFICES ASSUME NEW i \in 1..n PROVE DefinitionAt(w, i)' = DefinitionAt(w, i)
      OBVIOUS
    <3>1. PICK u \in VersionsOf(w) : u.number = i BY <2>1
    <3>2. \A x, y \in VersionsOf(w)' : x.number = y.number => x = y
      BY DEF Numbered, VersionsOf, Id
    <3>3. u \in VersionsOf(w)' BY <2>4
    <3>4. DefinitionAt(w, i) = u.definition BY <2>4, <3>1, <3>2 DEF DefinitionAt
    <3>5. DefinitionAt(w, i)' = u.definition BY <3>1, <3>2, <3>3 DEF DefinitionAt
    <3> QED BY <3>4, <3>5
  <2>10. DefinitionAt(w, n + 1)' = d
    <3>1. v \in VersionsOf(w)' BY <2>4
    <3>2. \A x, y \in VersionsOf(w)' : x.number = y.number => x = y
      BY DEF Numbered, VersionsOf, Id
    <3> QED BY <2>2, <3>1, <3>2 DEF DefinitionAt
  <2>11. HistoryOf(w)' = Append(HistoryOf(w), d)
    <3> PICK F : F = HistoryOf(w) OBVIOUS
    <3> PICK G : G = HistoryOf(w)' OBVIOUS
    <3> PICK S : S = {F[i] : i \in 1..n} \cup {d} OBVIOUS
    <3>1. /\ \A i \in 1..n : G[i] = F[i]
          /\ G[n + 1] = d
      BY <2>1, <2>7, <2>9, <2>10
    <3>2. F \in [1..n -> S] BY <2>1
    <3>3. G \in [1..(n + 1) -> S] BY <2>7, <3>1
    <3>4. G = Append(F, G[n + 1]) BY <3>1, <3>2, <3>3, AppendOne
    <3> QED BY <3>1, <3>4
  <2>12. \A x \in Workflow : LifeOf(x)' = LifeOf(x) BY <1>4, SameLife DEF Extended
  <2>13. \A x \in Workflow \ {w} : HistoryOf(x)' = HistoryOf(x)
    BY <2>2, <2>3, SameHistory DEF VersionsOf
  <2>14. LifeOf(w) = "alive" BY <1>4, LifeCases DEF Extended
  <2>15. History!Extend(w) BY <2>11, <2>12, <2>13, <2>14, MoveOne DEF History!Extend
  <2> QED BY <2>15 DEF History!Next
<1> QED BY <1>1, <1>2, <1>3, <1>4 DEF Effect

\* Nothing is born or published at first.
LEMMA RefineInit == Init => Numbered /\ History!Init
<1> SUFFICES ASSUME Init PROVE Numbered /\ History!Init OBVIOUS
<1>1. \A w \in Workflow : VersionsOf(w) = {} BY DEF Init, VersionsOf
<1>2. \A w \in Workflow : {v.number : v \in VersionsOf(w)} = 1..0 BY <1>1
<1>3. 0 \in 0..MaxVersions BY WorkflowAssumption
<1>4. Numbered BY <1>2, <1>3 DEF Init, Numbered
<1>5. \A w \in Workflow : HistoryOf(w) = <<>>
  <2>1. \A w \in Workflow : Cardinality(VersionsOf(w)) = 0 BY <1>1, FS_EmptySet
  <2> QED BY <2>1 DEF HistoryOf
<1>6. \A w \in Workflow : LifeOf(w) = "unborn" BY DEF Init, LifeOf
<1> QED BY <1>4, <1>5, <1>6 DEF History!Init

----------------------------------------------------------------------------
(* The results.                                                            *)

\* The tables are well-typed and their ids are keys.
THEOREM TypeCorrect == Spec => []TypeOK
BY InvTypes, InvAlways, PTL

\* Whatever is updated, published, reverted and archived, a workflow points to
\* its last version.
THEOREM PointersMatchHolds == Spec => []PointersMatch
BY InvTypes, InvAlways, PTL

\* The node and edge rows are those of the versions, and of no others.
THEOREM GraphsMatchHolds == Spec => []GraphsMatch
BY InvTypes, InvAlways, PTL

\* A workflow's rows change only by a request from its own organization: no
\* route reaches a row but through _get_workflow.
THEOREM TenantIsolationHolds == Spec => TenantIsolation
<1>1. Inv /\ [Next]_vars => [Isolated]_vars BY NextIsolates
<1>2. TenantIsolation <=> [][Isolated]_vars BY DEF TenantIsolation, Isolated
<1> QED BY <1>1, <1>2, InvAlways, PTL DEF Spec

\* The rows of workflow_versions, whatever is published, reverted, archived and
\* deleted, are an append-only history of definitions that validate_graph accepts,
\* numbered without gaps; a deleted workflow does not come back.
THEOREM ImplementsHistoryHolds == Spec => ImplementsHistory
<1>1. Inv /\ Numbered /\ [Next]_vars => Numbered' BY StepEffect, NumberedNext
<1>2. Spec => []Numbered BY <1>1, RefineInit, InvAlways, PTL DEF Spec
<1>3. Inv /\ Numbered /\ Numbered' /\ [Next]_vars => [History!Next]_History!story
  BY StepEffect, RefineNext
<1> QED
  BY <1>2, <1>3, RefineInit, InvAlways, PTL DEF Spec, ImplementsHistory, History!Spec
=============================================================================
