--------------------------- MODULE GraphValidator ---------------------------
(***************************************************************************)
(* validate_graph of app/modules/workflows/validator.py, the gate that a   *)
(* workflow's graph passes when it is published: the depth-first search    *)
(* for cycles one step at a time, and the checks around it.                *)
(*                                                                         *)
(* The payload's lists come in any order, so that the order in which nodes *)
(* and neighbours are looked at is left open.  Nothing checks that ids are *)
(* unique or that an edge joins nodes of the graph: two nodes may share an *)
(* id and the ends of an edge may be ids of no node.                       *)
(*                                                                         *)
(* The search is recursive.  RecursionError comes when the interpreter's   *)
(* limit, the caller's frames included, is reached: never for SafeDepth    *)
(* nested calls, and possibly for any more.                                *)
(***************************************************************************)
EXTENDS Naturals, Sequences, FiniteSets

CONSTANTS
  Id,         \* ids of nodes
  Type,       \* types that nodes name
  Registry,   \* the types in NODE_REGISTRY
  Trigger,    \* those of them that start with "trigger."
  Condition,  \* action.condition
  Handle,     \* source handles, "true" and "false" among them
  Graph,      \* graphs that are sent for validation
  SafeDepth   \* nested calls that the recursion limit surely allows

Node == [id : Id, type : Type]
Edge == [source : Id, target : Id, sourceHandle : Handle]

ASSUME GraphAssumption ==
  /\ Trigger \subseteq Registry /\ Condition \notin Trigger
  /\ Graph \subseteq [nodes : SUBSET Node, edges : SUBSET Edge]
  /\ SafeDepth \in Nat \ {0}

VARIABLES
  graph,     \* the argument
  stack,     \* active calls of dfs: node_id, and the neighbours not looked at yet
  visited,   \* visited
  in_stack,  \* in_stack
  errors,    \* errors
  pc         \* searching, returned, or raised (RecursionError)

vars == <<graph, stack, visited, in_stack, errors, pc>>

Message == {"unknown type", "no trigger", "empty", "cycle", "orphan",
            "no true branch", "no false branch"}

Error == [node_id : Id \cup {""}, message : Message]

err(node_id, message) == [node_id |-> node_id, message |-> message]

----------------------------------------------------------------------------
NodeIds == {n.id : n \in graph.nodes}

\* adjacency
Neighbours(x) == {e.target : e \in {f \in graph.edges : f.source = x}}

TriggerIds == {n.id : n \in {m \in graph.nodes : m.type \in Trigger}}

\* Unknown types, no trigger, no node.
TypeErrors(g) ==
  {err(n.id, "unknown type") : n \in {m \in g.nodes : m.type \notin Registry}}
    \cup {e \in {err("", "no trigger")} : \A n \in g.nodes : n.type \notin Trigger}
    \cup {e \in {err("", "empty")} : g.nodes = {}}

\* nodes_with_incoming
HasOutgoing(x) == \E e \in graph.edges : e.source = x
HasIncoming(x) == \E e \in graph.edges : e.target = x

Orphans ==
  {err(n.id, "orphan") :
     n \in {m \in graph.nodes : m.type \notin Trigger /\ ~HasIncoming(m.id)}}

\* outgoing_handles
HasBranch(x, handle) == \E e \in graph.edges : e.source = x /\ e.sourceHandle = handle

Unbranched(handle, message) ==
  {err(n.id, message) :
     n \in {m \in graph.nodes : m.type = Condition /\ ~HasBranch(m.id, handle)}}

BranchErrors == Unbranched("true", "no true branch") \cup Unbranched("false", "no false branch")

CycleReported == \E e \in errors : e.message = "cycle"

----------------------------------------------------------------------------
(* dfs                                                                     *)

EdgeFrame(x) == [id |-> x, todo |-> {e \in graph.edges : e.source = x}]
Frame(x) == [id |-> x, todo |-> Neighbours(x)]

Top == stack[Len(stack)]

\* The calls below the top one.
Below == SubSeq(stack, 1, Len(stack) - 1)

\* The for loop of the top call moves past neighbour y.
Restarted(y) == stack
Past(y) == [stack EXCEPT ![Len(stack)].todo = @ \ {y}]

\* dfs(x), called from the calls of frames.
Call(x, frames) ==
  /\ visited' = visited \cup {x}
  /\ in_stack' = in_stack \cup {x}
  /\ stack' = Append(frames, Frame(x))
  /\ UNCHANGED <<graph, errors, pc>>

Looking(y) == pc = "searching" /\ stack # <<>> /\ y \in Top.todo

\* The loop over the nodes: the next one that was not visited.
Root == \E x \in NodeIds \ visited :
  /\ pc = "searching"
  /\ stack = <<>>
  /\ Call(x, <<>>)

Descend == \E y \in Id \ visited : Looking(y) /\ Call(y, Past(y))

\* A visited neighbour is on the way back to itself.
ClosedByVisited(y) == y \in visited
ClosedBy(y) == y \in in_stack

\* A cycle: reported once, and every active call returns True, whose ids stay
\* in in_stack.
Close == \E y \in visited :
  /\ Looking(y) /\ ClosedBy(y)
  /\ errors' = IF CycleReported THEN errors ELSE errors \cup {err(Top.id, "cycle")}
  /\ stack' = <<>>
  /\ UNCHANGED <<graph, visited, in_stack, pc>>

Pass == \E y \in visited :
  /\ Looking(y) /\ ~ClosedBy(y)
  /\ stack' = Past(y)
  /\ UNCHANGED <<graph, visited, in_stack, errors, pc>>

\* The top call returns False.
Kept(x) == in_stack
Discarded(x) == in_stack \ {x}

Return ==
  /\ pc = "searching" /\ stack # <<>> /\ Top.todo = {}
  /\ in_stack' = Discarded(Top.id)
  /\ stack' = Below
  /\ UNCHANGED <<graph, visited, errors, pc>>

\* A call too many: RecursionError leaves validate_graph.
Overflow ==
  /\ Len(stack) >= SafeDepth
  /\ \E y \in Id \ visited : Looking(y)
  /\ pc' = "raised"
  /\ UNCHANGED <<graph, stack, visited, in_stack, errors>>

\* Orphans and branches, after the search.
Finish ==
  /\ pc = "searching" /\ stack = <<>> /\ NodeIds \subseteq visited
  /\ errors' = errors \cup Orphans \cup BranchErrors
  /\ pc' = "returned"
  /\ UNCHANGED <<graph, stack, visited, in_stack>>

----------------------------------------------------------------------------
Init ==
  /\ graph \in Graph
  /\ stack = <<>>
  /\ visited = {}
  /\ in_stack = {}
  /\ errors = TypeErrors(graph)
  /\ pc = "searching"

Next == Root \/ Descend \/ Close \/ Pass \/ Return \/ Overflow \/ Finish

\* validate_graph awaits nothing: it runs until it is over.
Spec == Init /\ [][Next]_vars /\ WF_vars(Next)

----------------------------------------------------------------------------
(* Properties.                                                             *)

\* The variables have the types of the search.
TypeOK ==
  /\ graph \in Graph
  /\ stack \in Seq([id : Id, todo : SUBSET Id])
  /\ visited \in SUBSET Id
  /\ in_stack \in SUBSET Id
  /\ errors \in SUBSET Error
  /\ pc \in {"searching", "returned", "raised"}

\* The reference definition: a set of ids in which every one has a neighbour.
CycleIn(ids) ==
  \E C \in SUBSET ids : C # {} /\ \A x \in C : Neighbours(x) \cap C # {}

\* The search reports a cycle exactly when the graph has one, in whatever order
\* it meets nodes and edges; a cycle that ids of no node take part in may be missed.
CycleVerdict ==
  pc = "returned" =>
    /\ CycleIn(NodeIds) => CycleReported
    /\ CycleReported => CycleIn(Id)

\* The edges join nodes of the graph.
EdgesJoinNodes == \A e \in graph.edges : e.source \in NodeIds /\ e.target \in NodeIds

\* The nodes that a run starting from the triggers gets to: those of every set
\* that has the triggers and the neighbours of its members.
Runnable(x) ==
  \A S \in SUBSET Id :
    TriggerIds \subseteq S /\ (\A y \in S : Neighbours(y) \subseteq S) => x \in S

\* What the checks amount to together and none of them asks for: in a graph
\* that may be published, whose edges join its nodes, every node is reached from
\* a trigger ("connected subgraph", docs/DevelopmentPlan.md).
AcceptedIsRunnable ==
  pc = "returned" /\ errors = {} /\ EdgesJoinNodes => \A x \in NodeIds : Runnable(x)

\* The node that a cycle error names lies on a cycle.
OnCycle(x) ==
  \A S \in SUBSET Id :
    Neighbours(x) \subseteq S /\ (\A y \in S : Neighbours(y) \subseteq S) => x \in S

CulpritOnCycle == \A e \in errors : e.message = "cycle" => OnCycle(e.node_id)

\* Cycles or not, the search comes to an end.
Terminates == <>(pc # "searching")
=============================================================================
