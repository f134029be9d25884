-------------------------- MODULE MCGraphValidator --------------------------
(* All graphs of a few nodes and edges, for TLC.  Renaming ids changes      *)
(* nothing, so that only graphs are taken whose ids come in order, those of *)
(* triggers first.                                                          *)
EXTENDS GraphValidator, TLC

CONSTANTS n1, n2, n3, MaxNodes, MaxEdges

Ids == {n1, n2, n3}

InOrder(nodes) ==
  {n.id : n \in nodes} \in {{}, {n1}, {n1, n2}, Ids}

SmallGraphs ==
  [nodes : {N \in SUBSET Node : /\ Cardinality(N) <= MaxNodes
                                /\ InOrder(N)
                                /\ InOrder({n \in N : n.type \in Trigger})},
   edges : {E \in SUBSET Edge : Cardinality(E) <= MaxEdges}]
=============================================================================
