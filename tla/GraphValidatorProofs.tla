----------------------- MODULE GraphValidatorProofs -----------------------
(***************************************************************************)
(* What validate_graph guarantees for every graph: it reports a cycle      *)
(* exactly when there is one, and in a graph that it accepts every node is *)
(* reached from a trigger.                                                 *)
(***************************************************************************)
EXTENDS GraphValidator, SequenceTheorems, TLAPS

StackFrame == [id : Id, todo : SUBSET Id]

\* Neighbours are ids.
LEMMA NeighboursType ==
  ASSUME graph \in Graph, NEW x PROVE Neighbours(x) \in SUBSET Id
BY GraphAssumption DEF Neighbours, Edge

\* So are the nodes of the graph.
LEMMA NodeIdsType == ASSUME graph \in Graph PROVE NodeIds \in SUBSET Id
BY GraphAssumption DEF NodeIds, Node

\* A call of dfs starts with all neighbours to look at.
LEMMA FrameType ==
  ASSUME graph \in Graph, NEW x \in Id PROVE Frame(x) \in StackFrame
BY NeighboursType DEF Frame, StackFrame

\* The errors of a graph's nodes.
LEMMA ErrType ==
  \A x \in Id \cup {""}, m \in Message : err(x, m) \in Error
BY DEF err, Error

\* An error has the id and the message it is made with.
LEMMA ErrFields ==
  \A x, m : err(x, m).node_id = x /\ err(x, m).message = m
BY DEF err

\* The stack of a search in progress has a top, and is what is below it otherwise.
LEMMA TopType ==
  ASSUME TypeOK, stack # <<>>
  PROVE  /\ Len(stack) \in Nat \ {0}
         /\ Top \in StackFrame /\ Top = stack[Len(stack)]
         /\ Below \in Seq(StackFrame) /\ Len(Below) = Len(stack) - 1
         /\ \A i \in 1..(Len(stack) - 1) : Below[i] = stack[i]
<1>1. stack \in Seq(StackFrame) BY DEF TypeOK, StackFrame
<1>2. Len(stack) \in Nat \ {0} BY <1>1, EmptySeq
<1>3. \A i \in 1..Len(stack) : stack[i] \in StackFrame BY <1>1, ElementOfSeq
<1>4. \A i \in 1..(Len(stack) - 1) : stack[i] \in StackFrame BY <1>2, <1>3
<1>5. Below \in Seq(StackFrame)
      /\ Len(Below) = (IF 1 <= Len(stack) - 1 THEN Len(stack) - 1 - 1 + 1 ELSE 0)
      /\ \A i \in 1..(Len(stack) - 1 - 1 + 1) : Below[i] = stack[1 + i - 1]
  BY <1>2, <1>4, SubSeqProperties, SMTT(20) DEF Below
<1>6. Len(Below) = Len(stack) - 1
  <2>1. \A n \in Nat \ {0} : (IF 1 <= n - 1 THEN n - 1 - 1 + 1 ELSE 0) = n - 1 OBVIOUS
  <2> QED BY <1>2, <1>5, <2>1
<1>7. \A i \in 1..(Len(stack) - 1) : Below[i] = stack[i]
  <2> TAKE i \in 1..(Len(stack) - 1)
  <2>1. i \in 1..(Len(stack) - 1 - 1 + 1) /\ 1 + i - 1 = i BY <1>2
  <2> QED BY <1>5, <2>1
<1>8. Top \in StackFrame /\ Top = stack[Len(stack)] BY <1>2, <1>3 DEF Top
<1> QED BY <1>2, <1>5, <1>6, <1>7, <1>8

\* What the loop leaves behind it.
LEMMA PastFrames ==
  ASSUME TypeOK, stack # <<>>, NEW y
  PROVE  /\ Past(y) \in Seq(StackFrame)
         /\ Len(Past(y)) = Len(stack)
         /\ \A i \in 1..Len(stack) :
              /\ Past(y)[i].id = stack[i].id
              /\ i # Len(stack) => Past(y)[i] = stack[i]
         /\ Past(y)[Len(stack)].todo = Top.todo \ {y}
<1>1. stack \in Seq(StackFrame) BY DEF TypeOK, StackFrame
<1>2. Len(stack) \in 1..Len(stack) BY TopType
<1>3. stack[Len(stack)] \in StackFrame BY TopType
<1> DEFINE last == [stack[Len(stack)] EXCEPT !.todo = @ \ {y}]
<1>4. last \in StackFrame BY <1>3 DEF StackFrame
<1>5. Past(y) = [stack EXCEPT ![Len(stack)] = last] BY <1>1, <1>2 DEF Past
<1>6. last.id = stack[Len(stack)].id /\ last.todo = Top.todo \ {y} BY <1>3 DEF Top, StackFrame
<1> HIDE DEF last
<1>7. /\ Past(y) \in Seq(StackFrame)
      /\ Len(Past(y)) = Len(stack)
      /\ \A i \in 1..Len(stack) : Past(y)[i] = IF i = Len(stack) THEN last ELSE stack[i]
  BY <1>1, <1>2, <1>4, <1>5, ExceptSeq
<1> QED BY <1>2, <1>6, <1>7

\* A call of dfs keeps the types.
LEMMA CallType ==
  ASSUME TypeOK, NEW x \in Id, NEW frames \in Seq(StackFrame), Call(x, frames)
  PROVE  TypeOK'
<1>1. Frame(x) \in StackFrame BY FrameType DEF TypeOK
<1>2. stack' \in Seq(StackFrame) BY <1>1 DEF Call
<1> QED BY <1>2 DEF Call, TypeOK, StackFrame

\* A search starts well-typed.
LEMMA TypeInit == Init => TypeOK
<1> SUFFICES ASSUME Init PROVE TypeOK OBVIOUS
<1>1. TypeErrors(graph) \in SUBSET Error
  <2>1. graph.nodes \in SUBSET Node BY GraphAssumption DEF Init
  <2>2. \A n \in graph.nodes : err(n.id, "unknown type") \in Error
    BY <2>1, ErrType DEF Message, Node
  <2>3. err("", "no trigger") \in Error /\ err("", "empty") \in Error BY ErrType DEF Message
  <2> QED BY <2>2, <2>3 DEF TypeErrors
<1> QED BY <1>1 DEF Init, TypeOK

\* Every step of the search keeps the types.
LEMMA TypeNext == TypeOK /\ [Next]_vars => TypeOK'
<1> SUFFICES ASSUME TypeOK, [Next]_vars PROVE TypeOK' OBVIOUS
<1>1. CASE Root
  <2>1. PICK x \in NodeIds \ visited : Call(x, <<>>) BY <1>1 DEF Root
  <2>2. x \in Id BY <2>1, NodeIdsType DEF TypeOK
  <2>3. <<>> \in Seq(StackFrame) OBVIOUS
  <2> QED BY <2>1, <2>2, <2>3, CallType
<1>2. CASE Descend
  <2>1. PICK y \in Id \ visited : Looking(y) /\ Call(y, Past(y)) BY <1>2 DEF Descend
  <2>2. Past(y) \in Seq(StackFrame) BY <2>1, PastFrames DEF Looking
  <2> QED BY <2>1, <2>2, CallType
<1>3. CASE Close
  <2>1. stack # <<>> BY <1>3 DEF Close, Looking
  <2>2. err(Top.id, "cycle") \in Error BY <2>1, TopType, ErrType DEF Message, StackFrame
  <2> QED BY <1>3, <2>2 DEF Close, TypeOK
<1>4. CASE Pass
  <2>1. PICK y \in visited : Looking(y) /\ stack' = Past(y) BY <1>4 DEF Pass
  <2>2. stack' \in Seq(StackFrame) BY <2>1, PastFrames DEF Looking
  <2> QED BY <1>4, <2>2 DEF Pass, TypeOK, StackFrame
<1>5. CASE Return
  <2>1. stack' \in Seq(StackFrame) BY <1>5, TopType DEF Return
  <2> QED BY <1>5, <2>1 DEF Return, Discarded, TypeOK, StackFrame
<1>6. CASE Overflow BY <1>6 DEF Overflow, TypeOK
<1>7. CASE Finish
  <2>1. Orphans \cup BranchErrors \in SUBSET Error
    <3>1. graph.nodes \in SUBSET Node BY GraphAssumption DEF TypeOK
    <3>2. \A n \in graph.nodes, m \in Message : err(n.id, m) \in Error
      BY <3>1, ErrType DEF Node
    <3> QED BY <3>2 DEF Orphans, BranchErrors, Unbranched, Message
  <2> QED BY <1>7, <2>1 DEF Finish, TypeOK
<1>8. CASE UNCHANGED vars BY <1>8 DEF vars, TypeOK
<1> QED BY <1>1, <1>2, <1>3, <1>4, <1>5, <1>6, <1>7, <1>8 DEF Next

\* The search works on ids of the graph, for every graph.
THEOREM TypeCorrect == Spec => []TypeOK
BY TypeInit, TypeNext, PTL DEF Spec

----------------------------------------------------------------------------
(* The inductive invariant.                                                *)

Finished == visited \ in_stack

OnStack == {stack[i].id : i \in 1..Len(stack)}

\* The active calls are a path through different nodes, and a call has looked at
\* nothing but finished nodes and the call it is waiting for.
PathOK ==
  /\ in_stack = OnStack
  /\ in_stack \subseteq visited
  /\ \A i, j \in 1..Len(stack) : stack[i].id = stack[j].id => i = j
  /\ \A i \in 1..Len(stack) :
       i < Len(stack) => stack[i + 1].id \in Neighbours(stack[i].id)
  /\ \A i \in 1..Len(stack) :
       /\ stack[i].todo \subseteq Neighbours(stack[i].id)
       /\ \A y \in Neighbours(stack[i].id) \ stack[i].todo :
            y \in Finished \/ (i < Len(stack) /\ y = stack[i + 1].id)

\* A set of ids in which every one is a neighbour of another.
FedIn(ids) ==
  \E C \in SUBSET ids : C # {} /\ \A x \in C : \E y \in C : x \in Neighbours(y)

\* The finished nodes are closed under edges and without cycles.
FinishedOK ==
  /\ \A x \in Finished : Neighbours(x) \subseteq Finished
  /\ ~CycleIn(Finished)
  /\ ~FedIn(Finished)

Searched == PathOK /\ FinishedOK

\* A run that gets to an active call gets to the calls above it.
Closed(S) == \A y \in S : Neighbours(y) \subseteq S

Onward ==
  \A S \in SUBSET Id : \A i, j \in 1..Len(stack) :
    Closed(S) /\ i <= j /\ stack[i].id \in S => stack[j].id \in S

Inv ==
  /\ TypeOK
  /\ CycleReported \/ (Searched /\ Onward)
  /\ CycleReported => CycleIn(Id)
  /\ CulpritOnCycle
  /\ pc = "returned" => stack = <<>> /\ NodeIds \subseteq visited /\ Orphans \subseteq errors

\* A node whose neighbours are finished can be finished.
LEMMA FinishOne ==
  ASSUME FinishedOK, NEW x, x \notin Finished, Neighbours(x) \subseteq Finished
  PROVE  /\ \A y \in Finished \cup {x} : Neighbours(y) \subseteq Finished \cup {x}
         /\ ~CycleIn(Finished \cup {x})
         /\ ~FedIn(Finished \cup {x})
<1>1. \A y \in Finished \cup {x} : Neighbours(y) \subseteq Finished BY DEF FinishedOK
<1>2. ~CycleIn(Finished \cup {x})
  <2> SUFFICES ASSUME NEW C \in SUBSET (Finished \cup {x}), C # {},
                      \A y \in C : Neighbours(y) \cap C # {}
               PROVE  FALSE
    BY DEF CycleIn
  <2>1. C \ {x} \in SUBSET Finished OBVIOUS
  <2>2. \A y \in C : Neighbours(y) \cap (C \ {x}) # {} BY <1>1
  <2>3. C \ {x} # {} BY <2>2
  <2> QED BY <2>1, <2>2, <2>3 DEF FinishedOK, CycleIn
<1>3. ~FedIn(Finished \cup {x})
  <2> SUFFICES ASSUME NEW C \in SUBSET (Finished \cup {x}), C # {},
                      \A z \in C : \E y \in C : z \in Neighbours(y)
               PROVE  FALSE
    BY DEF FedIn
  <2>1. x \notin C BY <1>1
  <2>2. C \in SUBSET Finished BY <2>1
  <2> QED BY <2>2 DEF FinishedOK, FedIn
<1> QED BY <1>1, <1>2, <1>3

\* The neighbours and the nodes of the graph stay what they are.
LEMMA GraphKept ==
  ASSUME graph' = graph
  PROVE  /\ \A x : Neighbours(x)' = Neighbours(x)
         /\ NodeIds' = NodeIds
         /\ Orphans' = Orphans
BY DEF Neighbours, NodeIds, Orphans, HasIncoming

\* If no more is finished than before, nothing changes for the finished nodes.
LEMMA FinishedKept ==
  ASSUME FinishedOK, graph' = graph, Finished' = Finished PROVE FinishedOK'
BY GraphKept DEF FinishedOK, CycleIn, FedIn

\* The outer loop calls dfs for a node that was not visited.
LEMMA RootPath ==
  ASSUME TypeOK, Searched, Root PROVE Searched'
<1>1. PICK x \in NodeIds \ visited : stack = <<>> /\ Call(x, <<>>) BY DEF Root
<1>2. graph' = graph /\ stack' = <<Frame(x)>> BY <1>1 DEF Call
<1>3. Len(stack') = 1 /\ stack'[1].id = x /\ stack'[1].todo = Neighbours(x)
  BY <1>2 DEF Frame
<1>4. in_stack = {} BY <1>1 DEF Searched, PathOK, OnStack
<1>5. in_stack' = {x} /\ visited' = visited \cup {x} BY <1>1, <1>4 DEF Call
<1>6. Finished' = Finished BY <1>1, <1>4, <1>5 DEF Finished
<1>7. PathOK'
  <2>1. OnStack' = {x} BY <1>3 DEF OnStack
  <2> QED BY <1>2, <1>3, <1>5, <2>1, GraphKept DEF PathOK
<1> QED BY <1>2, <1>6, <1>7, FinishedKept DEF Searched

\* dfs calls itself for a neighbour that was not visited.
LEMMA DescendPath ==
  ASSUME TypeOK, Searched, Descend PROVE Searched'
<1>1. PICK y \in Id \ visited : Looking(y) /\ Call(y, Past(y)) BY DEF Descend
<1>2. stack # <<>> /\ y \in Top.todo BY <1>1 DEF Looking
<1> DEFINE n == Len(stack)
<1>3. n \in Nat \ {0} /\ Top = stack[n] BY <1>2, TopType
<1>4. graph' = graph /\ stack' = Append(Past(y), Frame(y)) BY <1>1 DEF Call
<1>5. Frame(y) \in StackFrame BY FrameType DEF TypeOK
<1>6. /\ Len(stack') = n + 1
      /\ \A i \in 1..n : stack'[i] = Past(y)[i]
      /\ stack'[n + 1] = Frame(y)
  BY <1>2, <1>3, <1>4, <1>5, PastFrames, AppendProperties
<1>7. /\ \A i \in 1..n : stack'[i].id = stack[i].id
      /\ \A i \in 1..n : i # n => stack'[i] = stack[i]
      /\ stack'[n].todo = Top.todo \ {y}
      /\ stack'[n + 1].id = y /\ stack'[n + 1].todo = Neighbours(y)
  BY <1>2, <1>3, <1>6, PastFrames DEF Frame
<1>8. in_stack' = in_stack \cup {y} /\ visited' = visited \cup {y} BY <1>1 DEF Call
<1>9. Finished' = Finished BY <1>1, <1>8 DEF Finished
<1>10. PathOK /\ y \notin in_stack BY <1>1 DEF Searched, PathOK
<1> HIDE DEF n
<1>11. OnStack' = OnStack \cup {y}
  <2>1. OnStack' = {stack'[i].id : i \in 1..(n + 1)} BY <1>6 DEF OnStack
  <2>2. OnStack = {stack[i].id : i \in 1..n} BY DEF OnStack, n
  <2> QED BY <2>1, <2>2, <1>3, <1>7
<1>12. \A i \in 1..n : stack[i].id # y BY <1>10 DEF PathOK, OnStack, n
<1>13. \A i, j \in 1..(n + 1) : stack'[i].id = stack'[j].id => i = j
  <2>1. \A i, j \in 1..n : stack[i].id = stack[j].id => i = j BY <1>10 DEF PathOK, n
  <2> QED BY <1>3, <1>7, <1>12, <2>1
<1>14. \A i \in 1..(n + 1) : i < n + 1 => stack'[i + 1].id \in Neighbours(stack'[i].id)
  <2> SUFFICES ASSUME NEW i \in 1..n PROVE stack'[i + 1].id \in Neighbours(stack'[i].id)
    BY <1>3
  <2>1. CASE i = n BY <2>1, <1>2, <1>3, <1>7, <1>10 DEF PathOK, n
  <2>2. CASE i < n
    <3>1. stack[i + 1].id \in Neighbours(stack[i].id) BY <2>2, <1>10 DEF PathOK, n
    <3>2. i + 1 \in 1..n BY <2>2, <1>3
    <3> QED BY <3>1, <3>2, <1>7
  <2> QED BY <2>1, <2>2, <1>3
<1>15. \A i \in 1..(n + 1) :
         /\ stack'[i].todo \subseteq Neighbours(stack'[i].id)
         /\ \A z \in Neighbours(stack'[i].id) \ stack'[i].todo :
              z \in Finished \/ (i < n + 1 /\ z = stack'[i + 1].id)
  <2> TAKE i \in 1..(n + 1)
  <2>1. CASE i = n + 1 BY <2>1, <1>7
  <2>2. CASE i = n
    <3>1. /\ Top.todo \subseteq Neighbours(stack[n].id)
          /\ \A z \in Neighbours(stack[n].id) \ Top.todo : z \in Finished
      BY <1>3, <1>10 DEF PathOK, n
    <3> QED BY <2>2, <3>1, <1>3, <1>7
  <2>3. CASE i < n
    <3>1. /\ stack[i].todo \subseteq Neighbours(stack[i].id)
          /\ \A z \in Neighbours(stack[i].id) \ stack[i].todo :
               z \in Finished \/ z = stack[i + 1].id
      BY <2>3, <1>10 DEF PathOK, n
    <3>2. i + 1 \in 1..n /\ i \in 1..n /\ i # n BY <2>3, <1>3
    <3> QED BY <3>1, <3>2, <1>3, <1>7
  <2> QED BY <2>1, <2>2, <2>3, <1>3
<1>16. PathOK'
  BY <1>4, <1>6, <1>8, <1>9, <1>10, <1>11, <1>13, <1>14, <1>15, GraphKept DEF PathOK
<1> QED BY <1>4, <1>9, <1>16, FinishedKept DEF Searched

\* A neighbour that is finished is passed over.
LEMMA PassPath ==
  ASSUME TypeOK, Searched, Pass PROVE Searched'
<1>1. PICK y \in visited : Looking(y) /\ y \notin in_stack /\ stack' = Past(y)
  BY DEF Pass, ClosedBy
<1>2. stack # <<>> /\ y \in Top.todo /\ y \in Finished BY <1>1 DEF Looking, Finished
<1>3. UNCHANGED <<graph, visited, in_stack>> BY DEF Pass
<1> DEFINE n == Len(stack)
<1>4. n \in Nat \ {0} /\ Top = stack[n] BY <1>2, TopType
<1>5. /\ Len(stack') = n
      /\ \A i \in 1..n : stack'[i].id = stack[i].id
      /\ \A i \in 1..n : i # n => stack'[i] = stack[i]
      /\ stack'[n].todo = Top.todo \ {y}
  BY <1>1, <1>2, PastFrames
<1>6. Finished' = Finished BY <1>3 DEF Finished
<1>7. PathOK BY DEF Searched
<1> HIDE DEF n
<1>8. OnStack' = OnStack
  <2>1. OnStack' = {stack'[i].id : i \in 1..n} BY <1>5 DEF OnStack
  <2>2. OnStack = {stack[i].id : i \in 1..n} BY DEF OnStack, n
  <2> QED BY <2>1, <2>2, <1>5
<1>9. \A i, j \in 1..n : stack'[i].id = stack'[j].id => i = j
  BY <1>5, <1>7 DEF PathOK, n
<1>10. \A i \in 1..n : i < n => stack'[i + 1].id = stack[i + 1].id BY <1>4, <1>5
<1>11. \A i \in 1..n : i < n => stack'[i + 1].id \in Neighbours(stack'[i].id)
  BY <1>5, <1>7, <1>10 DEF PathOK, n
<1>12. \A i \in 1..n :
         /\ stack'[i].todo \subseteq Neighbours(stack'[i].id)
         /\ \A z \in Neighbours(stack'[i].id) \ stack'[i].todo :
              z \in Finished \/ (i < n /\ z = stack'[i + 1].id)
  <2> TAKE i \in 1..n
  <2>1. /\ stack[i].todo \subseteq Neighbours(stack[i].id)
        /\ \A z \in Neighbours(stack[i].id) \ stack[i].todo :
             z \in Finished \/ (i < n /\ z = stack[i + 1].id)
    BY <1>7 DEF PathOK, n
  <2>2. CASE i = n BY <2>1, <2>2, <1>2, <1>4, <1>5
  <2>3. CASE i # n BY <2>1, <2>3, <1>5, <1>10
  <2> QED BY <2>2, <2>3
<1>13. PathOK'
  BY <1>3, <1>5, <1>6, <1>7, <1>8, <1>9, <1>11, <1>12, GraphKept DEF PathOK
<1> QED BY <1>3, <1>6, <1>13, FinishedKept DEF Searched

\* The top call returns, and its node is finished.
LEMMA ReturnPath ==
  ASSUME TypeOK, Searched, Return PROVE Searched'
<1>1. /\ stack # <<>> /\ Top.todo = {}
      /\ in_stack' = in_stack \ {Top.id} /\ stack' = Below
      /\ UNCHANGED <<graph, visited>>
  BY DEF Return, Discarded
<1> DEFINE n == Len(stack)
           x == Top.id
<1>2. n \in Nat \ {0} /\ Top = stack[n] BY <1>1, TopType
<1>3. Len(stack') = n - 1 /\ \A i \in 1..(n - 1) : stack'[i] = stack[i]
  BY <1>1, TopType
<1>4. PathOK BY DEF Searched
<1>5. x \in in_stack /\ x \in visited BY <1>2, <1>4 DEF PathOK, OnStack
<1>6. Neighbours(x) \subseteq Finished BY <1>1, <1>2, <1>4 DEF PathOK
<1> HIDE DEF n
<1>7. Finished' = Finished \cup {x} BY <1>1, <1>5 DEF Finished
<1>8. \A i \in 1..(n - 1) : stack[i].id # x BY <1>2, <1>4 DEF PathOK, n
<1>9. OnStack' = OnStack \ {x}
  <2>1. OnStack' = {stack[i].id : i \in 1..(n - 1)} BY <1>2, <1>3 DEF OnStack
  <2>2. OnStack = {stack[i].id : i \in 1..n} BY DEF OnStack, n
  <2>3. 1..n = 1..(n - 1) \cup {n} BY <1>2
  <2> QED BY <2>1, <2>2, <2>3, <1>2, <1>8
<1>10. \A i, j \in 1..(n - 1) : stack'[i].id = stack'[j].id => i = j
  BY <1>2, <1>3, <1>4 DEF PathOK, n
<1>11. \A i \in 1..(n - 1) : i < n - 1 => stack'[i + 1].id \in Neighbours(stack'[i].id)
  <2> SUFFICES ASSUME NEW i \in 1..(n - 1), i < n - 1
               PROVE  stack'[i + 1].id \in Neighbours(stack'[i].id)
    OBVIOUS
  <2>1. i \in 1..n /\ i < n /\ i + 1 \in 1..(n - 1) BY <1>2
  <2> QED BY <2>1, <1>3, <1>4 DEF PathOK, n
<1>12. \A i \in 1..(n - 1) :
         /\ stack'[i].todo \subseteq Neighbours(stack'[i].id)
         /\ \A z \in Neighbours(stack'[i].id) \ stack'[i].todo :
              z \in Finished \cup {x} \/ (i < n - 1 /\ z = stack'[i + 1].id)
  <2> TAKE i \in 1..(n - 1)
  <2>1. i \in 1..n /\ i < n BY <1>2
  <2>2. /\ stack[i].todo \subseteq Neighbours(stack[i].id)
        /\ \A z \in Neighbours(stack[i].id) \ stack[i].todo :
             z \in Finished \/ z = stack[i + 1].id
    BY <2>1, <1>4 DEF PathOK, n
  <2>3. CASE i = n - 1
    <3>1. stack[i + 1].id = x BY <2>3, <1>2
    <3> QED BY <2>2, <3>1, <1>3
  <2>4. CASE i < n - 1
    <3>1. stack'[i + 1] = stack[i + 1] BY <2>4, <1>2, <1>3
    <3> QED BY <2>2, <2>4, <3>1, <1>3
  <2> QED BY <2>3, <2>4, <1>2
<1>13. PathOK'
  <2>1. in_stack' = OnStack' BY <1>1, <1>4, <1>9 DEF PathOK
  <2>2. in_stack' \subseteq visited' BY <1>1, <1>4 DEF PathOK
  <2> QED BY <2>1, <2>2, <1>1, <1>3, <1>7, <1>10, <1>11, <1>12, GraphKept DEF PathOK
<1>14. FinishedOK'
  <2>1. x \notin Finished BY <1>5 DEF Finished
  <2>2. /\ \A y \in Finished' : Neighbours(y) \subseteq Finished'
        /\ ~CycleIn(Finished') /\ ~FedIn(Finished')
    BY <2>1, <1>6, <1>7, FinishOne DEF Searched
  <2> QED BY <2>2, <1>1, GraphKept DEF FinishedOK, CycleIn, FedIn
<1> QED BY <1>13, <1>14 DEF Searched

\* Calls added and dropped at the top leave a path onward.
LEMMA OnwardKept ==
  ASSUME TypeOK, Searched, Onward, Root \/ Descend \/ Pass \/ Return
  PROVE  Onward'
<1>1. graph' = graph BY DEF Root, Descend, Pass, Return, Call
<1>2. \A S : Closed(S)' <=> Closed(S) BY <1>1, GraphKept DEF Closed
<1> SUFFICES ASSUME NEW S \in SUBSET Id, NEW i \in 1..Len(stack'), NEW j \in 1..Len(stack'),
                    Closed(S), i <= j, stack'[i].id \in S
             PROVE  stack'[j].id \in S
  BY <1>2 DEF Onward
<1>3. CASE Root
  <2>1. Len(stack') = 1 BY <1>3 DEF Root, Call
  <2> QED BY <2>1
<1>4. CASE Descend
  <2>1. PICK y \in Id \ visited : Looking(y) /\ Call(y, Past(y)) BY <1>4 DEF Descend
  <2>2. stack # <<>> /\ y \in Top.todo BY <2>1 DEF Looking
  <2>3. Len(stack) \in Nat \ {0} /\ Top = stack[Len(stack)] BY <2>2, TopType
  <2>4. Frame(y) \in StackFrame BY FrameType DEF TypeOK
  <2>5. /\ Len(stack') = Len(stack) + 1
        /\ \A k \in 1..Len(stack) : stack'[k].id = stack[k].id
        /\ stack'[Len(stack) + 1].id = y
    BY <2>1, <2>2, <2>3, <2>4, PastFrames, AppendProperties DEF Call, Frame
  <2>6. y \in Neighbours(stack[Len(stack)].id) BY <2>2, <2>3 DEF Searched, PathOK
  <2>7. CASE j \in 1..Len(stack)
    <3>1. i \in 1..Len(stack) BY <2>3, <2>7
    <3> QED BY <2>5, <2>7, <3>1 DEF Onward
  <2>8. CASE j = Len(stack) + 1 /\ i \in 1..Len(stack)
    <3>1. stack[Len(stack)].id \in S BY <2>3, <2>5, <2>8 DEF Onward
    <3> QED BY <2>5, <2>6, <2>8, <3>1 DEF Closed
  <2>9. CASE i = Len(stack) + 1 BY <2>3, <2>5, <2>9
  <2> QED BY <2>3, <2>5, <2>7, <2>8, <2>9
<1>5. CASE Pass
  <2>1. PICK y \in visited : Looking(y) /\ stack' = Past(y) BY <1>5 DEF Pass
  <2>2. Len(stack') = Len(stack) /\ \A k \in 1..Len(stack) : stack'[k].id = stack[k].id
    BY <2>1, PastFrames DEF Looking
  <2> QED BY <2>2 DEF Onward
<1>6. CASE Return
  <2>1. /\ Len(stack) \in Nat \ {0}
        /\ Len(stack') = Len(stack) - 1
        /\ \A k \in 1..(Len(stack) - 1) : stack'[k] = stack[k]
    BY <1>6, TopType DEF Return
  <2>2. i \in 1..Len(stack) /\ j \in 1..Len(stack) BY <2>1
  <2> QED BY <2>1, <2>2 DEF Onward
<1> QED BY <1>3, <1>4, <1>5, <1>6

\* The call that finds a neighbour among the active calls closes a cycle.
LEMMA CloseCycle ==
  ASSUME TypeOK, Searched, Onward, Close
  PROVE  CycleIn(Id) /\ OnCycle(Top.id)
<1>1. PICK y \in visited : Looking(y) /\ y \in in_stack BY DEF Close, ClosedBy
<1>2. stack # <<>> /\ y \in Top.todo BY <1>1 DEF Looking
<1> DEFINE n == Len(stack)
<1>3. n \in Nat \ {0} /\ Top = stack[n] BY <1>2, TopType
<1>4. PathOK BY DEF Searched
<1>5. PICK k \in 1..n : stack[k].id = y BY <1>1, <1>4 DEF PathOK, OnStack
<1>6. y \in Neighbours(stack[n].id) BY <1>2, <1>3, <1>4 DEF PathOK
<1>7. \A i \in 1..n : stack[i].id \in Id
  <2> TAKE i \in 1..n
  <2>1. stack[i] \in StackFrame BY ElementOfSeq DEF TypeOK, StackFrame
  <2> QED BY <2>1 DEF StackFrame
<1>8. CycleIn(Id)
  <2> DEFINE C == {stack[i].id : i \in k..n}
  <2>1. k..n \subseteq 1..n /\ n \in k..n /\ k \in k..n BY <1>3
  <2>2. C \in SUBSET Id /\ C # {} BY <1>7, <2>1
  <2>3. ASSUME NEW x \in C PROVE Neighbours(x) \cap C # {}
    <3>1. PICK i \in k..n : x = stack[i].id OBVIOUS
    <3>2. CASE i = n BY <3>1, <3>2, <1>5, <1>6, <2>1
    <3>3. CASE i < n
      <4>1. i + 1 \in k..n BY <3>3, <1>3
      <4>2. stack[i + 1].id \in Neighbours(stack[i].id) BY <3>3, <2>1, <1>4 DEF PathOK
      <4> QED BY <3>1, <4>1, <4>2
    <3> QED BY <3>2, <3>3, <1>3
  <2> QED BY <2>2, <2>3 DEF CycleIn
<1>9. OnCycle(Top.id)
  <2> SUFFICES ASSUME NEW S \in SUBSET Id, Neighbours(Top.id) \subseteq S, Closed(S)
               PROVE  Top.id \in S
    BY DEF OnCycle, Closed
  <2>1. stack[k].id \in S BY <1>3, <1>5, <1>6
  <2> QED BY <2>1, <1>3 DEF Onward
<1> QED BY <1>8, <1>9

\* What is known of a cycle does not depend on the search.
LEMMA CycleKept ==
  ASSUME graph' = graph
  PROVE  /\ \A ids : CycleIn(ids)' <=> CycleIn(ids)
         /\ \A x : OnCycle(x)' <=> OnCycle(x)
BY GraphKept DEF CycleIn, OnCycle

\* The invariant holds before the search.
LEMMA InvInit == Init => Inv
<1> SUFFICES ASSUME Init PROVE Inv OBVIOUS
<1>1. TypeOK BY TypeInit
<1>2. ~CycleReported
  <2>1. \A e \in TypeErrors(graph) : \E x, m : e = err(x, m) /\ m # "cycle"
    <3>1. "unknown type" # "cycle" /\ "no trigger" # "cycle" /\ "empty" # "cycle" OBVIOUS
    <3> QED BY <3>1, Zenon DEF TypeErrors
  <2> QED BY <2>1, ErrFields DEF Init, CycleReported
<1>3. Len(stack) = 0 BY DEF Init
<1>4. PathOK BY <1>3 DEF Init, PathOK, OnStack
<1>5. FinishedOK BY DEF Init, FinishedOK, Finished, CycleIn, FedIn
<1>6. Onward BY <1>3 DEF Onward
<1> QED BY <1>1, <1>2, <1>4, <1>5, <1>6 DEF Inv, Searched, CulpritOnCycle, CycleReported, Init

\* Every step of the search keeps the invariant.
LEMMA InvNext == Inv /\ [Next]_vars => Inv'
<1> SUFFICES ASSUME Inv, [Next]_vars PROVE Inv' OBVIOUS
<1>1. TypeOK /\ TypeOK' BY TypeNext DEF Inv
<1>2. graph' = graph
  BY DEF Next, Root, Descend, Close, Pass, Return, Overflow, Finish, Call, vars
<1>3. CASE Root \/ Descend \/ Pass \/ Return
  <2>1. errors' = errors /\ pc' = pc /\ pc = "searching"
    BY <1>3 DEF Root, Descend, Pass, Return, Call, Looking
  <2>2. CycleReported' <=> CycleReported BY <2>1 DEF CycleReported
  <2>3. CulpritOnCycle' BY <1>2, <2>1, CycleKept DEF Inv, CulpritOnCycle
  <2>4. CycleReported' => CycleIn(Id)' BY <1>2, <2>2, CycleKept DEF Inv
  <2>5. ~CycleReported => Searched' /\ Onward'
    BY <1>1, <1>3, RootPath, DescendPath, PassPath, ReturnPath, OnwardKept DEF Inv
  <2> QED BY <1>1, <2>1, <2>2, <2>3, <2>4, <2>5 DEF Inv
<1>4. CASE Close
  <2>1. pc' = "searching" BY <1>4 DEF Close, Looking
  <2>2. CASE CycleReported
    <3>1. errors' = errors BY <1>4, <2>2 DEF Close
    <3>2. CulpritOnCycle' BY <1>2, <3>1, CycleKept DEF Inv, CulpritOnCycle
    <3>3. CycleReported' /\ CycleIn(Id)'
      BY <1>2, <2>2, <3>1, CycleKept DEF Inv, CycleReported
    <3> QED BY <1>1, <2>1, <3>2, <3>3 DEF Inv
  <2>3. CASE ~CycleReported
    <3>1. errors' = errors \cup {err(Top.id, "cycle")} BY <1>4, <2>3 DEF Close
    <3>2. CycleIn(Id) /\ OnCycle(Top.id) BY <1>1, <1>4, <2>3, CloseCycle DEF Inv
    <3>3. CycleIn(Id)' /\ CycleReported'
      BY <1>2, <3>1, <3>2, CycleKept, ErrFields DEF CycleReported
    <3>4. CulpritOnCycle'
      BY <1>2, <3>1, <3>2, CycleKept, ErrFields DEF Inv, CulpritOnCycle
    <3> QED BY <1>1, <2>1, <3>3, <3>4 DEF Inv
  <2> QED BY <2>2, <2>3
<1>5. CASE Overflow \/ Finish \/ UNCHANGED vars
  <2>1. UNCHANGED <<stack, visited, in_stack>> BY <1>5 DEF Overflow, Finish, vars
  <2>2. Searched => Searched'
    <3>1. Finished' = Finished /\ OnStack' = OnStack BY <2>1 DEF Finished, OnStack
    <3>2. PathOK => PathOK' BY <1>2, <2>1, <3>1, GraphKept DEF PathOK
    <3> QED BY <1>2, <3>1, <3>2, FinishedKept DEF Searched
  <2>3. Onward => Onward' BY <1>2, <2>1, GraphKept DEF Onward, Closed
  <2>4. \A e : e.message = "cycle" => (e \in errors' <=> e \in errors)
    <3>1. \A e \in Orphans \cup BranchErrors : e.message # "cycle"
      <4>1. \A e \in Orphans \cup BranchErrors : \E x, m : e = err(x, m) /\ m # "cycle"
        <5>1. "orphan" # "cycle" /\ "no true branch" # "cycle" /\ "no false branch" # "cycle"
          OBVIOUS
        <5> QED BY <5>1, Zenon DEF Orphans, BranchErrors, Unbranched
      <4> QED BY <4>1, ErrFields
    <3> QED BY <1>5, <3>1 DEF Overflow, Finish, vars
  <2>5. CycleReported' <=> CycleReported BY <2>4 DEF CycleReported
  <2>6. CulpritOnCycle' BY <1>2, <2>4, CycleKept DEF Inv, CulpritOnCycle
  <2>7. CycleReported' => CycleIn(Id)' BY <1>2, <2>5, CycleKept DEF Inv
  <2>8. pc' = "returned" =>
          stack' = <<>> /\ NodeIds' \subseteq visited' /\ Orphans' \subseteq errors'
    BY <1>2, <1>5, <2>1, GraphKept DEF Inv, Overflow, Finish, vars
  <2> QED BY <1>1, <2>2, <2>3, <2>5, <2>6, <2>7, <2>8 DEF Inv
<1> QED BY <1>3, <1>4, <1>5 DEF Next

\* The invariant holds throughout.
LEMMA InvAlways == Spec => []Inv
BY InvInit, InvNext, PTL DEF Spec

----------------------------------------------------------------------------
(* The results.                                                            *)

\* Every node of the graph is finished when the search ends without a cycle.
LEMMA AllFinished ==
  ASSUME Inv, pc = "returned", ~CycleReported
  PROVE  NodeIds \subseteq Finished /\ FinishedOK
BY DEF Inv, Searched, PathOK, OnStack, Finished

\* Whatever the graph, and in whatever order its nodes and edges come, a cycle
\* is reported exactly when there is one.
THEOREM CycleVerdictHolds == Spec => []CycleVerdict
<1>1. Inv => CycleVerdict
  <2> SUFFICES ASSUME Inv, pc = "returned"
               PROVE  /\ CycleIn(NodeIds) => CycleReported
                      /\ CycleReported => CycleIn(Id)
    BY DEF CycleVerdict
  <2>1. ~CycleReported => ~CycleIn(NodeIds) BY AllFinished DEF FinishedOK, CycleIn
  <2> QED BY <2>1 DEF Inv
<1> QED BY <1>1, InvAlways, PTL

\* The node that is named in the report lies on a cycle.
THEOREM CulpritOnCycleHolds == Spec => []CulpritOnCycle
<1>1. Inv => CulpritOnCycle BY DEF Inv
<1> QED BY <1>1, InvAlways, PTL

\* In an accepted graph whose edges join its nodes a run that starts from the
\* triggers gets to every node: the nodes that it does not get to would all be
\* fed by one another, and an acyclic graph has no such nodes.
THEOREM AcceptedIsRunnableHolds == Spec => []AcceptedIsRunnable
<1>1. Inv => AcceptedIsRunnable
  <2> SUFFICES ASSUME Inv, pc = "returned", errors = {}, EdgesJoinNodes,
                      NEW S \in SUBSET Id, TriggerIds \subseteq S, Closed(S)
               PROVE  NodeIds \subseteq S
    BY DEF AcceptedIsRunnable, Runnable, Closed
  <2>1. ~CycleReported BY DEF CycleReported
  <2>2. NodeIds \subseteq Finished /\ FinishedOK BY <2>1, AllFinished
  <2>3. Orphans = {} BY DEF Inv
  <2> DEFINE C == NodeIds \ S
  <2>4. ASSUME NEW x \in C PROVE \E y \in C : x \in Neighbours(y)
    <3>1. PICK m \in graph.nodes : m.id = x BY DEF NodeIds
    <3>2. m.type \notin Trigger BY <3>1 DEF TriggerIds
    <3>3. HasIncoming(x) BY <2>3, <3>1, <3>2 DEF Orphans
    <3>4. PICK e \in graph.edges : e.target = x BY <3>3 DEF HasIncoming
    <3>5. e.source \in NodeIds /\ x \in Neighbours(e.source)
      BY <3>4 DEF EdgesJoinNodes, Neighbours
    <3>6. e.source \notin S BY <3>5 DEF Closed
    <3> QED BY <3>5, <3>6
  <2>5. C \in SUBSET Finished BY <2>2
  <2>6. C = {} BY <2>2, <2>4, <2>5 DEF FinishedOK, FedIn
  <2> QED BY <2>6
<1> QED BY <1>1, InvAlways, PTL
=============================================================================
