--------------------------- MODULE VersionHistory ---------------------------
(***************************************************************************)
(* What publishing promises: a workflow has a history of valid             *)
(* definitions that only ever grows at its end, for as long as the         *)
(* workflow exists; a deleted workflow never comes back.  Whether its      *)
(* history outlives it, as a soft delete would have it, is left open.      *)
(***************************************************************************)
EXTENDS Naturals, Sequences

CONSTANTS
  Workflow,  \* workflows
  Valid      \* definitions that may be published

VARIABLES
  life,    \* unborn, alive or deleted
  history  \* the published definitions, oldest first

story == <<life, history>>

Init ==
  /\ life = [w \in Workflow |-> "unborn"]
  /\ history = [w \in Workflow |-> <<>>]

\* A workflow is created with an empty history.
Begin(w) ==
  /\ life[w] = "unborn"
  /\ life' = [life EXCEPT ![w] = "alive"]
  /\ UNCHANGED history

\* Publishing and reverting both append.
Extend(w) == \E d \in Valid :
  /\ life[w] = "alive"
  /\ history' = [history EXCEPT ![w] = Append(@, d)]
  /\ UNCHANGED life

\* The history is kept for the audit trail, or goes with its workflow; never a
\* part of it.
Delete(w) == \E kept \in {history[w], <<>>} :
  /\ life[w] = "alive"
  /\ life' = [life EXCEPT ![w] = "deleted"]
  /\ history' = [history EXCEPT ![w] = kept]

Next == \E w \in Workflow : Begin(w) \/ Extend(w) \/ Delete(w)

Spec == Init /\ [][Next]_story
=============================================================================
