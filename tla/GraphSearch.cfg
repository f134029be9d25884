SPECIFICATION Spec
CONSTANTS
  n1 = n1
  n2 = n2
  n3 = n3
  MaxNodes = 3
  MaxEdges = 3
  Id <- Ids
  Type = {"trigger.manual", "action.condition", "action.http", "action.retired"}
  Registry = {"trigger.manual", "action.condition", "action.http"}
  Trigger = {"trigger.manual"}
  Condition = "action.condition"
  Handle = {"true", "false"}
  Graph <- SmallGraphs
  SafeDepth = 2
INVARIANTS TypeOK CycleVerdict AcceptedIsRunnable CulpritOnCycle
PROPERTIES Terminates
CHECK_DEADLOCK FALSE
