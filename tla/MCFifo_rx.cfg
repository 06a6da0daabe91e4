CONSTANTS
  Zero = "zero"
  max = 3
  Elems = {"a", "b"}
  Contexts = {"main", "can"}
  Producers = {"can"}
  Consumers = {"main"}
  Prio <- MCPrio
  Groups <- MCGroups
SPECIFICATION Spec
INVARIANTS RingConsistent TestsStayValid
PROPERTY ImplementsQueue

