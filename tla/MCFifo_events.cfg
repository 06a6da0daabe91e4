CONSTANTS
  Zero = "zero"
  max = 3
  Elems = {"a", "b"}
  Contexts = {"main", "timer", "can"}
  Producers = {"main", "timer", "can"}
  Consumers = {"main"}
  Prio <- MCPrio
  Groups <- MCSingles
SPECIFICATION Spec
INVARIANT WithinCapacity
