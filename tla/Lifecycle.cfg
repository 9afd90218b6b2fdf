SPECIFICATION Spec
CONSTANTS
  Callers = {c1, c2}
  Calls = {"line", "raw", "set", "flush"}
  Owner = Owner
  Thread = Thread
  Null = Null
  MaxInits = 3
  MaxCalls = 2
SYMMETRY CallerSymmetry
CHECK_DEADLOCK FALSE
INVARIANTS
  UsesLive
  ReadyWhenOk
  NothingElseLeaks
