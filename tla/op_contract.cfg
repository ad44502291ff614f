\* The ops that keep their output clean. A sync may fail for its size, not
\* for every size; a destroy does not fail.
SPECIFICATION Spec
CONSTANTS
  Obj = {o1, o2, o3, o4}
  None = None
  Faults = {"open", "create", "map", "syncSize", "submit", "malloc"}
  Ops <- CleanOutputOps
INVARIANTS
  AnswerIsResult
  ReleasedBeforeClose
PROPERTIES
  ImplementsContract
