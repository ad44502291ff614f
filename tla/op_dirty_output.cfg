\* float16_matmul and float16_conv clear their cacheable output and submit without a sync of it.
SPECIFICATION Spec
CONSTANTS
  Obj = {o1, o2, o3, o4}
  None = None
  Faults = {}
  Ops <- DirtyOutputOps
SYMMETRY Symmetry
INVARIANTS
  AnswerIsResult
