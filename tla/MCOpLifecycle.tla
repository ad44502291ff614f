--------------------------- MODULE MCOpLifecycle ---------------------------
(* Instances of OpLifecycle for TLC.                                       *)
EXTENDS OpLifecycle, TLC

(* Every op function; those with equal records coincide.                   *)
AllOps ==
  {Float16AluOp, Float16Conv2d, Float16Matmul, Float16MatmulPrepacked,
   Float16Conv, Float16AluOpPadded, Int16AluOp, Int8AluOp, MinmaxBinRegcheck}

(* The ops whose cleared output cannot still be dirty when the NPU runs.   *)
CleanOutputOps ==
  {Float16AluOp, Float16Conv2d, Float16AluOpPadded, Int16AluOp, Int8AluOp,
   MinmaxBinRegcheck}

(* The ops that clear the output and submit without a sync of it.          *)
DirtyOutputOps == {Float16Matmul, Float16MatmulPrepacked, Float16Conv}

Symmetry == Permutations(Obj)
=============================================================================
