--------------------------- MODULE RuntimeSession ---------------------------
(***************************************************************************)
(* What the vendor runtime lets one program do with one context: the       *)
(* order of the calls of include/rknn_api.h.  A context is created from a  *)
(* model, fed, run, asked for its output, told to release the output       *)
(* (rknn_api.h:622-626), and destroyed when nothing of it is held any      *)
(* more.  The runtime is a library whose source is not in this             *)
(* repository, so every action here is the call as the programs under      *)
(* src/ops_rknn use it.                                                    *)
(***************************************************************************)
EXTENDS Naturals

VARIABLES
    ctx,    \* whether the program has a live context
    fed,    \* whether the inputs of the next run are set
    ran,    \* whether the context has run on them
    held,   \* whether an output of rknn_outputs_get is not released
    mems    \* tensor memories created and not destroyed

session == <<ctx, fed, ran, held, mems>>

SessionInit ==
    /\ ctx = FALSE
    /\ fed = FALSE
    /\ ran = FALSE
    /\ held = FALSE
    /\ mems = 0

Create ==
    /\ ~ctx
    /\ ctx' = TRUE
    /\ UNCHANGED <<fed, ran, held, mems>>

Feed ==
    /\ ctx
    /\ fed' = TRUE
    /\ ran' = FALSE
    /\ UNCHANGED <<ctx, held, mems>>

Run ==
    /\ ctx /\ fed
    /\ ran' = TRUE
    /\ UNCHANGED <<ctx, fed, held, mems>>

GetOutput ==
    /\ ctx /\ ran /\ ~held
    /\ held' = TRUE
    /\ UNCHANGED <<ctx, fed, ran, mems>>

ReleaseOutput ==
    /\ ctx /\ held
    /\ held' = FALSE
    /\ UNCHANGED <<ctx, fed, ran, mems>>

CreateMem ==
    /\ ctx
    /\ mems' = mems + 1
    /\ UNCHANGED <<ctx, fed, ran, held>>

DestroyMem ==
    /\ ctx /\ mems > 0
    /\ mems' = mems - 1
    /\ UNCHANGED <<ctx, fed, ran, held>>

Destroy ==
    /\ ctx /\ ~held /\ mems = 0
    /\ ctx' = FALSE
    /\ fed' = FALSE
    /\ ran' = FALSE
    /\ UNCHANGED <<held, mems>>

SessionNext ==
    \/ Create \/ Feed \/ Run \/ GetOutput \/ ReleaseOutput
    \/ CreateMem \/ DestroyMem \/ Destroy

SessionSpec == SessionInit /\ [][SessionNext]_session
=============================================================================
