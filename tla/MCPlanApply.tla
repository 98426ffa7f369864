----------------------------- MODULE MCPlanApply -----------------------------
(***************************************************************************)
(* A small plan with the shape of a deployment: one operation and then two *)
(* in parallel; the start of a process and a wait; a last operation.       *)
(***************************************************************************)
EXTENDS PlanApply

Sequential == [parallel |-> FALSE, oneShot |-> FALSE]
Parallel   == [parallel |-> TRUE, oneShot |-> FALSE]
Start      == [parallel |-> FALSE, oneShot |-> TRUE]

DeployPlan == << <<Sequential, Parallel, Parallel>>,
                 <<Start, Sequential>>,
                 <<Sequential>> >>
=============================================================================
