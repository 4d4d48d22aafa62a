----------------------------- MODULE MCPolicies -----------------------------
(***************************************************************************)
(* The tasks of MCTaskManager under the schedulers of Policies.            *)
(***************************************************************************)
EXTENDS Policies, MCTaskManager
=============================================================================
