-------------------------- MODULE MCAiWorkflowMixed --------------------------
(* One instance of AiWorkflowWorlds: both worlds of AiWorkflow in one run. *)
EXTENDS AiWorkflowWorlds, MCAiWorkflow

=============================================================================
