------------------------ MODULE MCAgentDefinitionStore ------------------------
(***************************************************************************)
(* Small instances of AgentDefinitionStore.                                *)
(***************************************************************************)
EXTENDS AgentDefinitionStore, TLC

CONSTANTS a1, r1, plain, twoLines
=============================================================================
