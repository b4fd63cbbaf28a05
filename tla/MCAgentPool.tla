----------------------------- MODULE MCAgentPool -----------------------------
(***************************************************************************)
(* The instance of AgentPool for TLC; MCAgentPool.cfg names its values.    *)
(***************************************************************************)
EXTENDS AgentPool
=============================================================================
