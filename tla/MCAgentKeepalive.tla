-------------------------- MODULE MCAgentKeepalive --------------------------
(* Two managements and the agent of one client.                            *)
EXTENDS AgentKeepalive

CONSTANTS m1, m2
=============================================================================
