--------------------------- MODULE MCAgentSession ---------------------------
(***************************************************************************)
(* Instances of AgentSession for TLC.  Two goroutines that share a session *)
(* take its turns; a buffer of one event is full after the handshake.      *)
(***************************************************************************)
EXTENDS AgentSession

CONSTANTS s1, s2

MCSenders == {s1, s2}
MCNobody == {}
MCOne == {s1}
=============================================================================
