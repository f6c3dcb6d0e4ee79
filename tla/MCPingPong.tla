----------------------------- MODULE MCPingPong -----------------------------
(* Model-checking instance of PingPong: the two example processes, the one *)
(* name they share, and a game of two rounds.                               *)
EXTENDS PingPong

CONSTANTS pingM, pongM, pongN

MCManagers == {pingM, pongM}
MCNames    == {pongN}
=============================================================================
