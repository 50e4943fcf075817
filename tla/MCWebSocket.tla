---------------------------- MODULE MCWebSocket ----------------------------
EXTENDS WebSocket, TLC

CONSTANTS alice, c1, c2, c3

\* A player who reconnects, and a connection that names nobody.
Again == (c1 :> alice) @@ (c2 :> alice) @@ (c3 :> Anonymous)

Frames == (c1 :> 2) @@ (c2 :> 1) @@ (c3 :> 1)
=============================================================================
