--------------------------- MODULE MCSocketServer ---------------------------
EXTENDS SocketServer
CONSTANTS c1, c2, c3
ThreeClients == {c1, c2, c3}
=============================================================================
