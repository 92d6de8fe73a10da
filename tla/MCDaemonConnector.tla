------------------------- MODULE MCDaemonConnector -------------------------
(* DaemonConnector with two callers.                                       *)
EXTENDS DaemonConnector

CONSTANTS c1, c2

MCClients == {c1, c2}
=============================================================================
