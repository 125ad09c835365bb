--------------------------- MODULE MCTaskExchange ---------------------------
(* Small instances of TaskExchange for TLC.                                  *)
EXTENDS TaskExchange, TLC

CONSTANTS n1, n2, hub

\* n1 and n2 are connected with the hub only.
Star == {<<n1, hub>>, <<hub, n1>>, <<n2, hub>>, <<hub, n2>>}

\* A call over the relay one way; the other way one for whoever offers the capability.
BothWays == {<<n1, n2>>, <<n2, None>>}
=============================================================================
