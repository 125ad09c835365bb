--------------------------- MODULE MCPendingQueue ---------------------------
(* Small instances of PendingQueue for TLC.                                  *)
EXTENDS PendingQueue

=============================================================================
