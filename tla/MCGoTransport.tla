--------------------------- MODULE MCGoTransport -----------------------------
(* Small instances of GoTransport for TLC: dials to one address, and one     *)
(* connection that is accepted.                                              *)
EXTENDS GoTransport

CONSTANTS k1, k2, o1, o2, i1

Keys == [c \in Conn |-> IF c \in Dialled THEN k1 ELSE k2]
=============================================================================
