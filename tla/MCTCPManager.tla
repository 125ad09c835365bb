---------------------------- MODULE MCTCPManager ----------------------------
(* Small instances of TCPManager for TLC.                                    *)
EXTENDS TCPManager, TLC

MCHello == {[type |-> "HELLO"]}
MCAck == {[type |-> "HELLO_ACK"]}
MCApp == {[type |-> "TASK"]}

Symmetry == Permutations(Node) \cup Permutations(Conn)
=============================================================================
