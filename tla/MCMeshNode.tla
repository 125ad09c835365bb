----------------------------- MODULE MCMeshNode -----------------------------
(* Small instances of MeshNode for TLC: a node that is configured with       *)
(* another one, and both may discover each other.                            *)
EXTENDS MeshNode, TLC

CONSTANTS n1, n2, lan

MCHello == [type : {"HELLO"}, caps : SUBSET Cap, interests : SUBSET Cap]
MCAck == [type : {"HELLO_ACK"}, caps : SUBSET Cap, interests : SUBSET Cap,
          known_peers : SUBSET (Node \X (Address \cup Conn))]
MCApp == [type : {"INTEREST_UPDATE"}, interests : SUBSET Cap]

\* n1 is configured with n2.
OneConfigured == [n \in Node |-> IF n = n1 THEN {<<n2, lan>>} ELSE {}]
OneOffers == [n \in Node |-> IF n = n2 THEN Cap ELSE {}]
OneAllowed == [n \in Node |-> IF n = n2 THEN {n1} ELSE {}]
NobodyAllowed == [n \in Node |-> {}]

ConnSymmetry == Permutations(Conn)
=============================================================================
