-------------------------- MODULE MCInterestRouting --------------------------
(* Small instances of InterestRouting for TLC.                               *)
EXTENDS InterestRouting, TLC

\* A capability is related to itself only.
MCRelated == {<<c, c>> : c \in Cap}

Symmetry == Permutations(Addr) \cup Permutations(Cap)
=============================================================================
