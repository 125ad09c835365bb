---------------------------- MODULE MCQueryFlood ----------------------------
(* Small instances of QueryFlood for TLC: a triangle with a leaf.            *)
EXTENDS QueryFlood

CONSTANTS a, b, c, d

Both(pairs) == pairs \cup {<<p[2], p[1]>> : p \in pairs}
TriangleAndLeaf == Both({<<a, b>>, <<b, c>>, <<c, a>>, <<c, d>>})
SomeEnds == {<<c, d>>}
=============================================================================
