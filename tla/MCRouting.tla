------------------------------ MODULE MCRouting ------------------------------
(* Routing with a router and a sub-router, a plain handler, three with open  *)
(* hooks, close hooks and both, and the patterns "/a" and "/b/**".           *)
EXTENDS Routing, TLC

CONSTANTS a, b, f1, o1, c1, h1, x, y

MCPatterns == {<<a>>, <<b, Rest>>}
MCSegments == {a, b}

(* each handler alone; several hooks at once, and hooks before and behind a  *)
(* router that PublicBind panics at                                          *)
MCLists == {<<h>> : h \in {f1, o1, c1, h1, 2}} \cup
           {<<o1, h1>>, <<c1, 2>>, <<h1, h1>>, <<h1, 2, o1>>}

MetaSymmetry == Permutations({x, y})
=============================================================================
