------------------------------ MODULE MCApprox ------------------------------
(* Four edges in a path or three that all meet, or none, on two machines    *)
(* with two threads each.                                                   *)
EXTENDS ApproxMaster

WithEdges(ps) == ps \union {{e} : e \in UNION ps}
AB == {"a", "b"}  BC == {"b", "c"}  CD == {"c", "d"}  AC == {"a", "c"}
Path == WithEdges({AB, BC, CD, AB \union BC, BC \union CD, {"a", "b", "c", "d"}})
Meet == WithEdges({AB, AC, BC, AB \union AC})
AllFamilies == {Path, Meet, {}}
HardOnes == {BC \union CD}
\* The path as a whole comes back, and one of its parts when the other is found.
Repeating == {<<{"a", "b", "c", "d"}, {"a", "b", "c", "d"}>>, <<AB \union BC, BC \union CD>>}
=============================================================================
