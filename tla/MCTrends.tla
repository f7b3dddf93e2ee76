------------------------------ MODULE MCTrends ------------------------------
(* The comparisons of MCNetDiff, and pages over histories of two people, one  *)
(* standing for ten and one for herself, with two days next to one another and  *)
(* a third far from both.                                                     *)
EXTENDS Trends, MCNetDiff

CONSTANT u2

SomeWeights == [u \in {u1, u2} |-> IF u = u1 THEN 10 ELSE 1]

SomeHistories ==
  [takenAt : {1, 2, 300}, uploadedAt : {2},
   lists : { [k \in {"followers"} |-> List({u1, u2})],
             [k \in {"followers", "following"} |->
                List(IF k = "followers" THEN {u1} ELSE {u1, u2})],
             [k \in {"followers", "following"} |->
                List(IF k = "followers" THEN {u2} ELSE {})] }]
=============================================================================
