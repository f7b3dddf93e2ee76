------------------------------ MODULE MCNetDiff ------------------------------
(* One person and two lists: she follows, and whether she is followed need    *)
(* not be known.  With two dates an execution lands before, between or after  *)
(* those there are, or moves from one place to another.                       *)
EXTENDS NetDiff

CONSTANT u1

List(S) == [u \in S |-> NoStamp]

SomeLists ==
  {[k \in {"followers"} |-> List({u1})]}
  \cup {[k \in {"followers", "following"} |-> List(IF k = "followers" THEN {u1} ELSE F)] :
              F \in {{}, {u1}}}

SomeExecutions == [takenAt : {1, 2}, uploadedAt : {2}, lists : SomeLists]
=============================================================================
