---------------------------- MODULE MCDepartures ----------------------------
(* Three people, two follow timestamps and their absence.                    *)
EXTENDS Departures

CONSTANTS u1, u2, u3

AllFollowerLists == UNION {[S -> {NoStamp, 1, 2}] : S \in SUBSET {u1, u2, u3}}

Plain(S) == [u \in S |-> NoStamp]

SomeOtherLists ==
  {[k \in {} |-> {}]}
  \cup {[k \in {"following"} |-> Plain(S)] : S \in {{}, {u1}}}
  \cup {[k \in {"blocked"} |-> Plain(S)] : S \in {{u2}}}
  \cup {[k \in {"following", "blocked"} |-> IF k = "blocked" THEN Plain({u1}) ELSE Plain({u1, u2})]}
=============================================================================
