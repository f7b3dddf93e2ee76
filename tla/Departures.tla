----------------------------- MODULE Departures -----------------------------
(***************************************************************************)
(* recomputeListsBetween and classifyDepartures, statement by statement,   *)
(* for one pair of neighbouring executions.  The statements run inside one *)
(* transaction, so their order shows only in what they leave behind: each  *)
(* UPDATE claims the departures an earlier one has left without a reason.  *)
(* Executions!ChangesBetween says what all of them together amount to.     *)
(***************************************************************************)
EXTENDS Executions

CONSTANTS
  Users,
  FollowerLists,   \* follower lists that may be recorded: members to stamps
  OtherLists       \* recorded lists without the followers: kinds to members

\* Everything an execution may have recorded.
WithFollowers(f, other) ==
  [k \in {"followers"} \cup DOMAIN other |-> IF k = "followers" THEN f ELSE other[k]]

Recorded == {WithFollowers(f, other) : f \in FollowerLists, other \in OtherLists}

ASSUME UsersAssumption == Nobody \notin Users
ASSUME ListsAssumption ==
  \A f \in FollowerLists : IsFiniteSet(DOMAIN f) /\ DOMAIN f \subseteq Users

VARIABLES
  prev, curr,   \* the lists of the two executions
  rows,         \* the rows of table changes for the pair
  next          \* the statement to run next

vars == <<prev, curr, rows, next>>

PrevId == 1
CurId  == 2

Init ==
  /\ prev \in Recorded
  /\ curr \in Recorded
  /\ rows = {}
  /\ next = "record"

Row(kind, type, u) ==
  [upload |-> CurId, prev |-> PrevId, list |-> kind, user |-> u, type |-> type,
   reason |-> NoReason, renamedTo |-> Nobody, renamedFrom |-> Nobody]

\* recordChanges, for every list both executions carried, both ways round.
RecordChanges ==
  /\ next = "record"
  /\ rows' = UNION {{Row(k, "followed", u) : u \in Arrived(prev, curr, k)} \cup
                    {Row(k, "unfollowed", u) : u \in Departed(prev, curr, k)}
                      : k \in Shared(prev, curr)}
  /\ next' = "renames"
  /\ UNCHANGED <<prev, curr>>

Departure(r) == r.list = "followers" /\ r.type = "unfollowed"
Arrival(r)   == r.list = "followers" /\ r.type = "followed"

\* The common table expressions of classifyRenames: a row and its timestamp.
Gone == {<<r.user, prev["followers"][r.user]>> :
           r \in {d \in rows : Departure(d) /\ prev["followers"][d.user] # NoStamp}}
Came == {<<r.user, curr["followers"][r.user]>> :
           r \in {a \in rows : Arrival(a) /\ curr["followers"][a.user] # NoStamp}}

\* How many of S carry the timestamp t.
Bearing(S, t) == Cardinality({s \in S : s[2] = t})

\* Mutant: neither side of a pair need be the only one with its timestamp.
Pairs_Ambiguous == {p \in Gone \X Came : p[1][2] = p[2][2]}

Pairs == {p \in Gone \X Came :
            /\ p[1][2] = p[2][2]
            /\ Bearing(Gone, p[1][2]) = 1
            /\ Bearing(Came, p[1][2]) = 1}

ClassifyRenames ==
  LET to(u)   == {p[2][1] : p \in {q \in Pairs : q[1][1] = u}}
      from(u) == {p[1][1] : p \in {q \in Pairs : q[2][1] = u}}
  IN  /\ next = "renames"
      /\ rows' = {IF Departure(r) /\ to(r.user) # {}
                    THEN [r EXCEPT !.reason = "renamed", !.renamedTo = OneOrNobody(to(r.user))]
                  ELSE IF Arrival(r) /\ from(r.user) # {}
                    THEN [r EXCEPT !.renamedFrom = OneOrNobody(from(r.user))]
                  ELSE r : r \in rows}
      /\ next' = "blocked"
      /\ UNCHANGED <<prev, curr>>

\* Mutant: the condition that departure_reason is NULL is missing.
Classify_Overwrites(reason, who) ==
  rows' = {IF Departure(r) /\ r.user \in who
             THEN [r EXCEPT !.reason = reason] ELSE r : r \in rows}

\* UPDATE changes SET departure_reason ... AND departure_reason IS NULL
Classify(reason, who) ==
  rows' = {IF Departure(r) /\ r.reason = NoReason /\ r.user \in who
             THEN [r EXCEPT !.reason = reason] ELSE r : r \in rows}

ClassifyBlocked ==
  /\ next = "blocked"
  /\ Classify("you_blocked", Members(curr, "blocked"))
  /\ next' = "survivors"
  /\ UNCHANGED <<prev, curr>>

\* Mutant: only the newer execution is asked whether it carried the list.
BothFollowing_NewerOnly == Carries(curr, "following")

BothFollowing == "following" \in Shared(prev, curr)

ClassifySurvivors ==
  /\ next = "survivors"
  /\ Classify("unfollowed", IF BothFollowing THEN Members(curr, "following") ELSE {})
  /\ next' = "vanished"
  /\ UNCHANGED <<prev, curr>>

ClassifyVanished ==
  /\ next = "vanished"
  /\ Classify("vanished",
       IF BothFollowing THEN Members(prev, "following") \ Members(curr, "following")
                        ELSE {})
  /\ next' = "rest"
  /\ UNCHANGED <<prev, curr>>

ClassifyRest ==
  /\ next = "rest"
  /\ Classify("unknown", Users)
  /\ next' = "done"
  /\ UNCHANGED <<prev, curr>>

Next ==
  \/ RecordChanges \/ ClassifyRenames \/ ClassifyBlocked
  \/ ClassifySurvivors \/ ClassifyVanished \/ ClassifyRest

Spec == Init /\ [][Next]_vars

-----------------------------------------------------------------------------

\* The six statements leave exactly the rows ChangesBetween describes, so the
\* modules that use the operator may take the transaction as one step.
StatementsAddUp ==
  next = "done" => rows = ChangesBetween(PrevId, CurId, prev, curr)

\* A rename is one person: each old name has one new name and the other way
\* round, the two rows point at each other, and both bear one timestamp that
\* nobody else who left or arrived bears.
RenamesAreOneToOne ==
  next = "done" =>
    LET named == {r \in rows : r.renamedTo # Nobody}
        again == {r \in rows : r.renamedFrom # Nobody}
    IN  /\ \A r \in named : r.reason = "renamed"
        /\ \A r \in rows : r.reason = "renamed" => r \in named
        /\ {<<r.user, r.renamedTo>> : r \in named}
             = {<<r.renamedFrom, r.user>> : r \in again}
        /\ \A r, s \in named : r.renamedTo = s.renamedTo => r = s
        /\ \A r \in named, d \in rows :
             LET t == prev["followers"][r.user]
             IN  /\ t # NoStamp
                 /\ Departure(d) /\ d.user # r.user => prev["followers"][d.user] # t
                 /\ Arrival(d) /\ d.user # r.renamedTo => curr["followers"][d.user] # t

\* Somebody is called vanished, or unfollowed, only on the word of a following
\* list on each side, and everybody who left gets one answer and keeps it.
ReasonsHaveEvidence ==
  next = "done" =>
    /\ \A r \in rows : r.reason \in {"vanished", "unfollowed"} =>
         /\ Carries(prev, "following") /\ Carries(curr, "following")
         /\ (r.reason = "unfollowed") <=> (r.user \in DOMAIN curr["following"])
         /\ r.reason = "vanished" => r.user \in DOMAIN prev["following"]
    /\ \A r \in rows : Departure(r) <=> r.reason # NoReason
    /\ \A r, s \in rows : Departure(r) /\ Departure(s) /\ r.user = s.user => r = s
=============================================================================
