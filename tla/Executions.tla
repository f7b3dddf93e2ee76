---------------------------- MODULE Executions ----------------------------
(***************************************************************************)
(* The arithmetic of an account's history: how completed executions are    *)
(* ordered and numbered, what is recorded between two neighbours, and why  *)
(* somebody left.  Operators only; the modules that hold state extend it.  *)
(*                                                                         *)
(* A history is a function T from upload ids to executions, records        *)
(*   [takenAt |-> date, uploadedAt |-> date, lists |-> recorded lists].    *)
(* Recorded lists are a function whose domain is the set of list kinds the *)
(* export carried (table upload_lists); each list is a function from its   *)
(* members to the moment they were followed (snapshot_members.followed_at, *)
(* NoStamp for NULL).  A kind outside the domain was not carried, which is *)
(* not the same as an empty list.                                          *)
(***************************************************************************)
EXTENDS Integers, FiniteSets

CONSTANT Nobody    \* the NULL of a column that refers to a user

NoStamp == 0       \* the NULL of followed_at

-----------------------------------------------------------------------------
(* Order *)

\* ORDER BY snapshot_taken_at, uploaded_at, id
Precedes(T, u, v) ==
  \/ T[u].takenAt < T[v].takenAt
  \/ /\ T[u].takenAt = T[v].takenAt
     /\ \/ T[u].uploadedAt < T[v].uploadedAt
        \/ T[u].uploadedAt = T[v].uploadedAt /\ u < v

\* Mutants: numbering from 2; numbering in the order of arrival.
SequenceNo_OffByOne(T) ==
  [u \in DOMAIN T |->
     1 + Cardinality({v \in DOMAIN T : v = u \/ Precedes(T, v, u)})]

SequenceNo_ById(T) ==
  [u \in DOMAIN T |-> Cardinality({v \in DOMAIN T : v <= u})]

\* The numbering recomputeAccount assigns: 1 for the oldest execution.
SequenceNo(T) ==
  [u \in DOMAIN T |->
     Cardinality({v \in DOMAIN T : v = u \/ Precedes(T, v, u)})]

\* The pairs <<previous, current>> the loop of recomputeAccount diffs.
Neighbours(T) ==
  LET seq == SequenceNo(T)
  IN  {pair \in (DOMAIN T) \X (DOMAIN T) : seq[pair[2]] = seq[pair[1]] + 1}

-----------------------------------------------------------------------------
(* What two neighbours differ by *)

Carries(lists, kind) == kind \in DOMAIN lists

Members(lists, kind) ==
  IF Carries(lists, kind) THEN DOMAIN lists[kind] ELSE {}

Shared(prev, cur) == DOMAIN prev \cap DOMAIN cur

Arrived(prev, cur, kind) == Members(cur, kind) \ Members(prev, kind)

Departed(prev, cur, kind) == Members(prev, kind) \ Members(cur, kind)

\* A departed and an arrived follower are the same person under a new name:
\* they carry the same follow timestamp, and nobody else who left or arrived
\* between the two executions carries it.
Renamed(prev, cur, gone, new) ==
  LET left    == {u \in Departed(prev, cur, "followers") :
                    prev["followers"][u] = prev["followers"][gone]}
      arrived == {u \in Arrived(prev, cur, "followers") :
                    cur["followers"][u] = prev["followers"][gone]}
  IN  /\ prev["followers"][gone] # NoStamp
      /\ left = {gone}
      /\ arrived = {new}

RenamedTo(prev, cur, gone) ==
  {new \in Arrived(prev, cur, "followers") : Renamed(prev, cur, gone, new)}

RenamedFrom(prev, cur, new) ==
  {gone \in Departed(prev, cur, "followers") : Renamed(prev, cur, gone, new)}

OneOrNobody(S) == IF S = {} THEN Nobody ELSE CHOOSE u \in S : TRUE

\* The order in which the statements of classifyDepartures claim a departure
\* that is still unclassified.
DepartureReason(prev, cur, gone) ==
  IF RenamedTo(prev, cur, gone) # {} THEN "renamed"
  ELSE IF gone \in Members(cur, "blocked") THEN "you_blocked"
  ELSE IF "following" \notin Shared(prev, cur) THEN "unknown"
  ELSE IF gone \in Members(cur, "following") THEN "unfollowed"
  ELSE IF gone \in Members(prev, "following") THEN "vanished"
  ELSE "unknown"

NoReason == "none"   \* the NULL of departure_reason

\* The rows of table changes one execution contributes, given the execution it
\* follows: the two one-sided differences of every list both carried, with the
\* departures of the follower list classified.
ChangesBetween(prevId, id, prev, cur) ==
  UNION {
    {[upload |-> id, prev |-> prevId, list |-> kind, user |-> u,
      type |-> "followed", reason |-> NoReason, renamedTo |-> Nobody,
      renamedFrom |-> IF kind = "followers"
                        THEN OneOrNobody(RenamedFrom(prev, cur, u)) ELSE Nobody]
        : u \in Arrived(prev, cur, kind)}
    \cup
    {[upload |-> id, prev |-> prevId, list |-> kind, user |-> u,
      type |-> "unfollowed",
      reason |-> IF kind = "followers" THEN DepartureReason(prev, cur, u)
                                       ELSE NoReason,
      renamedTo |-> IF kind = "followers"
                      THEN OneOrNobody(RenamedTo(prev, cur, u)) ELSE Nobody,
      renamedFrom |-> Nobody]
        : u \in Departed(prev, cur, kind)}
    : kind \in Shared(prev, cur)}

\* Everything recomputeAccount writes to table changes for one history.  The
\* oldest execution is the baseline and contributes nothing.
Changes(T) ==
  UNION {ChangesBetween(pair[1], pair[2], T[pair[1]].lists, T[pair[2]].lists)
           : pair \in Neighbours(T)}

\* Mutant: the latest execution, whatever the date.
PrecedingCompleted_Latest(T, takenAt) ==
  {u \in DOMAIN T : \A v \in DOMAIN T : v = u \/ Precedes(T, v, u)}

\* The execution PrecedingCompletedUpload finds for a date: the last, in
\* history order, of those dated no later.  Empty when there is none.
PrecedingCompleted(T, takenAt) ==
  LET earlier == {u \in DOMAIN T : T[u].takenAt <= takenAt}
  IN  {u \in earlier : \A v \in earlier : v = u \/ Precedes(T, v, u)}

=============================================================================
