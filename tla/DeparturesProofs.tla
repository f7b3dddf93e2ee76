-------------------------- MODULE DeparturesProofs --------------------------
(***************************************************************************)
(* Proofs about Departures: for any two executions, of accounts of any     *)
(* size, the six statements leave exactly the rows of ChangesBetween, so   *)
(* that Tracker and NetDiff may take them as one; and what those rows      *)
(* promise about renames and reasons.                                      *)
(***************************************************************************)
EXTENDS Departures, FiniteSetTheorems, TLAPS

-----------------------------------------------------------------------------
(* Lists *)

\* What every recorded execution has.
IsRecorded(lists) ==
  /\ "followers" \in DOMAIN lists
  /\ IsFiniteSet(DOMAIN lists["followers"]) /\ DOMAIN lists["followers"] \subseteq Users

Typed == IsRecorded(prev) /\ IsRecorded(curr)

LEMMA RecordedIsRecorded ==
  ASSUME NEW lists \in Recorded
  PROVE  IsRecorded(lists)
<1>1. PICK f \in FollowerLists, other \in OtherLists :
        lists = WithFollowers(f, other)
  BY DEF Recorded
<1>2. "followers" \in DOMAIN lists /\ lists["followers"] = f
  BY <1>1 DEF WithFollowers
<1> QED BY <1>2, ListsAssumption DEF IsRecorded

\* The followers who left, and those who came.
Left == Departed(prev, curr, "followers")
New  == Arrived(prev, curr, "followers")

LEMMA FollowersKnown ==
  ASSUME Typed
  PROVE  /\ "followers" \in Shared(prev, curr)
         /\ Left = DOMAIN prev["followers"] \ DOMAIN curr["followers"]
         /\ New = DOMAIN curr["followers"] \ DOMAIN prev["followers"]
         /\ Left \subseteq Users /\ IsFiniteSet(Left)
         /\ New \subseteq Users /\ IsFiniteSet(New)
<1>1. /\ Left = DOMAIN prev["followers"] \ DOMAIN curr["followers"]
      /\ New = DOMAIN curr["followers"] \ DOMAIN prev["followers"]
  BY DEF Typed, IsRecorded, Left, New, Departed, Arrived, Members, Carries
<1>2. Left \in SUBSET DOMAIN prev["followers"] /\ New \in SUBSET DOMAIN curr["followers"]
  BY <1>1
<1>3. IsFiniteSet(Left) /\ IsFiniteSet(New)
  BY <1>2, FS_Subset DEF Typed, IsRecorded
<1> QED BY <1>1, <1>2, <1>3 DEF Typed, IsRecorded, Shared

-----------------------------------------------------------------------------
(* The rows of a pair *)

Columns(k, type, u, reason, renamedTo, renamedFrom) ==
  [upload |-> CurId, prev |-> PrevId, list |-> k, user |-> u, type |-> type,
   reason |-> reason, renamedTo |-> renamedTo, renamedFrom |-> renamedFrom]

\* Somebody came, or left; from and to name who was found to be whom, and why
\* says what has been found of who left.
CameRow(k, u, from) ==
  Columns(k, "followed", u, NoReason, Nobody, IF k = "followers" THEN from[u] ELSE Nobody)

LeftRow(k, u, why, to) ==
  Columns(k, "unfollowed", u, IF k = "followers" THEN why[u] ELSE NoReason,
          IF k = "followers" THEN to[u] ELSE Nobody, Nobody)

RowsWith(p, c, why, to, from) ==
  UNION {{CameRow(k, u, from) : u \in Arrived(p, c, k)} \cup
         {LeftRow(k, u, why, to) : u \in Departed(p, c, k)} : k \in Shared(p, c)}

LEMMA RowsMember ==
  ASSUME NEW p, NEW c, NEW why, NEW to, NEW from, NEW r
  PROVE  r \in RowsWith(p, c, why, to, from) <=>
           \E k \in Shared(p, c) :
             \/ \E u \in Arrived(p, c, k) : r = CameRow(k, u, from)
             \/ \E u \in Departed(p, c, k) : r = LeftRow(k, u, why, to)
BY DEF RowsWith

LEMMA CameRowIs ==
  ASSUME NEW from, NEW k, NEW u
  PROVE  /\ CameRow(k, u, from).list = k /\ CameRow(k, u, from).user = u
         /\ CameRow(k, u, from).type = "followed"
         /\ CameRow(k, u, from).reason = NoReason
         /\ CameRow(k, u, from).renamedTo = Nobody
         /\ CameRow(k, u, from).renamedFrom = IF k = "followers" THEN from[u] ELSE Nobody
         /\ ~Departure(CameRow(k, u, from))
         /\ Arrival(CameRow(k, u, from)) <=> k = "followers"
BY DEF CameRow, Columns, Departure, Arrival

LEMMA LeftRowIs ==
  ASSUME NEW why, NEW to, NEW k, NEW u
  PROVE  /\ LeftRow(k, u, why, to).list = k /\ LeftRow(k, u, why, to).user = u
         /\ LeftRow(k, u, why, to).type = "unfollowed"
         /\ LeftRow(k, u, why, to).reason = IF k = "followers" THEN why[u] ELSE NoReason
         /\ LeftRow(k, u, why, to).renamedTo = IF k = "followers" THEN to[u] ELSE Nobody
         /\ LeftRow(k, u, why, to).renamedFrom = Nobody
         /\ ~Arrival(LeftRow(k, u, why, to))
         /\ Departure(LeftRow(k, u, why, to)) <=> k = "followers"
BY DEF LeftRow, Columns, Departure, Arrival

\* Nothing found out yet.
Unasked == [u \in Users |-> NoReason]
NoNames == [u \in Users |-> Nobody]

\* What each statement finds out.
NewNames(p, c) == [u \in Users |-> OneOrNobody(RenamedTo(p, c, u))]
OldNames(p, c) == [u \in Users |-> OneOrNobody(RenamedFrom(p, c, u))]

AreRenamed(p, c) ==
  [u \in Users |-> IF RenamedTo(p, c, u) # {} THEN "renamed" ELSE NoReason]

Answer(why, reason, who) ==
  [u \in Users |-> IF why[u] = NoReason /\ u \in who THEN reason ELSE why[u]]

Followed(p, c) ==
  IF "following" \in Shared(p, c) THEN Members(c, "following") ELSE {}
Dropped(p, c) ==
  IF "following" \in Shared(p, c)
    THEN Members(p, "following") \ Members(c, "following") ELSE {}

AfterBlocked(p, c)   == Answer(AreRenamed(p, c), "you_blocked", Members(c, "blocked"))
AfterSurvivors(p, c) == Answer(AfterBlocked(p, c), "unfollowed", Followed(p, c))
AfterVanished(p, c)  == Answer(AfterSurvivors(p, c), "vanished", Dropped(p, c))
AfterRest(p, c)      == Answer(AfterVanished(p, c), "unknown", Users)

Classified(p, c, why) == RowsWith(p, c, why, NewNames(p, c), OldNames(p, c))

\* In the end everybody has the reason DepartureReason gives.
LEMMA AnswersAddUp ==
  ASSUME NEW p, NEW c, NEW u \in Users
  PROVE  AfterRest(p, c)[u] = DepartureReason(p, c, u)
BY DEF AfterRest, AfterVanished, AfterSurvivors, AfterBlocked, AreRenamed,
       Answer, Followed, Dropped, DepartureReason, NoReason

\* An UPDATE asks about the departures that have no reason yet, and leaves every
\* other row alone.
LEMMA ClassifyAnswers ==
  ASSUME Typed, NEW why, NEW reason, NEW who, NEW p, NEW c, p = prev, c = curr,
         rows = Classified(p, c, why), Classify(reason, who)
  PROVE  rows' = Classified(p, c, Answer(why, reason, who))
<1> DEFINE to == NewNames(p, c)
           from == OldNames(p, c)
           then == Answer(why, reason, who)
           updated(r) == IF Departure(r) /\ r.reason = NoReason /\ r.user \in who
                           THEN [r EXCEPT !.reason = reason] ELSE r
<1>1. rows' = {updated(r) : r \in rows}
  BY DEF Classify
<1>2. ASSUME NEW k, NEW u \in Arrived(p, c, k)
      PROVE  updated(CameRow(k, u, from)) = CameRow(k, u, from)
  BY CameRowIs, LeftRowIs
<1>3. ASSUME NEW k, NEW u \in Departed(p, c, k)
      PROVE  updated(LeftRow(k, u, why, to)) = LeftRow(k, u, then, to)
  <2>1. CASE k # "followers"
    BY <2>1, CameRowIs, LeftRowIs DEF LeftRow
  <2>2. CASE k = "followers"
    <3>1. u \in Users
      BY <2>2, FollowersKnown DEF Left
    <3>2. /\ LeftRow(k, u, why, to).reason = why[u] /\ LeftRow(k, u, why, to).user = u
          /\ Departure(LeftRow(k, u, why, to))
      BY <2>2, CameRowIs, LeftRowIs
    <3>3. CASE why[u] = NoReason /\ u \in who
      <4>1. [LeftRow(k, u, why, to) EXCEPT !.reason = reason] = LeftRow(k, u, then, to)
        BY <2>2, <3>1, <3>3 DEF LeftRow, Columns, Answer
      <4> QED BY <3>2, <3>3, <4>1
    <3>4. CASE ~(why[u] = NoReason /\ u \in who)
      <4>1. LeftRow(k, u, then, to) = LeftRow(k, u, why, to)
        BY <2>2, <3>1, <3>4 DEF LeftRow, Answer
      <4> QED BY <3>2, <3>4, <4>1
    <3> QED BY <3>3, <3>4
  <2> QED BY <2>1, <2>2
<1> HIDE DEF to, from, then, updated
<1>4. \A r : r \in rows <=>
        \E k \in Shared(p, c) :
          \/ \E u \in Arrived(p, c, k) : r = CameRow(k, u, from)
          \/ \E u \in Departed(p, c, k) : r = LeftRow(k, u, why, to)
  BY RowsMember DEF Classified, to, from
<1>5. \A r : r \in RowsWith(p, c, then, to, from) <=>
        \E k \in Shared(p, c) :
          \/ \E u \in Arrived(p, c, k) : r = CameRow(k, u, from)
          \/ \E u \in Departed(p, c, k) : r = LeftRow(k, u, then, to)
  BY RowsMember
<1>6. ASSUME NEW r \in rows PROVE updated(r) \in RowsWith(p, c, then, to, from)
  BY <1>2, <1>3, <1>4, <1>5
<1>7. ASSUME NEW r \in RowsWith(p, c, then, to, from)
      PROVE  \E o \in rows : r = updated(o)
  BY <1>2, <1>3, <1>4, <1>5
<1> QED BY <1>1, <1>6, <1>7 DEF Classified, to, from, then

-----------------------------------------------------------------------------
(* Renames *)

\* Those who left, or came, bearing one follow timestamp.
LeftAt(t) == {u \in Left : prev["followers"][u] = t}
NewAt(t)  == {u \in New : curr["followers"][u] = t}

\* One pair <<somebody, t>> for everybody in S is one person in S.
LEMMA OneEach ==
  ASSUME NEW S, IsFiniteSet(S), NEW t, NEW P, \A x : x \in P <=> \E u \in S : x = <<u, t>>
  PROVE  Cardinality(P) = 1 <=> \E u : S = {u}
<1>1. IsFiniteSet(P)
  <2> DEFINE f == [u \in S |-> <<u, t>>]
  <2>1. f \in Surjection(S, P)
    BY DEF Surjection
  <2> QED BY <2>1, FS_Surjection
<1>2. Cardinality(P) = 1 <=> \E x : P = {x}
  BY <1>1, FS_Singleton
<1>3. ASSUME NEW x, P = {x} PROVE \E u : S = {u}
  <2>1. PICK u \in S : x = <<u, t>>
    BY <1>3
  <2>2. \A v \in S : <<v, t>> = <<u, t>>
    BY <1>3, <2>1
  <2>3. \A v \in S : v = u
    BY <2>2
  <2>4. S = {u}
    BY <2>3
  <2> QED BY <2>4
<1>4. ASSUME NEW u, S = {u} PROVE P = {<<u, t>>}
  BY <1>4
<1> QED BY <1>2, <1>3, <1>4

\* classifyRenames pairs exactly those whom Renamed calls one person.
LEMMA PairsAreRenames ==
  ASSUME Typed, rows = RowsWith(prev, curr, Unasked, NoNames, NoNames)
  PROVE  /\ \A u \in Left :
              {q[2][1] : q \in {x \in Pairs : x[1][1] = u}} = RenamedTo(prev, curr, u)
         /\ \A u \in New :
              {q[1][1] : q \in {x \in Pairs : x[2][1] = u}} = RenamedFrom(prev, curr, u)
<1>1. \A r : r \in rows /\ Departure(r) =>  r.user \in Left
  <2> SUFFICES ASSUME NEW r \in rows, Departure(r) PROVE r.user \in Left
    OBVIOUS
  <2>1. PICK k \in Shared(prev, curr) :
          \/ \E u \in Arrived(prev, curr, k) : r = CameRow(k, u, NoNames)
          \/ \E u \in Departed(prev, curr, k) : r = LeftRow(k, u, Unasked, NoNames)
    BY RowsMember
  <2> QED BY <2>1, CameRowIs, LeftRowIs DEF Left
<1>2. \A r : r \in rows /\ Arrival(r) =>  r.user \in New
  <2> SUFFICES ASSUME NEW r \in rows, Arrival(r) PROVE r.user \in New
    OBVIOUS
  <2>1. PICK k \in Shared(prev, curr) :
          \/ \E u \in Arrived(prev, curr, k) : r = CameRow(k, u, NoNames)
          \/ \E u \in Departed(prev, curr, k) : r = LeftRow(k, u, Unasked, NoNames)
    BY RowsMember
  <2> QED BY <2>1, CameRowIs, LeftRowIs DEF New
<1>3. \A u \in Left : \E r \in rows : Departure(r) /\ r.user = u
  BY FollowersKnown, RowsMember, CameRowIs, LeftRowIs DEF Left
<1>4. \A u \in New : \E r \in rows : Arrival(r) /\ r.user = u
  BY FollowersKnown, RowsMember, CameRowIs, LeftRowIs DEF New
<1>5. Gone = {<<u, prev["followers"][u]>> : u \in {v \in Left : prev["followers"][v] # NoStamp}}
  BY <1>1, <1>3 DEF Gone
<1>6. Came = {<<u, curr["followers"][u]>> : u \in {v \in New : curr["followers"][v] # NoStamp}}
  BY <1>2, <1>4 DEF Came
<1>7. ASSUME NEW t, t # NoStamp
      PROVE  /\ Bearing(Gone, t) = 1 <=> \E u : LeftAt(t) = {u}
             /\ Bearing(Came, t) = 1 <=> \E u : NewAt(t) = {u}
  <2>1. {s \in Gone : s[2] = t} = {<<u, t>> : u \in LeftAt(t)}
    BY <1>5, <1>7 DEF LeftAt
  <2>2. {s \in Came : s[2] = t} = {<<u, t>> : u \in NewAt(t)}
    BY <1>6, <1>7 DEF NewAt
  <2>3. IsFiniteSet(LeftAt(t)) /\ IsFiniteSet(NewAt(t))
    <3>1. LeftAt(t) \in SUBSET Left /\ NewAt(t) \in SUBSET New
      BY DEF LeftAt, NewAt
    <3> QED BY <3>1, FollowersKnown, FS_Subset
  <2>4. ASSUME NEW S, NEW T, IsFiniteSet(T), {s \in S : s[2] = t} = {<<u, t>> : u \in T}
        PROVE  Bearing(S, t) = 1 <=> \E u : T = {u}
    <3>1. PICK P : P = {s \in S : s[2] = t}
      OBVIOUS
    <3>2. \A x : x \in P <=> \E u \in T : x = <<u, t>>
      BY <2>4, <3>1
    <3>3. Cardinality(P) = 1 <=> \E u : T = {u}
      BY <2>4, <3>2, OneEach
    <3> QED BY <3>1, <3>3 DEF Bearing
  <2> QED BY <2>1, <2>2, <2>3, <2>4
<1>8. \A p : p \in Pairs <=>
        \E u \in Left, v \in New :
          LET t == prev["followers"][u]
          IN  /\ p = <<<<u, t>>, <<v, t>>>> /\ t # NoStamp /\ curr["followers"][v] = t
              /\ LeftAt(t) = {u} /\ NewAt(t) = {v}
  <2> SUFFICES ASSUME NEW p
               PROVE  p \in Pairs <=>
                        \E u \in Left, v \in New :
                          LET t == prev["followers"][u]
                          IN  /\ p = <<<<u, t>>, <<v, t>>>> /\ t # NoStamp
                              /\ curr["followers"][v] = t
                              /\ LeftAt(t) = {u} /\ NewAt(t) = {v}
    OBVIOUS
  <2>1. ASSUME p \in Pairs
        PROVE  \E u \in Left, v \in New :
                 LET t == prev["followers"][u]
                 IN  /\ p = <<<<u, t>>, <<v, t>>>> /\ t # NoStamp
                     /\ curr["followers"][v] = t
                     /\ LeftAt(t) = {u} /\ NewAt(t) = {v}
    <3>1. PICK g \in Gone, n \in Came : p = <<g, n>> /\ g[2] = n[2]
                                       /\ Bearing(Gone, g[2]) = 1 /\ Bearing(Came, g[2]) = 1
      BY <2>1 DEF Pairs
    <3>2. PICK u, t : u \in Left /\ g = <<u, t>> /\ t = prev["followers"][u] /\ t # NoStamp
      BY <1>5
    <3>3. PICK v \in New : n = <<v, t>> /\ t = curr["followers"][v]
      BY <1>6, <3>1, <3>2
    <3>4. (\E x : LeftAt(t) = {x}) /\ (\E x : NewAt(t) = {x})
      BY <1>7, <3>1, <3>2
    <3>5. u \in LeftAt(t) /\ v \in NewAt(t)
      BY <3>2, <3>3 DEF LeftAt, NewAt
    <3>6. LeftAt(t) = {u} /\ NewAt(t) = {v}
      BY <3>4, <3>5
    <3> QED BY <3>1, <3>2, <3>3, <3>6
  <2>2. ASSUME NEW u \in Left, NEW v \in New, NEW t, t = prev["followers"][u],
               p = <<<<u, t>>, <<v, t>>>>, t # NoStamp, curr["followers"][v] = t,
               LeftAt(t) = {u}, NewAt(t) = {v}
        PROVE  p \in Pairs
    <3>1. <<u, t>> \in Gone /\ <<v, t>> \in Came
      BY <1>5, <1>6, <2>2
    <3>2. Bearing(Gone, t) = 1 /\ Bearing(Came, t) = 1
      BY <1>7, <2>2
    <3> QED BY <2>2, <3>1, <3>2 DEF Pairs
  <2> QED BY <2>1, <2>2
<1>9. \A u \in Left : \A v :
        v \in RenamedTo(prev, curr, u) <=>
          LET t == prev["followers"][u]
          IN  v \in New /\ t # NoStamp /\ curr["followers"][v] = t
              /\ LeftAt(t) = {u} /\ NewAt(t) = {v}
  BY DEF RenamedTo, Renamed, LeftAt, NewAt, Left, New
<1>10. \A v \in New : \A u :
        u \in RenamedFrom(prev, curr, v) <=>
          LET t == prev["followers"][u]
          IN  u \in Left /\ t # NoStamp /\ curr["followers"][v] = t
              /\ LeftAt(t) = {u} /\ NewAt(t) = {v}
  BY DEF RenamedFrom, Renamed, LeftAt, NewAt, Left, New
<1>11. ASSUME NEW u \in Left
       PROVE  {q[2][1] : q \in {x \in Pairs : x[1][1] = u}} = RenamedTo(prev, curr, u)
  <2>1. ASSUME NEW q \in Pairs, q[1][1] = u PROVE q[2][1] \in RenamedTo(prev, curr, u)
    BY <1>8, <1>9, <2>1
  <2>2. ASSUME NEW v \in RenamedTo(prev, curr, u)
        PROVE  \E q \in Pairs : q[1][1] = u /\ q[2][1] = v
    <3>1. PICK t : /\ t = prev["followers"][u] /\ v \in New /\ t # NoStamp
                   /\ curr["followers"][v] = t /\ LeftAt(t) = {u} /\ NewAt(t) = {v}
      BY <1>9
    <3>2. <<<<u, t>>, <<v, t>>>> \in Pairs
      BY <1>8, <3>1
    <3> QED BY <3>2
  <2> QED BY <2>1, <2>2
<1>12. ASSUME NEW v \in New
       PROVE  {q[1][1] : q \in {x \in Pairs : x[2][1] = v}} = RenamedFrom(prev, curr, v)
  <2>1. ASSUME NEW q \in Pairs, q[2][1] = v PROVE q[1][1] \in RenamedFrom(prev, curr, v)
    BY <1>8, <1>10, <2>1
  <2>2. ASSUME NEW u \in RenamedFrom(prev, curr, v)
        PROVE  \E q \in Pairs : q[2][1] = v /\ q[1][1] = u
    <3>1. PICK t : /\ t = prev["followers"][u] /\ u \in Left /\ t # NoStamp
                   /\ curr["followers"][v] = t /\ LeftAt(t) = {u} /\ NewAt(t) = {v}
      BY <1>10
    <3>2. <<<<u, t>>, <<v, t>>>> \in Pairs
      BY <1>8, <3>1
    <3> QED BY <3>2
  <2> QED BY <2>1, <2>2
<1> QED BY <1>11, <1>12

\* The renames are found on rows no statement has touched, and leave a name and
\* a reason with those found.
LEMMA ClassifyRenamesNames ==
  ASSUME Typed, NEW p, NEW c, p = prev, c = curr,
         rows = RowsWith(p, c, Unasked, NoNames, NoNames), ClassifyRenames
  PROVE  rows' = Classified(p, c, AreRenamed(p, c))
<1> DEFINE to(u)   == {q[2][1] : q \in {x \in Pairs : x[1][1] = u}}
           from(u) == {q[1][1] : q \in {x \in Pairs : x[2][1] = u}}
           updated(r) == IF Departure(r) /\ to(r.user) # {}
                           THEN [r EXCEPT !.reason = "renamed", !.renamedTo = OneOrNobody(to(r.user))]
                         ELSE IF Arrival(r) /\ from(r.user) # {}
                           THEN [r EXCEPT !.renamedFrom = OneOrNobody(from(r.user))]
                         ELSE r
           why == AreRenamed(p, c)
           news == NewNames(p, c)
           olds == OldNames(p, c)
<1>1. rows' = {updated(r) : r \in rows}
  BY Zenon DEF ClassifyRenames
<1>2. /\ \A u \in Left : to(u) = RenamedTo(p, c, u)
      /\ \A u \in New : from(u) = RenamedFrom(p, c, u)
  BY PairsAreRenames
<1> HIDE DEF to, from
<1>3. ASSUME NEW k, NEW u \in Arrived(p, c, k)
      PROVE  updated(CameRow(k, u, NoNames)) = CameRow(k, u, olds)
  <2>1. CASE k # "followers"
    BY <2>1, CameRowIs DEF CameRow
  <2>2. CASE k = "followers"
    <3>1. u \in New /\ u \in Users
      BY <1>3, <2>2, FollowersKnown DEF New
    <3>2. /\ CameRow(k, u, NoNames).user = u /\ ~Departure(CameRow(k, u, NoNames))
          /\ Arrival(CameRow(k, u, NoNames))
      BY <2>2, CameRowIs
    <3>3. olds[u] = OneOrNobody(from(u))
      BY <1>2, <3>1 DEF OldNames
    <3>4. CASE from(u) # {}
      <4>1. [CameRow(k, u, NoNames) EXCEPT !.renamedFrom = OneOrNobody(from(u))]
              = CameRow(k, u, olds)
        BY <2>2, <3>3 DEF CameRow, Columns
      <4> QED BY <3>2, <3>4, <4>1
    <3>5. CASE from(u) = {}
      <4>1. CameRow(k, u, olds) = CameRow(k, u, NoNames)
        BY <2>2, <3>1, <3>3, <3>5 DEF CameRow, OneOrNobody, NoNames
      <4> QED BY <3>2, <3>5, <4>1
    <3> QED BY <3>4, <3>5
  <2> QED BY <2>1, <2>2
<1>4. ASSUME NEW k, NEW u \in Departed(p, c, k)
      PROVE  updated(LeftRow(k, u, Unasked, NoNames)) = LeftRow(k, u, why, news)
  <2>1. CASE k # "followers"
    BY <2>1, LeftRowIs DEF LeftRow
  <2>2. CASE k = "followers"
    <3>1. u \in Left /\ u \in Users
      BY <1>4, <2>2, FollowersKnown DEF Left
    <3>2. /\ LeftRow(k, u, Unasked, NoNames).user = u
          /\ Departure(LeftRow(k, u, Unasked, NoNames))
          /\ ~Arrival(LeftRow(k, u, Unasked, NoNames))
      BY <2>2, LeftRowIs
    <3>3. /\ news[u] = OneOrNobody(to(u))
          /\ why[u] = IF to(u) # {} THEN "renamed" ELSE NoReason
      BY <1>2, <3>1 DEF NewNames, AreRenamed
    <3>4. CASE to(u) # {}
      <4>1. [LeftRow(k, u, Unasked, NoNames) EXCEPT
               !.reason = "renamed", !.renamedTo = OneOrNobody(to(u))] = LeftRow(k, u, why, news)
        <5>1. news[u] = OneOrNobody(to(u)) /\ why[u] = "renamed"
          BY <3>3, <3>4
        <5> HIDE DEF why, news
        <5>2. PICK who : who = OneOrNobody(to(u))
          OBVIOUS
        <5>3. PICK row : row = LeftRow(k, u, Unasked, NoNames)
          OBVIOUS
        <5>4. PICK gone : gone = [row EXCEPT !.reason = "renamed"]
          OBVIOUS
        <5>5. gone = Columns(k, "unfollowed", u, "renamed", NoNames[u], Nobody)
          BY <2>2, <5>3, <5>4 DEF LeftRow, Columns
        <5>6. [gone EXCEPT !.renamedTo = who]
                = Columns(k, "unfollowed", u, "renamed", who, Nobody)
          BY <5>5 DEF Columns
        <5>7. [row EXCEPT !.reason = "renamed", !.renamedTo = who] = [gone EXCEPT !.renamedTo = who]
          BY <5>4
        <5>8. LeftRow(k, u, why, news) = Columns(k, "unfollowed", u, "renamed", who, Nobody)
          BY <2>2, <5>1, <5>2 DEF LeftRow
        <5> QED BY <5>2, <5>3, <5>6, <5>7, <5>8
      <4> QED BY <3>2, <3>4, <4>1
    <3>5. CASE to(u) = {}
      <4>1. LeftRow(k, u, why, news) = LeftRow(k, u, Unasked, NoNames)
        BY <2>2, <3>1, <3>3, <3>5 DEF LeftRow, OneOrNobody, NoNames, Unasked
      <4> QED BY <3>2, <3>5, <4>1
    <3> QED BY <3>4, <3>5
  <2> QED BY <2>1, <2>2
<1> HIDE DEF updated, why, news, olds
<1>5. \A r : r \in rows <=>
        \E k \in Shared(p, c) :
          \/ \E u \in Arrived(p, c, k) : r = CameRow(k, u, NoNames)
          \/ \E u \in Departed(p, c, k) : r = LeftRow(k, u, Unasked, NoNames)
  BY RowsMember
<1>6. \A r : r \in RowsWith(p, c, why, news, olds) <=>
        \E k \in Shared(p, c) :
          \/ \E u \in Arrived(p, c, k) : r = CameRow(k, u, olds)
          \/ \E u \in Departed(p, c, k) : r = LeftRow(k, u, why, news)
  BY RowsMember
<1>7. ASSUME NEW r \in rows PROVE updated(r) \in RowsWith(p, c, why, news, olds)
  BY <1>3, <1>4, <1>5, <1>6
<1>8. ASSUME NEW r \in RowsWith(p, c, why, news, olds)
      PROVE  \E o \in rows : r = updated(o)
  BY <1>3, <1>4, <1>5, <1>6
<1> QED BY <1>1, <1>7, <1>8 DEF Classified, why, news, olds

\* recordChanges writes the two differences of every list both carried.
LEMMA RecordChangesDiffers ==
  ASSUME Typed, NEW p, NEW c, p = prev, c = curr, RecordChanges
  PROVE  rows' = RowsWith(p, c, Unasked, NoNames, NoNames)
<1>1. ASSUME NEW k, NEW u \in Arrived(p, c, k)
      PROVE  Row(k, "followed", u) = CameRow(k, u, NoNames)
  <2>1. k = "followers" => u \in Users
    BY FollowersKnown DEF New
  <2> QED BY <2>1 DEF Row, CameRow, Columns, NoNames
<1>2. ASSUME NEW k, NEW u \in Departed(p, c, k)
      PROVE  Row(k, "unfollowed", u) = LeftRow(k, u, Unasked, NoNames)
  <2>1. k = "followers" => u \in Users
    BY FollowersKnown DEF Left
  <2> QED BY <2>1 DEF Row, LeftRow, Columns, NoNames, Unasked
<1>3. \A r : r \in rows' <=>
        \E k \in Shared(p, c) :
          \/ \E u \in Arrived(p, c, k) : r = Row(k, "followed", u)
          \/ \E u \in Departed(p, c, k) : r = Row(k, "unfollowed", u)
  BY DEF RecordChanges
<1>4. \A r : r \in RowsWith(p, c, Unasked, NoNames, NoNames) <=>
        \E k \in Shared(p, c) :
          \/ \E u \in Arrived(p, c, k) : r = CameRow(k, u, NoNames)
          \/ \E u \in Departed(p, c, k) : r = LeftRow(k, u, Unasked, NoNames)
  BY RowsMember
<1>5. \A r : r \in rows' <=> r \in RowsWith(p, c, Unasked, NoNames, NoNames)
  BY <1>1, <1>2, <1>3, <1>4
<1> QED BY <1>5

\* With every question answered the rows are the ones ChangesBetween writes.
LEMMA AnsweredIsChanges ==
  ASSUME Typed, NEW p, NEW c, p = prev, c = curr
  PROVE  Classified(p, c, AfterRest(p, c)) = ChangesBetween(PrevId, CurId, p, c)
<1> DEFINE news == NewNames(p, c)
           olds == OldNames(p, c)
           why == AfterRest(p, c)
           came(k, u) == [upload |-> CurId, prev |-> PrevId, list |-> k, user |-> u,
             type |-> "followed", reason |-> NoReason, renamedTo |-> Nobody,
             renamedFrom |-> IF k = "followers"
                               THEN OneOrNobody(RenamedFrom(p, c, u)) ELSE Nobody]
           left(k, u) == [upload |-> CurId, prev |-> PrevId, list |-> k, user |-> u,
             type |-> "unfollowed",
             reason |-> IF k = "followers" THEN DepartureReason(p, c, u) ELSE NoReason,
             renamedTo |-> IF k = "followers"
                             THEN OneOrNobody(RenamedTo(p, c, u)) ELSE Nobody,
             renamedFrom |-> Nobody]
<1>1. ASSUME NEW k, NEW u \in Arrived(p, c, k)
      PROVE  CameRow(k, u, olds) = came(k, u)
  <2>1. k = "followers" => u \in Users
    BY FollowersKnown DEF New
  <2>2. k = "followers" => olds[u] = OneOrNobody(RenamedFrom(p, c, u))
    BY <2>1 DEF OldNames
  <2> HIDE DEF olds
  <2> QED BY <2>2 DEF CameRow, Columns
<1>2. ASSUME NEW k, NEW u \in Departed(p, c, k)
      PROVE  LeftRow(k, u, why, news) = left(k, u)
  <2>1. k = "followers" => u \in Users
    BY FollowersKnown DEF Left
  <2>2. k = "followers" => /\ news[u] = OneOrNobody(RenamedTo(p, c, u))
                           /\ why[u] = DepartureReason(p, c, u)
    BY <2>1, AnswersAddUp DEF NewNames
  <2> HIDE DEF news, why
  <2> QED BY <2>2 DEF LeftRow, Columns
<1>3. \A r : r \in ChangesBetween(PrevId, CurId, p, c) <=>
        \E k \in Shared(p, c) :
          \/ \E u \in Arrived(p, c, k) : r = came(k, u)
          \/ \E u \in Departed(p, c, k) : r = left(k, u)
  BY DEF ChangesBetween
<1> HIDE DEF came, left, news, olds, why
<1>4. \A r : r \in RowsWith(p, c, why, news, olds) <=>
        \E k \in Shared(p, c) :
          \/ \E u \in Arrived(p, c, k) : r = CameRow(k, u, olds)
          \/ \E u \in Departed(p, c, k) : r = LeftRow(k, u, why, news)
  BY RowsMember
<1>5. \A r : r \in RowsWith(p, c, why, news, olds)
               <=> r \in ChangesBetween(PrevId, CurId, p, c)
  BY <1>1, <1>2, <1>3, <1>4
<1>6. RowsWith(p, c, why, news, olds) = ChangesBetween(PrevId, CurId, p, c)
  BY <1>5
<1> QED BY <1>6 DEF Classified, why, news, olds

-----------------------------------------------------------------------------
(* The six statements *)

\* What the statements that have run leave behind.
Found(p, c) ==
  /\ next \in {"record", "renames", "blocked", "survivors", "vanished", "rest", "done"}
  /\ next = "renames" => rows = RowsWith(p, c, Unasked, NoNames, NoNames)
  /\ next = "blocked" => rows = Classified(p, c, AreRenamed(p, c))
  /\ next = "survivors" => rows = Classified(p, c, AfterBlocked(p, c))
  /\ next = "vanished" => rows = Classified(p, c, AfterSurvivors(p, c))
  /\ next = "rest" => rows = Classified(p, c, AfterVanished(p, c))
  /\ next = "done" => rows = Classified(p, c, AfterRest(p, c))

Stage == Typed /\ Found(prev, curr)

LEMMA StageStarts ==
  Init => Stage
BY RecordedIsRecorded DEF Init, Stage, Typed, Found

LEMMA StepKeepsStage ==
  ASSUME Stage, Next
  PROVE  Stage'
<1> DEFINE p == prev
           c == curr
<1>1. Typed' /\ UNCHANGED <<prev, curr>>
  BY DEF Stage, Next, RecordChanges, ClassifyRenames, ClassifyBlocked, ClassifySurvivors,
         ClassifyVanished, ClassifyRest, Typed, IsRecorded
<1>2. SUFFICES Found(p, c)'
  BY <1>1 DEF Stage
<1>3. CASE RecordChanges
  <2>1. rows' = RowsWith(p, c, Unasked, NoNames, NoNames)
    BY <1>3, RecordChangesDiffers DEF Stage
  <2> QED BY <1>1, <1>3, <2>1 DEF RecordChanges, Found
<1>4. CASE ClassifyRenames
  <2>1. rows = RowsWith(p, c, Unasked, NoNames, NoNames)
    BY <1>4 DEF Stage, Found, ClassifyRenames
  <2>2. rows' = Classified(p, c, AreRenamed(p, c))
    BY <1>4, <2>1, ClassifyRenamesNames DEF Stage
  <2> QED BY <1>1, <1>4, <2>2 DEF ClassifyRenames, Found
<1>5. CASE ClassifyBlocked
  <2>1. rows' = Classified(p, c, AfterBlocked(p, c))
    BY <1>5, ClassifyAnswers DEF Stage, Found, ClassifyBlocked, AfterBlocked
  <2> QED BY <1>1, <1>5, <2>1 DEF ClassifyBlocked, Found
<1>6. CASE ClassifySurvivors
  <2>1. rows' = Classified(p, c, AfterSurvivors(p, c))
    BY <1>6, ClassifyAnswers
    DEF Stage, Found, ClassifySurvivors, AfterSurvivors, Followed, BothFollowing
  <2> QED BY <1>1, <1>6, <2>1 DEF ClassifySurvivors, Found
<1>7. CASE ClassifyVanished
  <2>1. rows' = Classified(p, c, AfterVanished(p, c))
    BY <1>7, ClassifyAnswers
    DEF Stage, Found, ClassifyVanished, AfterVanished, Dropped, BothFollowing
  <2> QED BY <1>1, <1>7, <2>1 DEF ClassifyVanished, Found
<1>8. CASE ClassifyRest
  <2>1. rows' = Classified(p, c, AfterRest(p, c))
    BY <1>8, ClassifyAnswers DEF Stage, Found, ClassifyRest, AfterRest
  <2> QED BY <1>1, <1>8, <2>1 DEF ClassifyRest, Found
<1> QED BY <1>3, <1>4, <1>5, <1>6, <1>7, <1>8 DEF Next

LEMMA StageHolds ==
  Spec => []Stage
<1>1. ASSUME Stage, UNCHANGED vars PROVE Stage'
  BY <1>1 DEF Stage, Typed, Found, vars
<1> QED BY StageStarts, StepKeepsStage, <1>1, PTL DEF Spec

\* The six statements of recomputeListsBetween and classifyDepartures leave
\* exactly the rows the modules that use ChangesBetween take them to leave.
THEOREM StatementsAreOneStep == Spec => []StatementsAddUp
<1>1. Stage => StatementsAddUp
  BY AnsweredIsChanges DEF Stage, Found, StatementsAddUp
<1> QED BY <1>1, StageHolds, PTL

-----------------------------------------------------------------------------
(* What the rows say of people *)

\* The finished row of a departure, of an arrival.
DepartureRow(u) == LeftRow("followers", u, AfterRest(prev, curr), NewNames(prev, curr))
ArrivalRow(u) == CameRow("followers", u, OldNames(prev, curr))

LEMMA FinishedRows ==
  ASSUME Stage, next = "done"
  PROVE  /\ \A u \in Left : DepartureRow(u) \in rows
         /\ \A u \in New : ArrivalRow(u) \in rows
         /\ \A r \in rows : Departure(r) => r.user \in Left /\ r = DepartureRow(r.user)
         /\ \A r \in rows : Arrival(r) => r.user \in New /\ r = ArrivalRow(r.user)
         /\ \A r \in rows : ~Departure(r) => r.reason = NoReason /\ r.renamedTo = Nobody
         /\ \A r \in rows : ~Arrival(r) => r.renamedFrom = Nobody
<1> DEFINE why == AfterRest(prev, curr)
           to == NewNames(prev, curr)
           from == OldNames(prev, curr)
<1>1. \A r : r \in rows <=>
        \E k \in Shared(prev, curr) :
          \/ \E u \in Arrived(prev, curr, k) : r = CameRow(k, u, from)
          \/ \E u \in Departed(prev, curr, k) : r = LeftRow(k, u, why, to)
  BY RowsMember DEF Stage, Found, Classified
<1>2. "followers" \in Shared(prev, curr)
  BY FollowersKnown DEF Stage
<1>3. (\A u \in Left : DepartureRow(u) \in rows) /\ (\A u \in New : ArrivalRow(u) \in rows)
  BY <1>1, <1>2 DEF DepartureRow, ArrivalRow, Left, New
<1>4. ASSUME NEW r \in rows
      PROVE  /\ Departure(r) => r.user \in Left /\ r = DepartureRow(r.user)
             /\ Arrival(r) => r.user \in New /\ r = ArrivalRow(r.user)
             /\ ~Departure(r) => r.reason = NoReason /\ r.renamedTo = Nobody
             /\ ~Arrival(r) => r.renamedFrom = Nobody
  <2>1. PICK k \in Shared(prev, curr) :
          \/ \E u \in Arrived(prev, curr, k) : r = CameRow(k, u, from)
          \/ \E u \in Departed(prev, curr, k) : r = LeftRow(k, u, why, to)
    BY <1>1
  <2> HIDE DEF why, to, from
  <2>2. CASE \E u \in Arrived(prev, curr, k) : r = CameRow(k, u, from)
    <3>1. PICK u \in Arrived(prev, curr, k) : r = CameRow(k, u, from)
      BY <2>2
    <3>2. k = "followers" => r = ArrivalRow(u) /\ u \in New
      BY <3>1 DEF ArrivalRow, New, from
    <3> QED BY <3>1, <3>2, CameRowIs
  <2>3. CASE \E u \in Departed(prev, curr, k) : r = LeftRow(k, u, why, to)
    <3>1. PICK u \in Departed(prev, curr, k) : r = LeftRow(k, u, why, to)
      BY <2>3
    <3>2. k = "followers" => r = DepartureRow(u) /\ u \in Left
      BY <3>1 DEF DepartureRow, Left, why, to
    <3> QED BY <3>1, <3>2, LeftRowIs
  <2> QED BY <2>1, <2>2, <2>3
<1> QED BY <1>3, <1>4

\* The columns of those rows.
LEMMA FinishedColumns ==
  ASSUME Typed
  PROVE  /\ \A u \in Left :
              /\ DepartureRow(u).user = u /\ Departure(DepartureRow(u)) /\ ~Arrival(DepartureRow(u))
              /\ DepartureRow(u).reason = DepartureReason(prev, curr, u)
              /\ DepartureRow(u).renamedTo = OneOrNobody(RenamedTo(prev, curr, u))
         /\ \A u \in New :
              /\ ArrivalRow(u).user = u /\ Arrival(ArrivalRow(u)) /\ ~Departure(ArrivalRow(u))
              /\ ArrivalRow(u).renamedFrom = OneOrNobody(RenamedFrom(prev, curr, u))
<1>1. Left \subseteq Users /\ New \subseteq Users
  BY FollowersKnown
<1>2. ASSUME NEW u \in Left
      PROVE  /\ DepartureRow(u).user = u /\ Departure(DepartureRow(u)) /\ ~Arrival(DepartureRow(u))
             /\ DepartureRow(u).reason = DepartureReason(prev, curr, u)
             /\ DepartureRow(u).renamedTo = OneOrNobody(RenamedTo(prev, curr, u))
  <2>1. /\ AfterRest(prev, curr)[u] = DepartureReason(prev, curr, u)
        /\ NewNames(prev, curr)[u] = OneOrNobody(RenamedTo(prev, curr, u))
    BY <1>1, AnswersAddUp DEF NewNames
  <2> QED BY <2>1, LeftRowIs DEF DepartureRow
<1>3. ASSUME NEW u \in New
      PROVE  /\ ArrivalRow(u).user = u /\ Arrival(ArrivalRow(u)) /\ ~Departure(ArrivalRow(u))
             /\ ArrivalRow(u).renamedFrom = OneOrNobody(RenamedFrom(prev, curr, u))
  <2>1. OldNames(prev, curr)[u] = OneOrNobody(RenamedFrom(prev, curr, u))
    BY <1>1 DEF OldNames
  <2> QED BY <2>1, CameRowIs DEF ArrivalRow
<1> QED BY <1>2, <1>3

LEMMA Chosen ==
  ASSUME NEW S, NEW x, S = {x}
  PROVE  OneOrNobody(S) = x
BY DEF OneOrNobody

\* A person found under another name is the only one so found, seen from either
\* side, and the only one with the timestamp.
LEMMA OnePerson ==
  ASSUME Typed, NEW u \in Left, RenamedTo(prev, curr, u) # {}
  PROVE  \E v \in New :
           /\ RenamedTo(prev, curr, u) = {v} /\ RenamedFrom(prev, curr, v) = {u}
           /\ prev["followers"][u] # NoStamp
           /\ \A d \in Left : d # u => prev["followers"][d] # prev["followers"][u]
           /\ \A a \in New : a # v => curr["followers"][a] # prev["followers"][u]
<1> DEFINE t == prev["followers"][u]
<1>1. PICK v \in New : Renamed(prev, curr, u, v)
  BY DEF RenamedTo, New
<1>2. /\ t # NoStamp
      /\ {d \in Left : prev["followers"][d] = t} = {u}
      /\ {a \in New : curr["followers"][a] = t} = {v}
  BY <1>1 DEF Renamed, Left, New
<1>3. curr["followers"][v] = t
  BY <1>2
<1>4. \A w : w \in RenamedTo(prev, curr, u) => w = v
  BY <1>1, <1>2 DEF RenamedTo, Renamed, Left, New
<1>5. RenamedTo(prev, curr, u) = {v}
  BY <1>1, <1>4 DEF RenamedTo, New
<1>6. u \in RenamedFrom(prev, curr, v)
  BY <1>1 DEF RenamedFrom, Left
<1>7. \A w : w \in RenamedFrom(prev, curr, v) => w = u
  <2> SUFFICES ASSUME NEW w \in RenamedFrom(prev, curr, v) PROVE w = u
    OBVIOUS
  <2>1. w \in Left /\ {a \in New : curr["followers"][a] = prev["followers"][w]} = {v}
    BY DEF RenamedFrom, Renamed, Left, New
  <2>2. curr["followers"][v] = prev["followers"][w]
    BY <2>1
  <2> QED BY <1>2, <1>3, <2>1, <2>2
<1>8. RenamedFrom(prev, curr, v) = {u}
  BY <1>6, <1>7
<1> QED BY <1>2, <1>5, <1>8

\* And the other way round.
LEMMA OneOrigin ==
  ASSUME Typed, NEW v \in New, RenamedFrom(prev, curr, v) # {}
  PROVE  \E u \in Left :
           RenamedTo(prev, curr, u) = {v} /\ RenamedFrom(prev, curr, v) = {u}
<1>1. PICK u \in Left : Renamed(prev, curr, u, v)
  BY DEF RenamedFrom, Left
<1>2. v \in RenamedTo(prev, curr, u)
  BY <1>1 DEF RenamedTo, New
<1>3. PICK w \in New : RenamedTo(prev, curr, u) = {w} /\ RenamedFrom(prev, curr, w) = {u}
  BY <1>2, OnePerson
<1> QED BY <1>2, <1>3

\* A rename joins one departure and one arrival, and its timestamp is nobody
\* else's: classifyRenames leaves nothing to chance.
LEMMA RenamesInRows ==
  ASSUME Stage, next = "done"
  PROVE  RenamesAreOneToOne
<1> DEFINE named == {r \in rows : r.renamedTo # Nobody}
           again == {r \in rows : r.renamedFrom # Nobody}
<1>1. Typed /\ Left \subseteq Users /\ New \subseteq Users
  BY FollowersKnown DEF Stage
<1>2. ASSUME NEW r \in rows
      PROVE  /\ r \in named => Departure(r) /\ RenamedTo(prev, curr, r.user) # {}
             /\ Departure(r) /\ RenamedTo(prev, curr, r.user) # {} => r \in named /\ r.reason = "renamed"
             /\ r.reason = "renamed" => Departure(r) /\ RenamedTo(prev, curr, r.user) # {}
  <2>1. CASE ~Departure(r)
    BY <2>1, FinishedRows DEF NoReason
  <2>2. CASE Departure(r)
    <3>1. PICK u \in Left : u = r.user /\ r = DepartureRow(u)
      BY <2>2, FinishedRows
    <3>2. r.reason = DepartureReason(prev, curr, u) /\ r.renamedTo = OneOrNobody(RenamedTo(prev, curr, u))
      BY <1>1, <3>1, FinishedColumns
    <3>3. CASE RenamedTo(prev, curr, u) = {}
      <4>1. r.renamedTo = Nobody /\ r.reason # "renamed"
        BY <3>2, <3>3 DEF OneOrNobody, DepartureReason
      <4> QED BY <3>1, <3>3, <4>1
    <3>4. CASE RenamedTo(prev, curr, u) # {}
      <4>1. PICK v \in New : RenamedTo(prev, curr, u) = {v}
        BY <1>1, <3>4, OnePerson
      <4>2. r.renamedTo # Nobody
        BY <1>1, <3>2, <4>1, Chosen, UsersAssumption
      <4>3. r.reason = "renamed"
        BY <3>2, <3>4 DEF DepartureReason
      <4> QED BY <2>2, <3>1, <3>4, <4>2, <4>3
    <3> QED BY <3>3, <3>4
  <2> QED BY <2>1, <2>2
<1>3. ASSUME NEW r \in named
      PROVE  \E u \in Left, v \in New :
               /\ r = DepartureRow(u) /\ r.user = u /\ r.renamedTo = v
               /\ RenamedFrom(prev, curr, v) = {u} /\ prev["followers"][u] # NoStamp
               /\ \A d \in Left : d # u => prev["followers"][d] # prev["followers"][u]
               /\ \A a \in New : a # v => curr["followers"][a] # prev["followers"][u]
  <2>1. PICK u \in Left : u = r.user /\ r = DepartureRow(u) /\ RenamedTo(prev, curr, u) # {}
    BY <1>2, FinishedRows
  <2>2. PICK v \in New :
          /\ RenamedTo(prev, curr, u) = {v} /\ RenamedFrom(prev, curr, v) = {u}
          /\ prev["followers"][u] # NoStamp
          /\ \A d \in Left : d # u => prev["followers"][d] # prev["followers"][u]
          /\ \A a \in New : a # v => curr["followers"][a] # prev["followers"][u]
    BY <1>1, <2>1, OnePerson
  <2>3. r.renamedTo = v
    <3>1. r.renamedTo = OneOrNobody(RenamedTo(prev, curr, u))
      BY <1>1, <2>1, FinishedColumns
    <3> QED BY <2>2, <3>1, Chosen
  <2> QED BY <2>1, <2>2, <2>3
<1>4. ASSUME NEW r \in again
      PROVE  \E u \in Left, v \in New :
               /\ r.user = v /\ r.renamedFrom = u /\ RenamedTo(prev, curr, u) = {v}
  <2>1. PICK v \in New : v = r.user /\ r = ArrivalRow(v)
    BY FinishedRows
  <2>2. r.renamedFrom = OneOrNobody(RenamedFrom(prev, curr, v))
    BY <1>1, <2>1, FinishedColumns
  <2>3. RenamedFrom(prev, curr, v) # {}
    BY <2>2 DEF OneOrNobody
  <2>4. PICK u \in Left : RenamedTo(prev, curr, u) = {v} /\ RenamedFrom(prev, curr, v) = {u}
    BY <1>1, <2>3, OneOrigin
  <2>5. r.renamedFrom = u
    BY <2>2, <2>4, Chosen
  <2> QED BY <2>1, <2>4, <2>5
<1>5. ASSUME NEW r \in named
      PROVE  \E s \in again : s.renamedFrom = r.user /\ s.user = r.renamedTo
  <2>1. PICK u \in Left, v \in New :
          /\ r.user = u /\ r.renamedTo = v /\ RenamedFrom(prev, curr, v) = {u}
    BY <1>3
  <2>2. ArrivalRow(v) \in rows /\ ArrivalRow(v).user = v
    BY <1>1, FinishedRows, FinishedColumns
  <2>3. ArrivalRow(v).renamedFrom = u
    <3>1. ArrivalRow(v).renamedFrom = OneOrNobody(RenamedFrom(prev, curr, v))
      BY <1>1, FinishedColumns
    <3> QED BY <2>1, <3>1, Chosen
  <2> QED BY <1>1, <2>1, <2>2, <2>3, UsersAssumption
<1>6. ASSUME NEW s \in again
      PROVE  \E r \in named : s.renamedFrom = r.user /\ s.user = r.renamedTo
  <2>1. PICK u \in Left, v \in New :
          /\ s.user = v /\ s.renamedFrom = u /\ RenamedTo(prev, curr, u) = {v}
    BY <1>4
  <2>2. DepartureRow(u) \in rows /\ DepartureRow(u).user = u
    BY <1>1, FinishedRows, FinishedColumns
  <2>3. DepartureRow(u).renamedTo = v
    <3>1. DepartureRow(u).renamedTo = OneOrNobody(RenamedTo(prev, curr, u))
      BY <1>1, FinishedColumns
    <3> QED BY <2>1, <3>1, Chosen
  <2> QED BY <1>1, <2>1, <2>2, <2>3, UsersAssumption
<1>7. {<<r.user, r.renamedTo>> : r \in named} = {<<r.renamedFrom, r.user>> : r \in again}
  <2> HIDE DEF named, again
  <2> QED BY <1>5, <1>6
<1>8. ASSUME NEW r \in named, NEW s \in named, r.renamedTo = s.renamedTo
      PROVE  r = s
  <2>1. PICK u \in Left, v \in New :
          r = DepartureRow(u) /\ r.renamedTo = v /\ RenamedFrom(prev, curr, v) = {u}
    BY <1>3
  <2>2. PICK u2 \in Left, v2 \in New :
          s = DepartureRow(u2) /\ s.renamedTo = v2 /\ RenamedFrom(prev, curr, v2) = {u2}
    BY <1>3
  <2> QED BY <1>8, <2>1, <2>2
<1>9. ASSUME NEW r \in named, NEW d \in rows
      PROVE  LET t == prev["followers"][r.user]
             IN  /\ t # NoStamp
                 /\ Departure(d) /\ d.user # r.user => prev["followers"][d.user] # t
                 /\ Arrival(d) /\ d.user # r.renamedTo => curr["followers"][d.user] # t
  <2>1. PICK u \in Left, v \in New :
          /\ r.user = u /\ r.renamedTo = v /\ prev["followers"][u] # NoStamp
          /\ \A x \in Left : x # u => prev["followers"][x] # prev["followers"][u]
          /\ \A x \in New : x # v => curr["followers"][x] # prev["followers"][u]
    BY <1>3
  <2>2. (Departure(d) => d.user \in Left) /\ (Arrival(d) => d.user \in New)
    BY FinishedRows
  <2> QED BY <2>1, <2>2
<1>10. (\A r \in named : r.reason = "renamed") /\ (\A r \in rows : r.reason = "renamed" => r \in named)
  BY <1>2
<1> HIDE DEF named, again
<1>11. (\A r, s \in named : r.renamedTo = s.renamedTo => r = s)
  BY <1>8
<1> QED BY <1>7, <1>9, <1>10, <1>11 DEF RenamesAreOneToOne, named, again

\* The rename statement never guesses between two people.
THEOREM OnePersonOneRename == Spec => []RenamesAreOneToOne
<1>1. Stage => RenamesAreOneToOne
  BY RenamesInRows DEF RenamesAreOneToOne
<1> QED BY <1>1, StageHolds, PTL

\* Nobody is called vanished or unfollowed without a following list on each
\* side, and everybody who left is given one reason.
LEMMA ReasonsInRows ==
  ASSUME Stage, next = "done"
  PROVE  ReasonsHaveEvidence
<1>1. Typed
  BY DEF Stage
<1>2. ASSUME NEW r \in rows, Departure(r)
      PROVE  r.user \in Left /\ r = DepartureRow(r.user) /\ r.reason = DepartureReason(prev, curr, r.user)
  BY <1>1, <1>2, FinishedRows, FinishedColumns
<1>3. ASSUME NEW r \in rows, ~Departure(r)
      PROVE  r.reason = NoReason
  BY <1>3, FinishedRows
<1>4. ASSUME NEW u
      PROVE  LET reason == DepartureReason(prev, curr, u)
             IN  /\ reason # NoReason
                 /\ reason \in {"vanished", "unfollowed"} =>
                      /\ Carries(prev, "following") /\ Carries(curr, "following")
                      /\ (reason = "unfollowed") <=> (u \in DOMAIN curr["following"])
                      /\ reason = "vanished" => u \in DOMAIN prev["following"]
  BY DEF DepartureReason, NoReason, Shared, Members, Carries
<1>5. ASSUME NEW r \in rows, r.reason \in {"vanished", "unfollowed"}
      PROVE  /\ Carries(prev, "following") /\ Carries(curr, "following")
             /\ (r.reason = "unfollowed") <=> (r.user \in DOMAIN curr["following"])
             /\ r.reason = "vanished" => r.user \in DOMAIN prev["following"]
  <2>1. Departure(r)
    BY <1>3, <1>5 DEF NoReason
  <2>2. PICK u : u = r.user /\ r.reason = DepartureReason(prev, curr, u)
    BY <1>2, <2>1
  <2> QED BY <1>4, <1>5, <2>2
<1>6. \A r \in rows : Departure(r) <=> r.reason # NoReason
  BY <1>2, <1>3, <1>4
<1>7. \A r, s \in rows : Departure(r) /\ Departure(s) /\ r.user = s.user => r = s
  BY <1>2
<1> QED BY <1>5, <1>6, <1>7 DEF ReasonsHaveEvidence

\* classifyDepartures gives a reason only on evidence, and gives it once.
THEOREM ReasonsFollowEvidence == Spec => []ReasonsHaveEvidence
<1>1. Stage => ReasonsHaveEvidence
  BY ReasonsInRows DEF ReasonsHaveEvidence
<1> QED BY <1>1, StageHolds, PTL
=============================================================================
