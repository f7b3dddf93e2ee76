--------------------------- MODULE TrackerProofs ---------------------------
(***************************************************************************)
(* Proofs about Tracker, for every value of its constants: any number of   *)
(* accounts, people, lists and dates, any files in any order, and any      *)
(* interleaving of requests, failures, shutdowns and crashes.              *)
(***************************************************************************)
EXTENDS Tracker, FiniteSetTheorems, WellFoundedInduction, TLAPS

-----------------------------------------------------------------------------
(* What the operators of Executions return *)

\* A list somebody recorded names only known people.
LEMMA MembersAreUsers ==
  ASSUME NEW lists \in RecordedLists, NEW kind
  PROVE  /\ Members(lists, kind) \subseteq Users
         /\ DOMAIN lists \subseteq Kinds
         /\ Cardinality(Members(lists, kind)) \in 0..Cardinality(Users)
<1>1. PICK K \in SUBSET Kinds : lists \in [K -> MemberLists]
  BY DEF RecordedLists
<1>2. DOMAIN lists = K
  BY <1>1
<1>3. Members(lists, kind) \subseteq Users
  <2>1. CASE kind \in K
    <3>1. lists[kind] \in MemberLists
      BY <1>1, <2>1
    <3>2. PICK S \in SUBSET Users : lists[kind] \in [S -> Stamps \cup {NoStamp}]
      BY <3>1 DEF MemberLists
    <3>3. DOMAIN lists[kind] = S
      BY <3>2
    <3> QED BY <3>3, <2>1, <1>2 DEF Members, Carries
  <2>2. CASE kind \notin K
    BY <2>2, <1>2 DEF Members, Carries
  <2> QED BY <2>1, <2>2
<1>4. /\ IsFiniteSet(Users)
      /\ IsFiniteSet(Members(lists, kind))
      /\ Cardinality(Members(lists, kind)) <= Cardinality(Users)
  BY <1>3, UsersAssumption, FS_Subset
<1>5. /\ Cardinality(Users) \in Nat
      /\ Cardinality(Members(lists, kind)) \in Nat
  BY <1>4, FS_CardinalityType
<1> QED BY <1>2, <1>3, <1>4, <1>5

\* Numbers never exceed the length of the history.
LEMMA SequenceNoBounded ==
  ASSUME NEW T, DOMAIN T \subseteq Ids, NEW u \in DOMAIN T
  PROVE  SequenceNo(T)[u] \in 0..MaxUploads
<1> DEFINE upTo == {v \in DOMAIN T : v = u \/ Precedes(T, v, u)}
<1>1. SequenceNo(T)[u] = Cardinality(upTo)
  BY DEF SequenceNo
<1>2. IsFiniteSet(Ids) /\ Cardinality(Ids) = MaxUploads
  BY FS_Interval, MaxUploadsAssumption DEF Ids
<1>3. upTo \in SUBSET Ids
  OBVIOUS
<1>4. IsFiniteSet(upTo) /\ Cardinality(upTo) <= Cardinality(Ids)
  BY <1>2, <1>3, FS_Subset
<1>5. Cardinality(upTo) \in Nat
  BY <1>4, FS_CardinalityType
<1> QED BY <1>1, <1>2, <1>4, <1>5, MaxUploadsAssumption

LEMMA ReasonTyped ==
  ASSUME NEW before, NEW after, NEW gone
  PROVE  DepartureReason(before, after, gone) \in Reasons
BY DEF DepartureReason, Reasons, NoReason

LEMMA OneOrNobodyTyped ==
  ASSUME NEW S \in SUBSET Users
  PROVE  OneOrNobody(S) \in Users \cup {Nobody}
<1>1. S # {} => (CHOOSE u \in S : TRUE) \in S
  OBVIOUS
<1> QED BY <1>1 DEF OneOrNobody

\* The rows of one pair are rows, and they name the pair.
LEMMA ChangesBetweenTyped ==
  ASSUME NEW u \in Ids, NEW v \in Ids,
         NEW before \in RecordedLists, NEW after \in RecordedLists
  PROVE  \A c \in ChangesBetween(u, v, before, after) :
           c \in ChangeRows /\ c.prev = u /\ c.upload = v
<1> SUFFICES ASSUME NEW c \in ChangesBetween(u, v, before, after)
             PROVE  c \in ChangeRows /\ c.prev = u /\ c.upload = v
  OBVIOUS
<1> DEFINE
  came(kind, x) ==
    [upload |-> v, prev |-> u, list |-> kind, user |-> x,
     type |-> "followed", reason |-> NoReason, renamedTo |-> Nobody,
     renamedFrom |-> IF kind = "followers"
                       THEN OneOrNobody(RenamedFrom(before, after, x)) ELSE Nobody]
  left(kind, x) ==
    [upload |-> v, prev |-> u, list |-> kind, user |-> x,
     type |-> "unfollowed",
     reason |-> IF kind = "followers" THEN DepartureReason(before, after, x)
                                      ELSE NoReason,
     renamedTo |-> IF kind = "followers"
                     THEN OneOrNobody(RenamedTo(before, after, x)) ELSE Nobody,
     renamedFrom |-> Nobody]
<1>1. PICK kind \in Shared(before, after) :
        \/ \E x \in Arrived(before, after, kind)  : c = came(kind, x)
        \/ \E x \in Departed(before, after, kind) : c = left(kind, x)
  BY DEF ChangesBetween
<1>2. kind \in Kinds
  BY <1>1, MembersAreUsers DEF Shared
<1>3. /\ Arrived(before, after, kind) \subseteq Users
      /\ Departed(before, after, kind) \subseteq Users
      /\ \A x : RenamedFrom(before, after, x) \subseteq Users
      /\ \A x : RenamedTo(before, after, x) \subseteq Users
  BY MembersAreUsers DEF Arrived, Departed, RenamedFrom, RenamedTo
<1>4. CASE \E x \in Arrived(before, after, kind) : c = came(kind, x)
  <2>1. PICK x \in Arrived(before, after, kind) : c = came(kind, x)
    BY <1>4
  <2>2. OneOrNobody(RenamedFrom(before, after, x)) \in Users \cup {Nobody}
    BY <1>3, OneOrNobodyTyped
  <2>3. x \in Users /\ NoReason \in Reasons
    BY <2>1, <1>3 DEF Reasons
  <2> QED BY <2>1, <2>2, <2>3, <1>2 DEF ChangeRows
<1>5. CASE \E x \in Departed(before, after, kind) : c = left(kind, x)
  <2>1. PICK x \in Departed(before, after, kind) : c = left(kind, x)
    BY <1>5
  <2>2. OneOrNobody(RenamedTo(before, after, x)) \in Users \cup {Nobody}
    BY <1>3, OneOrNobodyTyped
  <2>3. DepartureReason(before, after, x) \in Reasons
    BY ReasonTyped
  <2>4. x \in Users /\ NoReason \in Reasons
    BY <2>1, <1>3 DEF Reasons
  <2> QED BY <2>1, <2>2, <2>3, <2>4, <1>2 DEF ChangeRows
<1> QED BY <1>1, <1>4, <1>5

\* What is known of a history handed to Changes: its ids and its lists.
IsHistory(T) == DOMAIN T \subseteq Ids /\ \A u \in DOMAIN T : T[u].lists \in RecordedLists

\* Every row of the change log is about two executions of the history.
LEMMA ChangesTyped ==
  ASSUME NEW T, IsHistory(T)
  PROVE  \A c \in Changes(T) :
           c \in ChangeRows /\ c.prev \in DOMAIN T /\ c.upload \in DOMAIN T
<1> SUFFICES ASSUME NEW c \in Changes(T)
             PROVE  c \in ChangeRows /\ c.prev \in DOMAIN T /\ c.upload \in DOMAIN T
  OBVIOUS
<1>1. PICK pair \in Neighbours(T) :
        c \in ChangesBetween(pair[1], pair[2], T[pair[1]].lists, T[pair[2]].lists)
  BY DEF Changes
<1>2. pair[1] \in DOMAIN T /\ pair[2] \in DOMAIN T
  BY <1>1 DEF Neighbours
<1> QED BY <1>1, <1>2, ChangesBetweenTyped DEF IsHistory

-----------------------------------------------------------------------------
(* Rebuilding a history *)

\* Taking its number away keeps the rest of a row, and an empty row empty.
LEMMA UnnumberedRow ==
  ASSUME NEW row \in ExecRows, NEW r, r = [row EXCEPT !.sequenceNo = 0]
  PROVE  /\ r \in ExecRows /\ r.lists = row.lists
         /\ r.takenAt = row.takenAt /\ r.source = row.source
         /\ row = NoExec => r = NoExec
<1>1. 0 \in 0..MaxUploads
  BY MaxUploadsAssumption
<1>2. [NoExec EXCEPT !.sequenceNo = 0] = NoExec
  <2> DEFINE empty == [NoExec EXCEPT !.sequenceNo = 0]
             columns == {"takenAt", "source", "lists", "sequenceNo", "followerCount"}
  <2>1. NoExec \in [columns -> {NoExec[x] : x \in columns}] /\ NoExec.sequenceNo = 0
    BY DEF NoExec
  <2>2. DOMAIN empty = DOMAIN NoExec /\ \A x \in DOMAIN NoExec : empty[x] = NoExec[x]
    BY <2>1
  <2> QED BY <2>1, <2>2
<1>3. /\ r \in ExecRows /\ r.lists = row.lists
      /\ r.takenAt = row.takenAt /\ r.source = row.source
  BY <1>1 DEF ExecRows
<1> QED BY <1>2, <1>3

\* Rebuilding touches nothing but the numbers, and those only of one account.
LEMMA RenumberedKeeps ==
  ASSUME NEW a, NEW T, IsHistory(T), NEW ex \in [Ids -> ExecRows]
  PROVE  /\ Renumbered(a, T, ex) \in [Ids -> ExecRows]
         /\ \A u \in Ids :
              /\ Renumbered(a, T, ex)[u].lists = ex[u].lists
              /\ Renumbered(a, T, ex)[u].takenAt = ex[u].takenAt
              /\ Renumbered(a, T, ex)[u].source = ex[u].source
              /\ upload[u].account # a => Renumbered(a, T, ex)[u] = ex[u]
              /\ u \notin DOMAIN T /\ ex[u] = NoExec => Renumbered(a, T, ex)[u] = NoExec
<1> DEFINE R == Renumbered(a, T, ex)
<1>1. \A u \in Ids : R[u] = IF upload[u].account # a THEN ex[u]
                            ELSE IF u \in DOMAIN T
                              THEN [ex[u] EXCEPT !.sequenceNo = SequenceNo(T)[u],
                                                 !.followerCount =
                                                   Cardinality(Members(T[u].lists, "followers"))]
                              ELSE [ex[u] EXCEPT !.sequenceNo = 0]
  BY DEF Renumbered
<1>2. 0 \in 0..MaxUploads
  BY MaxUploadsAssumption
<1>3. ASSUME NEW u \in Ids
      PROVE  /\ R[u] \in ExecRows
             /\ R[u].lists = ex[u].lists
             /\ R[u].takenAt = ex[u].takenAt
             /\ R[u].source = ex[u].source
             /\ upload[u].account # a => R[u] = ex[u]
             /\ u \notin DOMAIN T /\ ex[u] = NoExec => R[u] = NoExec
  <2>1. CASE upload[u].account # a
    BY <2>1, <1>1
  <2>2. CASE upload[u].account = a /\ u \in DOMAIN T
    <3>1. PICK n \in 0..MaxUploads : n = SequenceNo(T)[u]
      BY <2>2, SequenceNoBounded DEF IsHistory
    <3>2. PICK m \in 0..Cardinality(Users) :
            m = Cardinality(Members(T[u].lists, "followers"))
      BY <2>2, MembersAreUsers DEF IsHistory
    <3>3. R[u] = [ex[u] EXCEPT !.sequenceNo = n, !.followerCount = m]
      BY <1>1, <2>2, <3>1, <3>2, Zenon
    <3>4. PICK row \in ExecRows : row = ex[u]
      OBVIOUS
    <3> HIDE DEF R
    <3>5. PICK r : r = R[u]
      OBVIOUS
    <3>6. r = [row EXCEPT !.sequenceNo = n, !.followerCount = m]
      BY <3>3, <3>4, <3>5, Zenon
    <3>7. /\ r \in ExecRows /\ r.lists = row.lists
          /\ r.takenAt = row.takenAt /\ r.source = row.source
      BY <3>6 DEF ExecRows
    <3>8. /\ R[u] \in ExecRows /\ R[u].lists = ex[u].lists
          /\ R[u].takenAt = ex[u].takenAt /\ R[u].source = ex[u].source
      BY <3>4, <3>5, <3>7
    <3> QED BY <2>2, <3>8
  <2>3. CASE upload[u].account = a /\ u \notin DOMAIN T
    <3>1. R[u] = [ex[u] EXCEPT !.sequenceNo = 0]
      BY <1>1, <2>3, Zenon
    <3>2. ex[u] \in ExecRows
      OBVIOUS
    <3> HIDE DEF R
    <3>3. /\ R[u] \in ExecRows /\ R[u].lists = ex[u].lists
          /\ R[u].takenAt = ex[u].takenAt /\ R[u].source = ex[u].source
          /\ ex[u] = NoExec => R[u] = NoExec
      BY <3>1, <3>2, UnnumberedRow, Zenon
    <3> QED BY <2>3, <3>3
  <2> QED BY <2>1, <2>2, <2>3
<1>4. R \in [Ids -> ExecRows]
  BY <1>3 DEF Renumbered
<1> QED BY <1>3, <1>4

\* The history of an account is one, and holds the lists as they are in ex.
LEMMA HistoryOfIsHistory ==
  ASSUME NEW a, NEW done \in SUBSET Ids, NEW ex \in [Ids -> ExecRows]
  PROVE  /\ IsHistory(HistoryOf(a, done, ex))
         /\ DOMAIN HistoryOf(a, done, ex) = {u \in done : upload[u].account = a}
<1>1. \A u \in Ids : ex[u].lists \in RecordedLists
  BY DEF ExecRows
<1> QED BY <1>1 DEF IsHistory, HistoryOf

\* What recomputeAccount leaves behind, whoever calls it: it numbers rows and
\* nothing else, and only of one account; the rows of the change log it leaves
\* are another account's, or about executions of this one.
Recomputed(a, done, ex) ==
  /\ exec' \in [Ids -> ExecRows]
  /\ \A u \in Ids :
       /\ exec'[u].lists = ex[u].lists
       /\ exec'[u].takenAt = ex[u].takenAt
       /\ exec'[u].source = ex[u].source
       /\ upload[u].account # a => exec'[u] = ex[u]
       /\ u \notin done /\ ex[u] = NoExec => exec'[u] = NoExec
  /\ changes' \subseteq ChangeRows
  /\ {c \in changes : upload[c.upload].account # a} \subseteq changes'
  /\ \A c \in changes' :
       \/ c \in changes /\ upload[c.upload].account # a
       \/ /\ c.prev \in done /\ c.upload \in done
          /\ upload[c.upload].account = a

LEMMA RecomputeAccountKeeps ==
  ASSUME NEW a, NEW done \in SUBSET Ids, NEW ex \in [Ids -> ExecRows],
         changes \subseteq ChangeRows, RecomputeAccount(a, done, ex)
  PROVE  Recomputed(a, done, ex)
<1> DEFINE T == HistoryOf(a, done, ex)
<1>1. IsHistory(T) /\ DOMAIN T = {u \in done : upload[u].account = a}
  BY HistoryOfIsHistory
<1>2. exec' = Renumbered(a, T, ex)
  BY DEF RecomputeAccount
<1>3. changes' = {c \in changes : upload[c.upload].account # a} \cup Changes(T)
  BY DEF RecomputeAccount
<1>4. \A c \in Changes(T) :
        /\ c \in ChangeRows
        /\ c.prev \in done /\ c.upload \in done
        /\ upload[c.upload].account = a
  BY <1>1, ChangesTyped
<1> HIDE DEF T
<1>5. \A u \in Ids : u \notin done => u \notin DOMAIN T
  BY <1>1
<1> QED BY <1>1, <1>2, <1>3, <1>4, <1>5, RenumberedKeeps DEF Recomputed

-----------------------------------------------------------------------------
(* The inductive invariant *)

\* What somebody asked for is one of the uploads that may be sent, or came with
\* the database, and an absent row is empty.
KnownUploads ==
  /\ \A u \in Existing : upload[u] \in Request
  /\ \A u \in Ids \ Existing : upload[u] = NoUpload

\* The backfill only ever dates executions.
BacklogInHistory == backlog \subseteq Completed

\* The worker drops a file only when the history holds all of its lists.
RemoveSafe == pc = "remove" => exec[cur].lists = upload[cur].export.lists

\* A cause of failure is recorded with the failure and nowhere else.
ErrorsOnFailed == \A u \in Ids : status[u] # "failed" => error[u] = ""

\* The failure on its way is one, and is the shutdown's only during a shutdown.
CauseHeld ==
  pc = "fail" =>
    /\ failure # ""
    /\ failure = "cancelled" => cancelled
    /\ failure = "partial" => ~upload[cur].allowPartial

IInv ==
  /\ TypeOK
  /\ KnownUploads /\ BacklogInHistory /\ ClaimHeld
  /\ OnlyCompletedCount
  /\ NothingLost /\ RemoveSafe
  /\ FailuresAreJustified /\ ErrorsOnFailed /\ CauseHeld

\* A step that writes nothing keeps what is written.
LEMMA QuietStep ==
  ASSUME IInv, UNCHANGED stored,
         pc' \in Steps, cur' \in Ids \cup {NoId}, failure' \in Causes,
         backlog' \subseteq Completed, cancelled' \in BOOLEAN,
         ClaimHeld', RemoveSafe', CauseHeld'
  PROVE  IInv'
<1>1. UNCHANGED <<Existing, Completed>>
  BY DEF stored, Existing, Completed
<1>2. TypeOK'
  BY DEF IInv, TypeOK, stored, Completed
<1>3. KnownUploads' /\ BacklogInHistory'
  BY <1>1 DEF IInv, KnownUploads, BacklogInHistory, stored
<1>4. OnlyCompletedCount' /\ NothingLost'
  BY <1>1 DEF IInv, OnlyCompletedCount, NothingLost, stored
<1>5. FailuresAreJustified' /\ ErrorsOnFailed'
  BY DEF IInv, FailuresAreJustified, ErrorsOnFailed, stored
<1> QED BY <1>2, <1>3, <1>4, <1>5 DEF IInv

\* The steps of the process and the worker that write nothing.
Quiet ==
  \/ Start \/ Shutdown \/ Exit
  \/ RequeueFails
  \/ UploadsWithUnknownSnapshotDate \/ LookbackFails
  \/ SkipInBacklog \/ BackfillEnds
  \/ NothingPending \/ ClaimFails
  \/ Admit \/ Refuse \/ Unreadable \/ LookupFails \/ ApplyFails
  \/ FailUploadFails
  \/ \E u \in Ids : ClaimNextReprocess(u)
  \/ NothingFlagged \/ ClaimReprocessFails
  \/ RereadFails \/ FinishFails
  \/ Wake \/ Return

LEMMA QuietKeeps == IInv /\ Quiet => IInv'
<1> SUFFICES ASSUME IInv, Quiet PROVE IInv'
  OBVIOUS
<1>1. /\ pc \in Steps /\ cur \in Ids \cup {NoId} /\ failure \in Causes
      /\ backlog \subseteq Completed /\ cancelled \in BOOLEAN
      /\ ClaimHeld /\ RemoveSafe /\ CauseHeld
  BY DEF IInv, TypeOK, BacklogInHistory
<1> USE DEF Steps, Causes, ClaimHeld, RemoveSafe, CauseHeld, Completed, Goto, Live
<1>2. CASE Start
  <2>1. UNCHANGED <<stored, status, upload, exec>>
    BY <1>2 DEF Start, stored
  <2> QED BY <1>1, <1>2, <2>1, QuietStep DEF Start
<1>3. CASE Shutdown
  <2>1. UNCHANGED <<stored, status, upload, exec>>
    BY <1>3 DEF Shutdown, stored
  <2> QED BY <1>1, <1>3, <2>1, QuietStep DEF Shutdown
<1>4. CASE Exit
  <2>1. UNCHANGED <<stored, status, upload, exec>>
    BY <1>4 DEF Exit, stored
  <2> QED BY <1>1, <1>4, <2>1, QuietStep DEF Exit
<1>5. CASE RequeueFails
  <2>1. UNCHANGED <<stored, status, upload, exec>>
    BY <1>5 DEF RequeueFails, stored
  <2> QED BY <1>1, <1>5, <2>1, QuietStep DEF RequeueFails
<1>6. CASE UploadsWithUnknownSnapshotDate
  <2>1. UNCHANGED <<stored, status, upload, exec>>
    BY <1>6 DEF UploadsWithUnknownSnapshotDate, stored
  <2> QED BY <1>1, <1>6, <2>1, QuietStep DEF UploadsWithUnknownSnapshotDate
<1>7. CASE LookbackFails
  <2>1. UNCHANGED <<stored, status, upload, exec>>
    BY <1>7 DEF LookbackFails, stored
  <2> QED BY <1>1, <1>7, <2>1, QuietStep DEF LookbackFails
<1>8. CASE SkipInBacklog
  <2>1. UNCHANGED <<stored, status, upload, exec>>
    BY <1>8 DEF SkipInBacklog, stored
  <2> QED BY <1>1, <1>8, <2>1, QuietStep DEF SkipInBacklog
<1>9. CASE BackfillEnds
  <2>1. UNCHANGED <<stored, status, upload, exec>>
    BY <1>9 DEF BackfillEnds, stored
  <2> QED BY <1>1, <1>9, <2>1, QuietStep DEF BackfillEnds
<1>10. CASE NothingPending
  <2>1. UNCHANGED <<stored, status, upload, exec>>
    BY <1>10 DEF NothingPending, stored
  <2> QED BY <1>1, <1>10, <2>1, QuietStep DEF NothingPending
<1>11. CASE ClaimFails
  <2>1. UNCHANGED <<stored, status, upload, exec>>
    BY <1>11 DEF ClaimFails, stored
  <2> QED BY <1>1, <1>11, <2>1, QuietStep DEF ClaimFails
<1>12. CASE Admit
  <2>1. UNCHANGED <<stored, status, upload, exec>>
    BY <1>12 DEF Admit, stored
  <2> QED BY <1>1, <1>12, <2>1, QuietStep DEF Admit
<1>13. CASE Refuse
  <2>1. UNCHANGED <<stored, status, upload, exec>>
    BY <1>13 DEF Refuse, stored
  <2> QED BY <1>1, <1>13, <2>1, QuietStep DEF Refuse, Coverage
<1>14. CASE Unreadable
  <2>1. UNCHANGED <<stored, status, upload, exec>>
    BY <1>14 DEF Unreadable, stored
  <2> QED BY <1>1, <1>14, <2>1, QuietStep DEF Unreadable
<1>15. CASE LookupFails
  <2>1. UNCHANGED <<stored, status, upload, exec>>
    BY <1>15 DEF LookupFails, stored
  <2> QED BY <1>1, <1>15, <2>1, QuietStep DEF LookupFails, DatabaseCause
<1>16. CASE ApplyFails
  <2>1. UNCHANGED <<stored, status, upload, exec>>
    BY <1>16 DEF ApplyFails, stored
  <2> QED BY <1>1, <1>16, <2>1, QuietStep DEF ApplyFails, DatabaseCause
<1>17. CASE FailUploadFails
  <2>1. UNCHANGED <<stored, status, upload, exec>>
    BY <1>17 DEF FailUploadFails, stored
  <2> QED BY <1>1, <1>17, <2>1, QuietStep DEF FailUploadFails
<1>18. CASE NothingFlagged
  <2>1. UNCHANGED <<stored, status, upload, exec>>
    BY <1>18 DEF NothingFlagged, stored
  <2> QED BY <1>1, <1>18, <2>1, QuietStep DEF NothingFlagged
<1>19. CASE ClaimReprocessFails
  <2>1. UNCHANGED <<stored, status, upload, exec>>
    BY <1>19 DEF ClaimReprocessFails, stored
  <2> QED BY <1>1, <1>19, <2>1, QuietStep DEF ClaimReprocessFails
<1>20. CASE RereadFails
  <2>1. UNCHANGED <<stored, status, upload, exec>>
    BY <1>20 DEF RereadFails, stored
  <2> QED BY <1>1, <1>20, <2>1, QuietStep DEF RereadFails
<1>21. CASE FinishFails
  <2>1. UNCHANGED <<stored, status, upload, exec>>
    BY <1>21 DEF FinishFails, stored
  <2> QED BY <1>1, <1>21, <2>1, QuietStep DEF FinishFails
<1>22. CASE Wake
  <2>1. UNCHANGED <<stored, status, upload, exec>>
    BY <1>22 DEF Wake, stored
  <2> QED BY <1>1, <1>22, <2>1, QuietStep DEF Wake
<1>23. CASE Return
  <2>1. UNCHANGED <<stored, status, upload, exec>>
    BY <1>23 DEF Return, stored
  <2> QED BY <1>1, <1>23, <2>1, QuietStep DEF Return
<1>24. ASSUME NEW u \in Ids, ClaimNextReprocess(u) PROVE IInv'
  <2>1. UNCHANGED <<stored, status, upload, exec>>
    BY <1>24 DEF ClaimNextReprocess, stored
  <2> QED BY <1>1, <1>24, <2>1, QuietStep DEF ClaimNextReprocess, Flagged
<1> QED BY <1>2, <1>3, <1>4, <1>5, <1>6, <1>7, <1>8, <1>9, <1>10, <1>11, <1>12, <1>13, <1>14, <1>15, <1>16, <1>17, <1>18, <1>19, <1>20, <1>21, <1>22, <1>23, <1>24 DEF Quiet

-----------------------------------------------------------------------------
(* The transactions that rebuild a history *)

\* A request states a date of some kind, so every upload can be dated.
LEMMA DatesTyped ==
  ASSUME NEW r \in Request
  PROVE  /\ ResolveSnapshotDate(r).at \in Dates
         /\ ResolveSnapshotDate(r).source \in Sources
         /\ DetectedDate(r).at \in OptionalDates
         /\ DetectedDate(r).source \in Sources
         /\ r.export.lists \in RecordedLists
BY DEF Request, Exports, ResolveSnapshotDate, DetectedDate, OptionalDates, Sources

\* Writing one row of the executions, date and all.
Rewrite(u, lists, at, source) ==
  [exec EXCEPT ![u].lists = lists, ![u].takenAt = at, ![u].source = source]

LEMMA RewriteTyped ==
  ASSUME exec \in [Ids -> ExecRows], NEW u \in Ids, NEW lists \in RecordedLists,
         NEW at \in OptionalDates, NEW source \in Sources
  PROVE  /\ Rewrite(u, lists, at, source) \in [Ids -> ExecRows]
         /\ Rewrite(u, lists, at, source)[u].lists = lists
         /\ \A v \in Ids \ {u} : Rewrite(u, lists, at, source)[v] = exec[v]
<1>1. PICK row : row = [exec[u] EXCEPT !.lists = lists, !.takenAt = at, !.source = source]
  OBVIOUS
<1>2. row \in ExecRows /\ row.lists = lists
  BY <1>1 DEF ExecRows
<1>3. Rewrite(u, lists, at, source) = [exec EXCEPT ![u] = row]
  BY <1>1 DEF Rewrite
<1>4. [exec EXCEPT ![u] = row] \in [Ids -> ExecRows]
  BY <1>2
<1> QED BY <1>2, <1>3, <1>4

\* ApplySnapshot and SetSnapshotDate, whatever they write: the execution of one
\* upload is rewritten and its account rebuilt, the upload being in the history
\* afterwards.  The rest keeps its lists, what is not in the history stays
\* empty, and no other account is touched.
RewritesOnly(u, a, done, ex) ==
  /\ Recomputed(a, done, ex)
  /\ \A v \in Ids \ {u} : exec'[v].lists = exec[v].lists
  /\ \A v \in Ids \ done :
       exec'[v] = NoExec /\ \A c \in changes' : v \notin {c.upload, c.prev}
  /\ \A v \in Rewritten : upload[v].account = a

LEMMA RewriteKeeps ==
  ASSUME IInv, NEW u \in Existing, NEW a, a = upload[u].account,
         NEW done, done = Completed \cup {u},
         NEW ex \in [Ids -> ExecRows],
         \A v \in Ids \ {u} : ex[v] = exec[v],
         RecomputeAccount(a, done, ex)
  PROVE  RewritesOnly(u, a, done, ex)
<1>1. /\ u \in Ids /\ done \in SUBSET Ids
      /\ exec \in [Ids -> ExecRows] /\ changes \subseteq ChangeRows
  BY DEF IInv, TypeOK, Existing, Completed
<1>2. Recomputed(a, done, ex)
  BY <1>1, RecomputeAccountKeeps
<1>3. ASSUME NEW v \in Ids \ done
      PROVE  exec'[v] = NoExec /\ \A c \in changes' : v \notin {c.upload, c.prev}
  <2>1. v \in Ids \ Completed /\ v # u
    BY <1>3
  <2>2. exec[v] = NoExec /\ \A c \in changes : v \notin {c.upload, c.prev}
    BY <2>1 DEF IInv, OnlyCompletedCount
  <2> QED BY <1>2, <1>3, <2>1, <2>2 DEF Recomputed
<1>4. ASSUME NEW v \in Rewritten PROVE upload[v].account = a
  <2>1. CASE v \in Ids /\ exec'[v] # exec[v]
    BY <1>2, <2>1 DEF Recomputed
  <2>2. CASE \E c \in (changes \ changes') \cup (changes' \ changes) : v = c.upload
    BY <1>2, <2>2 DEF Recomputed
  <2> QED BY <2>1, <2>2 DEF Rewritten
<1> QED BY <1>1, <1>2, <1>3, <1>4 DEF Recomputed, RewritesOnly

\* ApplySnapshot puts one upload into the history, with the lists of its file.
LEMMA ApplySnapshotKeeps ==
  ASSUME IInv, NEW u \in Existing, ApplySnapshot(u)
  PROVE  /\ status' = [status EXCEPT ![u] = "completed"]
         /\ error' = [error EXCEPT ![u] = ""]
         /\ exec' \in [Ids -> ExecRows]
         /\ changes' \subseteq ChangeRows
         /\ exec'[u].lists = upload[u].export.lists
         /\ \A v \in Ids \ {u} : exec'[v].lists = exec[v].lists
         /\ \A v \in Ids \ (Completed \cup {u}) :
              exec'[v] = NoExec /\ \A c \in changes' : v \notin {c.upload, c.prev}
         /\ \A v \in Rewritten : upload[v].account = upload[u].account
<1>1. /\ u \in Ids /\ upload[u] \in Request /\ exec \in [Ids -> ExecRows]
  BY DEF IInv, TypeOK, KnownUploads, Existing
<1>2. /\ status' = [status EXCEPT ![u] = "completed"]
      /\ error' = [error EXCEPT ![u] = ""]
  BY DEF ApplySnapshot
<1>3. PICK lists \in RecordedLists, at \in OptionalDates, source \in Sources :
        /\ lists = upload[u].export.lists
        /\ at = ResolveSnapshotDate(upload[u]).at
        /\ source = ResolveSnapshotDate(upload[u]).source
  BY <1>1, DatesTyped DEF OptionalDates
<1>4. PICK a, done, ex :
        /\ a = upload[u].account /\ done = Completed \cup {u}
        /\ ex = Rewrite(u, lists, at, source)
        /\ RecomputeAccount(a, done, ex)
  BY <1>3, Zenon DEF ApplySnapshot, Rewrite
<1>5. /\ ex \in [Ids -> ExecRows]
      /\ ex[u].lists = lists
      /\ \A v \in Ids \ {u} : ex[v] = exec[v]
  BY <1>1, <1>4, RewriteTyped
<1>6. RewritesOnly(u, a, done, ex)
  BY <1>4, <1>5, RewriteKeeps
<1>7. /\ exec' \in [Ids -> ExecRows]
      /\ changes' \subseteq ChangeRows
      /\ exec'[u].lists = ex[u].lists
  BY <1>1, <1>6, Zenon DEF RewritesOnly, Recomputed
<1> QED BY <1>2, <1>3, <1>4, <1>5, <1>6, <1>7, Zenon DEF RewritesOnly

\* What a step of the worker that ends in ApplySnapshot keeps.
LEMMA AppliedStep ==
  ASSUME IInv, NEW u \in Existing, ApplySnapshot(u),
         UNCHANGED <<upload, reprocessAt, files, failure, backlog, cancelled>>,
         pc' \in {"drain", "remove", "finish"}, cur' \in {NoId, u},
         pc' # "drain" => cur' = u
  PROVE  IInv'
<1>1. /\ status' = [status EXCEPT ![u] = "completed"]
      /\ error' = [error EXCEPT ![u] = ""]
      /\ exec' \in [Ids -> ExecRows]
      /\ changes' \subseteq ChangeRows
      /\ exec'[u].lists = upload[u].export.lists
      /\ \A v \in Ids \ {u} : exec'[v].lists = exec[v].lists
      /\ \A v \in Ids \ (Completed \cup {u}) :
           exec'[v] = NoExec /\ \A c \in changes' : v \notin {c.upload, c.prev}
  BY ApplySnapshotKeeps
<1>2. TypeOK /\ u \in Ids
  BY DEF IInv, Existing
<1>3. Completed' = Completed \cup {u} /\ Existing' = Existing
  BY <1>1, <1>2 DEF Completed, Existing, TypeOK
<1>4. TypeOK'
  BY <1>1, <1>2 DEF TypeOK, Statuses, Causes, Steps
<1>5. KnownUploads' /\ BacklogInHistory'
  BY <1>3 DEF IInv, KnownUploads, BacklogInHistory
<1>6. ClaimHeld'
  BY <1>2, <1>3 DEF ClaimHeld
<1>7. OnlyCompletedCount'
  BY <1>1, <1>3 DEF OnlyCompletedCount
<1>8. NothingLost' /\ RemoveSafe'
  <2>1. RemoveSafe'
    BY <1>1 DEF RemoveSafe
  <2>2. ASSUME NEW v \in Existing' \ files'
        PROVE  /\ v \in Completed'
               /\ \/ exec'[v].lists = upload'[v].export.lists
                  \/ v \in DOMAIN Legacy /\ ~Legacy[v].kept
    <3>1. CASE v = u
      BY <1>1, <1>3, <3>1
    <3>2. CASE v # u
      <4>1. v \in Ids \ {u} /\ v \in Existing \ files
        BY <1>3, <3>2 DEF Existing
      <4> QED BY <1>1, <1>3, <4>1 DEF IInv, NothingLost
    <3> QED BY <3>1, <3>2
  <2> QED BY <2>1, <2>2 DEF NothingLost
<1>9. FailuresAreJustified' /\ ErrorsOnFailed' /\ CauseHeld'
  BY <1>1, <1>2 DEF IInv, TypeOK, FailuresAreJustified, ErrorsOnFailed, CauseHeld
<1> QED BY <1>4, <1>5, <1>6, <1>7, <1>8, <1>9 DEF IInv

-----------------------------------------------------------------------------
(* The steps that write *)

LEMMA CreateUploadKeeps ==
  ASSUME IInv, NEW u \in Ids, NEW r \in Requests, CreateUpload(u, r)
  PROVE  IInv'
<1> USE DEF CreateUpload, running
<1>1. TypeOK /\ r \in Request /\ u \notin Existing
  BY RequestsAssumption DEF IInv, Ids
<1>2. Existing' = Existing \cup {u} /\ Completed' = Completed
  BY <1>1 DEF Existing, Completed, TypeOK
<1>3. TypeOK'
  BY <1>1 DEF TypeOK, Statuses
<1>4. KnownUploads' /\ BacklogInHistory'
  BY <1>1, <1>2 DEF IInv, KnownUploads, BacklogInHistory, TypeOK
<1>5. pc \in {"judge", "apply", "fail", "remove"} => cur # u
  BY <1>1 DEF IInv, ClaimHeld, Existing, Completed
<1>6. ClaimHeld' /\ RemoveSafe' /\ CauseHeld'
  BY <1>1, <1>2, <1>5 DEF IInv, ClaimHeld, RemoveSafe, CauseHeld, TypeOK, Existing, Completed
<1>7. OnlyCompletedCount' /\ NothingLost'
  BY <1>1, <1>2 DEF IInv, OnlyCompletedCount, NothingLost, TypeOK, Existing, Completed
<1>8. FailuresAreJustified' /\ ErrorsOnFailed'
  BY <1>1 DEF IInv, FailuresAreJustified, ErrorsOnFailed, TypeOK, Existing
<1> QED BY <1>3, <1>4, <1>6, <1>7, <1>8 DEF IInv

LEMMA MarkForReprocessKeeps ==
  ASSUME IInv, NEW a \in Accounts, NEW t \in RereadTimes, MarkForReprocess(a, t)
  PROVE  IInv'
<1> USE DEF MarkForReprocess, running
<1>1. t \in OptionalDates
  BY DatesAssumption DEF OptionalDates
<1>2. TypeOK'
  BY <1>1 DEF IInv, TypeOK
<1>3. UNCHANGED <<Existing, Completed>>
  BY DEF Existing, Completed
<1>4. KnownUploads' /\ BacklogInHistory' /\ ClaimHeld' /\ RemoveSafe' /\ CauseHeld'
  BY <1>3 DEF IInv, KnownUploads, BacklogInHistory, ClaimHeld, RemoveSafe, CauseHeld
<1>5. OnlyCompletedCount' /\ NothingLost' /\ FailuresAreJustified' /\ ErrorsOnFailed'
  BY <1>3 DEF IInv, OnlyCompletedCount, NothingLost, FailuresAreJustified, ErrorsOnFailed
<1> QED BY <1>2, <1>4, <1>5 DEF IInv

\* A step of the worker that writes statuses and errors of uploads that are not
\* in the history, and does not put them there.
LEMMA StatusStep ==
  ASSUME IInv, UNCHANGED <<upload, exec, changes, reprocessAt, files, backlog, cancelled>>,
         TypeOK', Existing' = Existing, Completed' = Completed,
         ClaimHeld', RemoveSafe', CauseHeld', FailuresAreJustified', ErrorsOnFailed'
  PROVE  IInv'
<1>1. KnownUploads' /\ BacklogInHistory'
  BY DEF IInv, KnownUploads, BacklogInHistory
<1>2. OnlyCompletedCount' /\ NothingLost'
  BY DEF IInv, OnlyCompletedCount, NothingLost
<1> QED BY <1>1, <1>2 DEF IInv

LEMMA RequeueProcessingKeeps ==
  ASSUME IInv, RequeueProcessing
  PROVE  IInv'
<1> USE DEF RequeueProcessing, Live
<1>1. TypeOK'
  BY DEF IInv, TypeOK, Statuses, Steps
<1>2. Existing' = Existing /\ Completed' = Completed
  BY DEF Existing, Completed
<1>3. ClaimHeld' /\ RemoveSafe' /\ CauseHeld'
  BY DEF ClaimHeld, RemoveSafe, CauseHeld
<1>4. FailuresAreJustified' /\ ErrorsOnFailed'
  BY DEF IInv, FailuresAreJustified, ErrorsOnFailed
<1> QED BY <1>1, <1>2, <1>3, <1>4, StatusStep

LEMMA ClaimNextPendingKeeps ==
  ASSUME IInv, NEW u \in Ids, ClaimNextPending(u)
  PROVE  IInv'
<1> USE DEF ClaimNextPending, Live
<1>1. TypeOK /\ status[u] = "pending"
  BY DEF IInv, OldestPending, Pending
<1>2. TypeOK'
  BY <1>1 DEF TypeOK, Statuses, Steps
<1>3. Existing' = Existing /\ Completed' = Completed
  BY <1>1 DEF Existing, Completed, TypeOK
<1>4. ClaimHeld' /\ RemoveSafe' /\ CauseHeld'
  BY <1>1 DEF ClaimHeld, RemoveSafe, CauseHeld, TypeOK
<1>5. FailuresAreJustified' /\ ErrorsOnFailed'
  BY <1>1 DEF IInv, FailuresAreJustified, ErrorsOnFailed, TypeOK
<1> QED BY <1>2, <1>3, <1>4, <1>5, StatusStep

LEMMA FailUploadKeeps ==
  ASSUME IInv, FailUpload
  PROVE  IInv'
<1> USE DEF FailUpload, Live
<1>1. /\ TypeOK /\ cur \in Ids /\ status[cur] = "processing"
      /\ failure \notin {"", "cancelled"}
      /\ failure = "partial" => ~upload[cur].allowPartial
  BY DEF IInv, ClaimHeld, CauseHeld
<1>2. TypeOK'
  BY <1>1 DEF TypeOK, Statuses, Steps, Causes
<1>3. Existing' = Existing /\ Completed' = Completed
  BY <1>1 DEF Existing, Completed, TypeOK
<1>4. ClaimHeld' /\ RemoveSafe' /\ CauseHeld'
  BY DEF ClaimHeld, RemoveSafe, CauseHeld
<1>5. FailuresAreJustified' /\ ErrorsOnFailed'
  BY <1>1 DEF IInv, FailuresAreJustified, ErrorsOnFailed, TypeOK
<1> QED BY <1>2, <1>3, <1>4, <1>5, StatusStep

LEMMA FinishReprocessKeeps ==
  ASSUME IInv, FinishReprocess
  PROVE  IInv'
<1> USE DEF FinishReprocess, Live
<1>1. TypeOK'
  BY DEF IInv, TypeOK, Steps, OptionalDates
<1>2. UNCHANGED <<Existing, Completed>>
  BY DEF Existing, Completed
<1>3. KnownUploads' /\ BacklogInHistory' /\ ClaimHeld' /\ RemoveSafe' /\ CauseHeld'
  BY <1>2 DEF IInv, KnownUploads, BacklogInHistory, ClaimHeld, RemoveSafe, CauseHeld
<1>4. OnlyCompletedCount' /\ NothingLost' /\ FailuresAreJustified' /\ ErrorsOnFailed'
  BY <1>2 DEF IInv, OnlyCompletedCount, NothingLost, FailuresAreJustified, ErrorsOnFailed
<1> QED BY <1>1, <1>3, <1>4 DEF IInv

LEMMA RemoveKeeps ==
  ASSUME IInv, Remove
  PROVE  IInv'
<1> USE DEF Remove
<1>1. TypeOK'
  BY DEF IInv, TypeOK, Steps
<1>2. UNCHANGED <<Existing, Completed>>
  BY DEF Existing, Completed
<1>3. KnownUploads' /\ BacklogInHistory' /\ ClaimHeld' /\ RemoveSafe' /\ CauseHeld'
  BY <1>2 DEF IInv, KnownUploads, BacklogInHistory, ClaimHeld, RemoveSafe, CauseHeld
<1>4. NothingLost'
  <2>1. cur \in Completed /\ exec[cur].lists = upload[cur].export.lists
    BY DEF IInv, ClaimHeld, RemoveSafe
  <2> QED BY <1>2, <2>1 DEF IInv, NothingLost
<1>5. OnlyCompletedCount' /\ FailuresAreJustified' /\ ErrorsOnFailed'
  BY <1>2 DEF IInv, OnlyCompletedCount, FailuresAreJustified, ErrorsOnFailed
<1> QED BY <1>1, <1>3, <1>4, <1>5 DEF IInv

LEMMA ApplyKeeps ==
  ASSUME IInv, Apply
  PROVE  IInv'
<1>1. cur \in Existing
  BY DEF IInv, ClaimHeld, Apply, Existing
<1> QED BY <1>1, AppliedStep, SettingsAssumption DEF Apply

LEMMA RereadKeeps ==
  ASSUME IInv, Reread
  PROVE  IInv'
<1>1. cur \in Existing
  BY DEF IInv, ClaimHeld, Reread, Existing, Completed
<1> QED BY <1>1, AppliedStep DEF Reread

\* A set of numbers has a least one, so the backfill works on executions.
LEMMA NextInBacklogChosen ==
  ASSUME backlog \subseteq Ids, backlog # {}
  PROVE  NextInBacklog \in backlog
<1>1. backlog \subseteq Nat
  BY DEF Ids
<1> DEFINE less == {pair \in Nat \X Nat : pair[1] < pair[2]}
<1>2. IsWellFoundedOn(less, Nat)
  BY NatLessThanWellFounded, Zenon DEF OpToRel
<1>3. PICK u \in backlog : \A v \in backlog : <<v, u>> \notin less
  <2> HIDE DEF less
  <2> QED BY <1>1, <1>2, WFMin
<1>4. ASSUME NEW v \in backlog PROVE u <= v
  <2>1. u \in Nat /\ v \in Nat
    BY <1>1
  <2>2. <<v, u>> \notin less
    BY <1>3
  <2>3. ~(v < u)
    BY <2>1, <2>2
  <2> QED BY <2>1, <2>3
<1> QED BY <1>4 DEF NextInBacklog

LEMMA SetSnapshotDateKeeps ==
  ASSUME IInv, SetSnapshotDate
  PROVE  /\ IInv'
         /\ \A v \in Ids : exec'[v].lists = exec[v].lists
         /\ \A v \in Rewritten : upload[v].account = upload[NextInBacklog].account
<1>1. TypeOK /\ backlog \subseteq Completed /\ Completed \subseteq Existing /\ Existing \subseteq Ids
  BY DEF IInv, BacklogInHistory, Completed, Existing
<1>2. PICK u \in Existing : u = NextInBacklog /\ u \in backlog
  BY <1>1, NextInBacklogChosen DEF SetSnapshotDate
<1>3. upload[u] \in Request /\ exec \in [Ids -> ExecRows]
  BY <1>2 DEF IInv, KnownUploads, TypeOK
<1>4. PICK at \in OptionalDates, source \in Sources, lists \in RecordedLists :
        /\ at = DetectedDate(upload[u]).at /\ source = DetectedDate(upload[u]).source
        /\ lists = exec[u].lists
  BY <1>1, <1>3, DatesTyped DEF ExecRows
<1>5. PICK a, done, ex :
        /\ a = upload[u].account /\ done = Completed
        /\ ex = [exec EXCEPT ![u].takenAt = at, ![u].source = source]
        /\ RecomputeAccount(a, done, ex)
  BY <1>2, <1>4, Zenon DEF SetSnapshotDate
<1>6. /\ ex \in [Ids -> ExecRows]
      /\ ex[u].lists = exec[u].lists
      /\ \A v \in Ids \ {u} : ex[v] = exec[v]
  <2>1. PICK row : row = [exec[u] EXCEPT !.takenAt = at, !.source = source]
    OBVIOUS
  <2>2. row \in ExecRows /\ row.lists = exec[u].lists
    BY <1>1, <1>3, <2>1 DEF ExecRows
  <2>3. ex = [exec EXCEPT ![u] = row]
    BY <1>5, <2>1
  <2>4. /\ [exec EXCEPT ![u] = row] \in [Ids -> ExecRows]
        /\ [exec EXCEPT ![u] = row][u] = row
        /\ \A v \in Ids \ {u} : [exec EXCEPT ![u] = row][v] = exec[v]
    BY <1>1, <1>3, <2>2
  <2> QED BY <2>2, <2>3, <2>4, Zenon
<1>7. done = Completed \cup {u} /\ a = upload[u].account /\ RecomputeAccount(a, done, ex)
  BY <1>1, <1>2, <1>5
<1>8. RewritesOnly(u, a, done, ex)
  BY <1>6, <1>7, RewriteKeeps
<1>9. /\ exec' \in [Ids -> ExecRows] /\ changes' \subseteq ChangeRows
      /\ \A v \in Ids : exec'[v].lists = exec[v].lists
      /\ \A v \in Ids \ Completed :
           exec'[v] = NoExec /\ \A c \in changes' : v \notin {c.upload, c.prev}
  <2>1. exec'[u].lists = exec[u].lists
    BY <1>1, <1>6, <1>8, Zenon DEF RewritesOnly, Recomputed
  <2>2. done = Completed
    BY <1>5
  <2> QED BY <1>8, <2>1, <2>2 DEF RewritesOnly, Recomputed
<1>10. /\ UNCHANGED <<status, upload, error, reprocessAt, files, pc, cur, failure, cancelled>>
       /\ backlog' \subseteq backlog
  BY DEF SetSnapshotDate
<1>11. UNCHANGED <<Existing, Completed>>
  BY <1>10 DEF Existing, Completed
<1>12. TypeOK'
  BY <1>1, <1>9, <1>10 DEF TypeOK
<1>13. KnownUploads' /\ BacklogInHistory' /\ ClaimHeld' /\ CauseHeld'
  BY <1>10, <1>11 DEF IInv, KnownUploads, BacklogInHistory, ClaimHeld, CauseHeld
<1>14. RemoveSafe'
  BY <1>10 DEF SetSnapshotDate, RemoveSafe
<1>15. OnlyCompletedCount' /\ NothingLost'
  BY <1>1, <1>9, <1>10, <1>11 DEF IInv, OnlyCompletedCount, NothingLost
<1>16. FailuresAreJustified' /\ ErrorsOnFailed'
  BY <1>10 DEF IInv, FailuresAreJustified, ErrorsOnFailed
<1>17. \A v \in Rewritten : upload[v].account = upload[NextInBacklog].account
  BY <1>2, <1>7, <1>8 DEF RewritesOnly
<1> QED BY <1>9, <1>12, <1>13, <1>14, <1>15, <1>16, <1>17 DEF IInv

-----------------------------------------------------------------------------
(* The initial states, and the invariant *)

\* A list handed to migration 0004 is a list on its own.
LEMMA FollowersOnlyTyped ==
  ASSUME NEW lists \in RecordedLists, Carries(lists, "followers")
  PROVE  [k \in {"followers"} |-> lists[k]] \in RecordedLists
<1>1. PICK K \in SUBSET Kinds : lists \in [K -> MemberLists]
  BY DEF RecordedLists
<1>2. lists["followers"] \in MemberLists
  BY <1>1 DEF Carries
<1>3. [k \in {"followers"} |-> lists[k]] \in [{"followers"} -> MemberLists]
  BY <1>2
<1>4. {"followers"} \in SUBSET Kinds
  BY KindsAssumption
<1> QED BY <1>3, <1>4 DEF RecordedLists

\* Migration 0006 finds rows and leaves rows, about the same two executions.
LEMMA UnclassifiedTyped ==
  ASSUME NEW c \in ChangeRows, NEW d,
         d = [c EXCEPT !.reason = NoReason, !.renamedTo = Nobody, !.renamedFrom = Nobody]
  PROVE  d \in ChangeRows /\ d.upload = c.upload /\ d.prev = c.prev
BY DEF ChangeRows, Reasons

LEMMA InitKeeps == Init => IInv
<1> SUFFICES ASSUME Init PROVE IInv
  OBVIOUS
<1>1. PICK L \in SUBSET Ids :
        /\ Legacy \in [L -> LegacyRow]
        /\ \A u \in L : Carries(Legacy[u].request.export.lists, "followers")
  BY LegacyAssumption
<1>2. /\ DOMAIN Legacy = L
      /\ \A u \in L : /\ Legacy[u].request \in Request
                      /\ Legacy[u].request.export.lists \in RecordedLists
                      /\ Legacy[u].processedAt \in OptionalDates
  BY <1>1 DEF LegacyRow, Request, Exports, OptionalDates
<1> DEFINE migrated ==
             [u \in Ids |->
                IF u \in DOMAIN Legacy
                  THEN [takenAt |-> Legacy[u].processedAt,
                        source |-> "processing order",
                        lists |-> [k \in {"followers"} |->
                                     Legacy[u].request.export.lists[k]],
                        sequenceNo |-> 0, followerCount |-> 0]
                  ELSE NoExec]
           T(a) == HistoryOf(a, Completed, migrated)
<1>3. /\ status = [u \in Ids |-> IF u \in L THEN "completed" ELSE "absent"]
      /\ upload = [u \in Ids |-> IF u \in L THEN Legacy[u].request ELSE NoUpload]
      /\ error = [u \in Ids |-> ""]
      /\ reprocessAt = [u \in Ids |-> NoDate]
      /\ files = {u \in L : Legacy[u].kept}
      /\ pc = "down" /\ cur = NoId /\ failure = "" /\ backlog = {} /\ cancelled = FALSE
  BY <1>2 DEF Init
<1>4. /\ exec = [u \in Ids |-> Renumbered(upload[u].account, T(upload[u].account), migrated)[u]]
      /\ changes = {[c EXCEPT !.reason = NoReason, !.renamedTo = Nobody, !.renamedFrom = Nobody]
                      : c \in UNION {Changes(T(a)) : a \in Accounts}}
  BY Zenon DEF Init
<1>5. Completed = L /\ Existing = L
  BY <1>3 DEF Completed, Existing
<1>6. migrated \in [Ids -> ExecRows]
  <2>1. NoExec \in ExecRows
    <3>1. NoLists \in RecordedLists
      <4>1. NoLists \in [{} -> MemberLists] /\ {} \in SUBSET Kinds
        BY DEF NoLists
      <4> QED BY <4>1 DEF RecordedLists
    <3>2. 0 \in 0..MaxUploads /\ 0 \in 0..Cardinality(Users)
      BY MaxUploadsAssumption, UsersAssumption, FS_CardinalityType
    <3> QED BY <3>1, <3>2 DEF NoExec, ExecRows, OptionalDates, Sources
  <2>2. ASSUME NEW u \in L PROVE migrated[u] \in ExecRows
    <3>1. PICK lists \in RecordedLists :
            lists = [k \in {"followers"} |-> Legacy[u].request.export.lists[k]]
      BY <1>1, <1>2, FollowersOnlyTyped
    <3>2. 0 \in 0..MaxUploads /\ 0 \in 0..Cardinality(Users)
      BY MaxUploadsAssumption, UsersAssumption, FS_CardinalityType
    <3>3. migrated[u] = [takenAt |-> Legacy[u].processedAt, source |-> "processing order",
                         lists |-> lists, sequenceNo |-> 0, followerCount |-> 0]
      BY <1>2, <3>1
    <3>4. PICK at \in OptionalDates : at = Legacy[u].processedAt
      BY <1>2
    <3>5. [takenAt |-> at, source |-> "processing order", lists |-> lists,
           sequenceNo |-> 0, followerCount |-> 0] \in ExecRows
      BY <3>2 DEF ExecRows, Sources
    <3> HIDE DEF migrated
    <3> QED BY <3>3, <3>4, <3>5
  <2> QED BY <1>2, <2>1, <2>2
<1>7. \A u \in Ids \ L : migrated[u] = NoExec
  BY <1>2
<1> HIDE DEF migrated
<1>8. ASSUME NEW a PROVE IsHistory(T(a)) /\ DOMAIN T(a) \subseteq L
  <2>1. Completed \in SUBSET Ids
    BY <1>5
  <2>2. /\ IsHistory(HistoryOf(a, Completed, migrated))
        /\ DOMAIN HistoryOf(a, Completed, migrated) = {u \in Completed : upload[u].account = a}
    BY <1>6, <2>1, HistoryOfIsHistory
  <2> QED BY <1>5, <2>2
<1> HIDE DEF T
<1>9. exec \in [Ids -> ExecRows] /\ \A u \in Ids \ L : exec[u] = NoExec
  <2>1. ASSUME NEW u \in Ids
        PROVE  exec[u] \in ExecRows /\ (u \notin L => exec[u] = NoExec)
    <3>1. PICK a : a = upload[u].account
      OBVIOUS
    <3>2. Renumbered(a, T(a), migrated) \in [Ids -> ExecRows]
      BY <1>6, <1>8, RenumberedKeeps
    <3>3. u \notin L => Renumbered(a, T(a), migrated)[u] = NoExec
      BY <1>6, <1>7, <1>8, RenumberedKeeps
    <3>4. exec[u] = Renumbered(a, T(a), migrated)[u]
      BY <1>4, <3>1, Zenon
    <3> QED BY <3>2, <3>3, <3>4
  <2> QED BY <1>4, <2>1
<1>10. changes \subseteq ChangeRows /\ \A c \in changes : c.prev \in L /\ c.upload \in L
  <2> SUFFICES ASSUME NEW d \in changes
               PROVE  d \in ChangeRows /\ d.prev \in L /\ d.upload \in L
    OBVIOUS
  <2>1. PICK c \in UNION {Changes(T(a)) : a \in Accounts} :
          d = [c EXCEPT !.reason = NoReason, !.renamedTo = Nobody, !.renamedFrom = Nobody]
    BY <1>4, Zenon
  <2>2. PICK a \in Accounts : c \in Changes(T(a))
    BY <2>1
  <2>3. c \in ChangeRows /\ c.prev \in L /\ c.upload \in L
    BY <1>8, <2>2, ChangesTyped
  <2>4. d \in ChangeRows /\ d.upload = c.upload /\ d.prev = c.prev
    BY <2>1, <2>3, UnclassifiedTyped
  <2> QED BY <2>3, <2>4
<1>11. TypeOK
  BY <1>2, <1>3, <1>9, <1>10
     DEF TypeOK, Statuses, OptionalDates, Causes, Steps
<1>12. KnownUploads /\ BacklogInHistory /\ ClaimHeld
  BY <1>2, <1>3, <1>5 DEF KnownUploads, BacklogInHistory, ClaimHeld
<1>13. OnlyCompletedCount
  BY <1>5, <1>9, <1>10 DEF OnlyCompletedCount
<1>14. NothingLost /\ RemoveSafe
  BY <1>2, <1>3, <1>5 DEF NothingLost, RemoveSafe
<1>15. FailuresAreJustified /\ ErrorsOnFailed /\ CauseHeld
  BY <1>3 DEF FailuresAreJustified, ErrorsOnFailed, CauseHeld
<1> QED BY <1>11, <1>12, <1>13, <1>14, <1>15 DEF IInv

\* Every step keeps the invariant.
LEMMA NextKeeps == IInv /\ [Next]_vars => IInv'
<1> SUFFICES ASSUME IInv, [Next]_vars PROVE IInv'
  OBVIOUS
<1>1. CASE \E u \in Ids, r \in Requests : CreateUpload(u, r)
  BY <1>1, CreateUploadKeeps
<1>2. CASE \E a \in Accounts, t \in RereadTimes : MarkForReprocess(a, t)
  BY <1>2, MarkForReprocessKeeps
<1>3. CASE RequeueProcessing
  BY <1>3, RequeueProcessingKeeps
<1>4. CASE SetSnapshotDate
  BY <1>4, SetSnapshotDateKeeps
<1>5. CASE \E u \in Ids : ClaimNextPending(u)
  BY <1>5, ClaimNextPendingKeeps
<1>6. CASE Apply
  BY <1>6, ApplyKeeps
<1>7. CASE Remove
  BY <1>7, RemoveKeeps
<1>8. CASE FailUpload
  BY <1>8, FailUploadKeeps
<1>9. CASE Reread
  BY <1>9, RereadKeeps
<1>10. CASE FinishReprocess
  BY <1>10, FinishReprocessKeeps
<1>11. CASE Quiet
  BY <1>11, QuietKeeps
<1>12. CASE UNCHANGED vars
  <2>1. UNCHANGED <<stored, status, upload, exec, pc, cur, failure, backlog, cancelled>>
    BY <1>12 DEF vars, stored, running
  <2>2. ClaimHeld' /\ RemoveSafe' /\ CauseHeld'
    BY <2>1 DEF IInv, ClaimHeld, RemoveSafe, CauseHeld, Completed
  <2> QED BY <2>1, <2>2, QuietStep DEF IInv, TypeOK, BacklogInHistory
<1> QED BY <1>1, <1>2, <1>3, <1>4, <1>5, <1>6, <1>7, <1>8, <1>9, <1>10, <1>11, <1>12
        DEF Next, Worker, Quiet

LEMMA Invariant == Spec => []IInv
<1> QED BY InitKeeps, NextKeeps, PTL DEF Spec

-----------------------------------------------------------------------------
(* What holds of every reachable state *)

\* The database and the worker's variables keep their types: every number fits
\* the history, every row of the change log names a list, a person and a reason
\* that exist, whatever the sizes of the account.
THEOREM TypeCorrect == Spec => []TypeOK
<1>1. IInv => TypeOK
  BY DEF IInv
<1> QED BY <1>1, Invariant, PTL

\* What ProcessNext works on is claimed, and what it cleans up after or rereads
\* is in the history, through any crash, shutdown, request or failed statement.
THEOREM ClaimIsHeld == Spec => []ClaimHeld
<1>1. IInv => ClaimHeld
  BY DEF IInv
<1> QED BY <1>1, Invariant, PTL

\* ApplySnapshot is all or nothing: what is not completed has no number, no list
\* and no part in any change.
THEOREM HistoryIsOfCompleted == Spec => []OnlyCompletedCount
<1>1. IInv => OnlyCompletedCount
  BY DEF IInv
<1> QED BY <1>1, Invariant, PTL

\* process removes the raw file only after the history holds all its lists, so
\* an upload can be read again until it has been recorded, wherever the process
\* is interrupted.
THEOREM NoUploadIsLost == Spec => []NothingLost
<1>1. IInv => NothingLost
  BY DEF IInv
<1> QED BY <1>1, Invariant, PTL

\* FailUpload never records a shutdown as a failure, and never a partial export
\* against its override.
THEOREM NoUnjustFailure == Spec => []FailuresAreJustified
<1>1. IInv => FailuresAreJustified
  BY DEF IInv
<1> QED BY <1>1, Invariant, PTL

-----------------------------------------------------------------------------
(* What a step may never do *)

\* The steps that rewrite a history.
Rewrites == SetSnapshotDate \/ Apply \/ Reread

KeepsCompleted ==
  \A u \in Completed :
    /\ status'[u] = "completed"
    /\ exec'[u].lists \in {exec[u].lists, upload[u].export.lists}

TouchesOneAccount == \A u, v \in Rewritten : upload[u].account = upload[v].account

\* All the others leave the executions and the change log alone.
LEMMA OthersRewriteNothing ==
  ASSUME IInv, Next, ~Rewrites
  PROVE  UNCHANGED <<exec, changes>> /\ \A u \in Completed : status'[u] = "completed"
<1> USE DEF Completed, running, Goto, stored
<1>1. CASE \E u \in Ids, r \in Requests : CreateUpload(u, r)
  <2>1. PICK u \in Ids, r \in Requests : CreateUpload(u, r)
    BY <1>1
  <2>2. u \notin Existing
    BY <2>1 DEF CreateUpload, Ids
  <2> QED BY <2>1, <2>2 DEF CreateUpload, Existing, IInv, TypeOK
<1>2. CASE \E a \in Accounts, t \in RereadTimes : MarkForReprocess(a, t)
  BY <1>2 DEF MarkForReprocess
<1>3. CASE RequeueProcessing
  BY <1>3 DEF RequeueProcessing
<1>4. CASE \E u \in Ids : ClaimNextPending(u)
  BY <1>4 DEF ClaimNextPending, OldestPending, Pending, IInv, TypeOK
<1>5. CASE Remove
  BY <1>5 DEF Remove
<1>6. CASE FailUpload
  BY <1>6 DEF FailUpload, IInv, TypeOK, ClaimHeld
<1>7. CASE FinishReprocess
  BY <1>7 DEF FinishReprocess
<1>8. CASE Quiet
  BY <1>8 DEF Quiet, Start, Shutdown, Exit, RequeueFails,
     UploadsWithUnknownSnapshotDate, LookbackFails, SkipInBacklog, BackfillEnds,
     NothingPending, ClaimFails, Admit, Refuse, Unreadable, LookupFails,
     ApplyFails, FailUploadFails, ClaimNextReprocess, NothingFlagged,
     ClaimReprocessFails, RereadFails, FinishFails, Wake, Return
<1> QED BY <1>1, <1>2, <1>3, <1>4, <1>5, <1>6, <1>7, <1>8
        DEF Next, Worker, Quiet, Rewrites

LEMMA StepsKeep ==
  ASSUME IInv, Next
  PROVE  KeepsCompleted /\ TouchesOneAccount
<1>1. CASE ~Rewrites
  BY <1>1, OthersRewriteNothing DEF KeepsCompleted, TouchesOneAccount, Rewritten
<1>2. CASE SetSnapshotDate
  <2>1. UNCHANGED status /\ Completed \subseteq Ids
    BY <1>2 DEF SetSnapshotDate, Completed
  <2>2. /\ \A v \in Ids : exec'[v].lists = exec[v].lists
        /\ \A v \in Rewritten : upload[v].account = upload[NextInBacklog].account
    BY <1>2, SetSnapshotDateKeeps
  <2> QED BY <2>1, <2>2 DEF KeepsCompleted, TouchesOneAccount, Completed
<1>3. CASE Apply \/ Reread
  <2>1. ApplySnapshot(cur) /\ cur \in Existing
    BY <1>3 DEF IInv, ClaimHeld, Apply, Reread, Existing, Completed
  <2>2. /\ status' = [status EXCEPT ![cur] = "completed"]
        /\ exec'[cur].lists = upload[cur].export.lists
        /\ \A v \in Ids \ {cur} : exec'[v].lists = exec[v].lists
        /\ \A v \in Rewritten : upload[v].account = upload[cur].account
    BY <2>1, ApplySnapshotKeeps
  <2> QED BY <2>2 DEF KeepsCompleted, TouchesOneAccount, Completed, IInv, TypeOK
<1> QED BY <1>1, <1>2, <1>3 DEF Rewrites

\* Once ApplySnapshot has committed, no request, reread, failure or restart takes
\* the execution out of the history or its lists apart.
THEOREM CompletedForGood == Spec => CompletedIsForever
<1>1. IInv /\ [Next]_vars => [KeepsCompleted]_vars
  BY StepsKeep
<1>2. Spec => [][KeepsCompleted]_vars
  BY <1>1, Invariant, PTL DEF Spec
<1> QED BY <1>2 DEF CompletedIsForever, KeepsCompleted

\* recomputeAccount rewrites the history of the account it was called for, and no
\* row of any other.
THEOREM OneAccountAtATime == Spec => AccountsAreIndependent
<1>1. IInv /\ [Next]_vars => [TouchesOneAccount]_vars
  BY StepsKeep
<1>2. Spec => [][TouchesOneAccount]_vars
  BY <1>1, Invariant, PTL DEF Spec
<1> QED BY <1>2 DEF AccountsAreIndependent, TouchesOneAccount
=============================================================================
