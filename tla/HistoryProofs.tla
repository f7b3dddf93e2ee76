--------------------------- MODULE HistoryProofs ---------------------------
(***************************************************************************)
(* More proofs about Tracker: that the stored numbers and the stored       *)
(* change log are those of the history as it stands, after every step, and *)
(* what one step may do to it: an upload that collapses from its           *)
(* predecessor does not enter, and rereading twice is rereading once.  The *)
(* invariant of TrackerProofs is taken from there.                         *)
(***************************************************************************)
EXTENDS TrackerProofs, Facts

-----------------------------------------------------------------------------
(* Every history is as its last rebuild left it *)

\* Forgetting why somebody left does not unsay that they did.
LEMMA UnclassifiedIsLog ==
  ASSUME NEW T, NEW C \in SUBSET ChangeRows, IsLogOf(C, T), NEW D,
         D = {[c EXCEPT !.reason = NoReason, !.renamedTo = Nobody,
                        !.renamedFrom = Nobody] : c \in C}
  PROVE  IsLogOf(D, T)
<1>1. ASSUME NEW c \in ChangeRows, NEW d,
             d = [c EXCEPT !.reason = NoReason, !.renamedTo = Nobody,
                           !.renamedFrom = Nobody]
      PROVE  /\ d.prev = c.prev /\ d.upload = c.upload /\ d.list = c.list
             /\ d.type = c.type /\ d.user = c.user
  BY <1>1 DEF ChangeRows
<1>2. \A d \in D : \E c \in C :
        /\ d.prev = c.prev /\ d.upload = c.upload /\ d.list = c.list
        /\ d.type = c.type /\ d.user = c.user
  <2> SUFFICES ASSUME NEW d \in D
               PROVE  \E c \in C :
                        /\ d.prev = c.prev /\ d.upload = c.upload /\ d.list = c.list
                        /\ d.type = c.type /\ d.user = c.user
    OBVIOUS
  <2>1. PICK c \in C : d = [c EXCEPT !.reason = NoReason, !.renamedTo = Nobody,
                                     !.renamedFrom = Nobody]
    OBVIOUS
  <2> QED BY <1>1, <2>1
<1>3. \A c \in C : \E d \in D :
        /\ d.prev = c.prev /\ d.upload = c.upload /\ d.list = c.list
        /\ d.type = c.type /\ d.user = c.user
  <2> SUFFICES ASSUME NEW c \in C
               PROVE  \E d \in D :
                        /\ d.prev = c.prev /\ d.upload = c.upload /\ d.list = c.list
                        /\ d.type = c.type /\ d.user = c.user
    OBVIOUS
  <2>1. PICK d : d = [c EXCEPT !.reason = NoReason, !.renamedTo = Nobody,
                               !.renamedFrom = Nobody]
    OBVIOUS
  <2>2. d \in D
    BY <2>1, Zenon
  <2> QED BY <1>1, <2>1, <2>2
<1>4. ASSUME NEW pair, NEW kind, NEW type, NEW x,
             \E c \in C : Says(c, pair, kind, type, x)
      PROVE  \E d \in D : Says(d, pair, kind, type, x)
  <2>1. PICK c \in C : Says(c, pair, kind, type, x)
    BY <1>4
  <2>2. PICK d \in D : /\ d.prev = c.prev /\ d.upload = c.upload /\ d.list = c.list
                       /\ d.type = c.type /\ d.user = c.user
    BY <1>3
  <2> QED BY <2>1, <2>2 DEF Says
<1>5. ASSUME NEW d \in D
      PROVE  /\ <<d.prev, d.upload>> \in Neighbours(T)
             /\ IsTrue(d, T[d.prev].lists, T[d.upload].lists)
  <2>1. PICK c \in C :
          /\ d.prev = c.prev /\ d.upload = c.upload /\ d.list = c.list
          /\ d.type = c.type /\ d.user = c.user
    BY <1>2
  <2> QED BY <2>1 DEF IsLogOf, IsTrue
<1> QED BY <1>4, <1>5 DEF IsLogOf

\* The rows of the change log about one account.
RowsOf(a) == {c \in changes : upload[c.upload].account = a}

\* The change log as migration 0006 leaves it: nobody knows why anybody left.
Unclassified(C) ==
  {[c EXCEPT !.reason = NoReason, !.renamedTo = Nobody, !.renamedFrom = Nobody] : c \in C}

IsNumbered(T, ex) ==
  \A u \in DOMAIN T :
    /\ ex[u].sequenceNo = SequenceNo(T)[u]
    /\ ex[u].followerCount = Cardinality(Members(T[u].lists, "followers"))

\* The numbers and the change log of one account are those of its history.
Rebuilt(a) ==
  /\ IsNumbered(History(a), exec)
  /\ RowsOf(a) \in {Changes(History(a)), Unclassified(Changes(History(a)))}

AllRebuilt == \A a \in Accounts : Rebuilt(a)

LEMMA RenumberedNumbers ==
  ASSUME NEW a, NEW T, DOMAIN T \subseteq Ids, NEW ex \in [Ids -> ExecRows],
         NEW u \in DOMAIN T, upload[u].account = a
  PROVE  /\ Renumbered(a, T, ex)[u].sequenceNo = SequenceNo(T)[u]
         /\ Renumbered(a, T, ex)[u].followerCount
              = Cardinality(Members(T[u].lists, "followers"))
<1>1. PICK n, m : /\ n = SequenceNo(T)[u]
                  /\ m = Cardinality(Members(T[u].lists, "followers"))
  OBVIOUS
<1>2. Renumbered(a, T, ex)[u] = [ex[u] EXCEPT !.sequenceNo = n, !.followerCount = m]
  BY <1>1 DEF Renumbered
<1>3. PICK r \in ExecRows : r = ex[u]
  OBVIOUS
<1>4. PICK s : s = [r EXCEPT !.sequenceNo = n, !.followerCount = m]
  OBVIOUS
<1>5. s.sequenceNo = n /\ s.followerCount = m
  BY <1>4 DEF ExecRows
<1> QED BY <1>1, <1>2, <1>3, <1>4, <1>5

\* A transaction that ends in recomputeAccount leaves the account it was called
\* for rebuilt, and every other as it was.
LEMMA RebuildStep ==
  ASSUME IInv, AllRebuilt, NEW u \in Existing, NEW a, a = upload[u].account,
         NEW done, done = Completed \cup {u}, NEW ex \in [Ids -> ExecRows],
         \A v \in Ids \ {u} : ex[v] = exec[v],
         RecomputeAccount(a, done, ex),
         UNCHANGED upload, Completed' = done
  PROVE  AllRebuilt'
<1>1. /\ u \in Ids /\ done \in SUBSET Ids
      /\ exec \in [Ids -> ExecRows] /\ changes \subseteq ChangeRows
  BY DEF IInv, TypeOK, Existing, Completed
<1>2. Recomputed(a, done, ex)
  BY <1>1, RecomputeAccountKeeps
<1>3. PICK T : T = HistoryOf(a, done, ex)
  OBVIOUS
<1>4. IsHistory(T) /\ DOMAIN T = {v \in done : upload[v].account = a}
  <2>1. DOMAIN T = {v \in done : upload[v].account = a}
    BY <1>3 DEF HistoryOf
  <2>2. \A v \in Ids : ex[v].lists \in RecordedLists
    BY DEF ExecRows
  <2> QED BY <1>1, <1>3, <2>1, <2>2 DEF HistoryOf, IsHistory
<1>5. exec' = Renumbered(a, T, ex)
  BY <1>3 DEF RecomputeAccount
<1>6. changes' = {c \in changes : upload[c.upload].account # a} \cup Changes(T)
  BY <1>3 DEF RecomputeAccount
<1>7. Rebuilt(a)'
  <2>1. History(a)' = T
    <3>1. \A v \in Ids : exec'[v].lists = ex[v].lists /\ exec'[v].takenAt = ex[v].takenAt
      BY <1>2 DEF Recomputed
    <3> QED BY <1>1, <1>3, <3>1 DEF History, HistoryOf
  <2>2. RowsOf(a)' = Changes(T)
    <3>1. \A c \in Changes(T) : upload[c.upload].account = a
      BY <1>4, ChangesTyped
    <3> QED BY <1>6, <3>1 DEF RowsOf
  <2>3. IsNumbered(T, exec')
    <3>1. \A v \in DOMAIN T : v \in Ids /\ upload[v].account = a
      BY <1>1, <1>4
    <3> QED BY <1>5, <3>1, RenumberedNumbers DEF IsNumbered
  <2> QED BY <2>1, <2>2, <2>3 DEF Rebuilt
<1>8. ASSUME NEW b \in Accounts, b # a PROVE Rebuilt(b)'
  <2>1. \A v \in Ids : upload[v].account = b => exec'[v] = exec[v]
    <3>1. \A v \in Ids : upload[v].account = b => v # u /\ exec'[v] = ex[v]
      BY <1>2, <1>8 DEF Recomputed
    <3> QED BY <3>1
  <2>2. {v \in done : upload[v].account = b} = {v \in Completed : upload[v].account = b}
    BY <1>8
  <2>3. History(b)' = History(b)
    BY <1>1, <2>1, <2>2 DEF History, HistoryOf
  <2>4. RowsOf(b)' = RowsOf(b)
    <3>1. \A c \in Changes(T) : upload[c.upload].account = a
      BY <1>4, ChangesTyped
    <3> QED BY <1>6, <1>8, <3>1 DEF RowsOf
  <2>5. IsNumbered(History(b), exec')
    <3>1. \A v \in DOMAIN History(b) : exec'[v] = exec[v]
      BY <1>1, <2>1 DEF History, HistoryOf
    <3>2. IsNumbered(History(b), exec)
      BY DEF AllRebuilt, Rebuilt
    <3> QED BY <3>1, <3>2 DEF IsNumbered
  <2>6. RowsOf(b) \in {Changes(History(b)), Unclassified(Changes(History(b)))}
    BY DEF AllRebuilt, Rebuilt
  <2> QED BY <2>3, <2>4, <2>5, <2>6 DEF Rebuilt
<1> QED BY <1>7, <1>8 DEF AllRebuilt

\* Applying a snapshot and correcting a date end in a rebuild.
LEMMA ApplySnapshotRebuilds ==
  ASSUME IInv, AllRebuilt, NEW u \in Existing, ApplySnapshot(u), UNCHANGED upload
  PROVE  AllRebuilt'
<1>1. /\ u \in Ids /\ upload[u] \in Request /\ exec \in [Ids -> ExecRows]
  BY DEF IInv, TypeOK, KnownUploads, Existing
<1>2. PICK lists \in RecordedLists, at \in OptionalDates, source \in Sources :
        /\ lists = upload[u].export.lists
        /\ at = ResolveSnapshotDate(upload[u]).at
        /\ source = ResolveSnapshotDate(upload[u]).source
  BY <1>1, DatesTyped DEF OptionalDates
<1>3. PICK a, done, ex :
        /\ a = upload[u].account /\ done = Completed \cup {u}
        /\ ex = Rewrite(u, lists, at, source)
        /\ RecomputeAccount(a, done, ex)
  BY <1>2, Zenon DEF ApplySnapshot, Rewrite
<1>4. /\ ex \in [Ids -> ExecRows]
      /\ \A v \in Ids \ {u} : ex[v] = exec[v]
  BY <1>1, <1>3, RewriteTyped
<1>5. Completed' = done
  BY <1>1, <1>3 DEF ApplySnapshot, Completed, IInv, TypeOK
<1> QED BY <1>3, <1>4, <1>5, RebuildStep

LEMMA SetSnapshotDateRebuilds ==
  ASSUME IInv, AllRebuilt, SetSnapshotDate
  PROVE  AllRebuilt'
<1>1. TypeOK /\ backlog \subseteq Completed /\ Completed \subseteq Existing /\ Existing \subseteq Ids
  BY DEF IInv, BacklogInHistory, Completed, Existing
<1>2. PICK u \in Existing : u = NextInBacklog /\ u \in backlog
  BY <1>1, NextInBacklogChosen DEF SetSnapshotDate
<1>3. upload[u] \in Request /\ exec \in [Ids -> ExecRows]
  BY <1>2 DEF IInv, KnownUploads, TypeOK
<1>4. PICK at \in OptionalDates, source \in Sources :
        at = DetectedDate(upload[u]).at /\ source = DetectedDate(upload[u]).source
  BY <1>3, DatesTyped
<1>5. PICK a, done, ex :
        /\ a = upload[u].account /\ done = Completed
        /\ ex = [exec EXCEPT ![u].takenAt = at, ![u].source = source]
        /\ RecomputeAccount(a, done, ex)
  BY <1>2, <1>4, Zenon DEF SetSnapshotDate
<1>6. /\ ex \in [Ids -> ExecRows]
      /\ \A v \in Ids \ {u} : ex[v] = exec[v]
  <2>1. PICK row : row = [exec[u] EXCEPT !.takenAt = at, !.source = source]
    OBVIOUS
  <2>2. row \in ExecRows
    BY <1>1, <1>3, <2>1 DEF ExecRows
  <2>3. ex = [exec EXCEPT ![u] = row]
    BY <1>5, <2>1
  <2> QED BY <1>1, <1>3, <2>2, <2>3
<1>7. done = Completed \cup {u}
  BY <1>1, <1>2, <1>5
<1>8. UNCHANGED upload /\ Completed' = done
  BY <1>5 DEF SetSnapshotDate, Completed
<1> QED BY <1>5, <1>6, <1>7, <1>8, RebuildStep

\* No other step adds to a history or takes from it.
LEMMA OthersKeepHistory ==
  ASSUME IInv, Next, ~Rewrites
  PROVE  Completed' = Completed /\ \A u \in Existing : upload'[u] = upload[u]
<1> USE DEF Completed, running, Goto, stored
<1>1. CASE \E u \in Ids, r \in Requests : CreateUpload(u, r)
  <2>1. PICK u \in Ids, r \in Requests : CreateUpload(u, r)
    BY <1>1
  <2>2. u \notin Existing
    BY <2>1 DEF CreateUpload, Ids
  <2> QED BY <2>1, <2>2 DEF CreateUpload, Existing, IInv, TypeOK
<1>2. CASE \E a \in Accounts, t \in RereadTimes : MarkForReprocess(a, t)
  BY <1>2 DEF MarkForReprocess
<1>3. CASE RequeueProcessing
  BY <1>3 DEF RequeueProcessing
<1>4. CASE \E u \in Ids : ClaimNextPending(u)
  BY <1>4 DEF ClaimNextPending, OldestPending, Pending, IInv, TypeOK
<1>5. CASE Remove
  BY <1>5 DEF Remove
<1>6. CASE FailUpload
  BY <1>6 DEF FailUpload, IInv, TypeOK, ClaimHeld
<1>7. CASE FinishReprocess
  BY <1>7 DEF FinishReprocess
<1>8. CASE Quiet
  BY <1>8 DEF Quiet, Start, Shutdown, Exit, RequeueFails,
     UploadsWithUnknownSnapshotDate, LookbackFails, SkipInBacklog, BackfillEnds,
     NothingPending, ClaimFails, Admit, Refuse, Unreadable, LookupFails,
     ApplyFails, FailUploadFails, ClaimNextReprocess, NothingFlagged,
     ClaimReprocessFails, RereadFails, FinishFails, Wake, Return
<1> QED BY <1>1, <1>2, <1>3, <1>4, <1>5, <1>6, <1>7, <1>8
        DEF Next, Worker, Quiet, Rewrites

LEMMA SameHistorySameLog ==
  ASSUME IInv, AllRebuilt, UNCHANGED <<exec, changes>>,
         Completed' = Completed, \A u \in Existing : upload'[u] = upload[u]
  PROVE  AllRebuilt'
<1>1. \A u \in Completed : u \in Ids /\ upload'[u] = upload[u]
  BY DEF Completed, Existing
<1>2. \A c \in changes : upload'[c.upload] = upload[c.upload]
  <2> SUFFICES ASSUME NEW c \in changes PROVE c.upload \in Completed
    BY <1>1
  <2>1. c.upload \in Ids
    BY DEF IInv, TypeOK, ChangeRows
  <2> QED BY <2>1 DEF IInv, OnlyCompletedCount
<1>3. ASSUME NEW a \in Accounts PROVE Rebuilt(a)'
  <2>1. {u \in Completed : upload'[u].account = a} = {u \in Completed : upload[u].account = a}
    BY <1>1
  <2>2. History(a)' = History(a)
    BY <1>1, <2>1 DEF History, HistoryOf
  <2>3. RowsOf(a)' = RowsOf(a)
    BY <1>2 DEF RowsOf
  <2>4. Rebuilt(a)
    BY DEF AllRebuilt
  <2> QED BY <2>2, <2>3, <2>4 DEF Rebuilt
<1> QED BY <1>3 DEF AllRebuilt

LEMMA NextRebuilds == IInv /\ AllRebuilt /\ [Next]_vars => AllRebuilt'
<1> SUFFICES ASSUME IInv, AllRebuilt, [Next]_vars PROVE AllRebuilt'
  OBVIOUS
<1>1. CASE Next /\ ~Rewrites
  BY <1>1, OthersRewriteNothing, OthersKeepHistory, SameHistorySameLog
<1>2. CASE SetSnapshotDate
  BY <1>2, SetSnapshotDateRebuilds
<1>3. CASE Apply \/ Reread
  <2>1. PICK u \in Existing : u = cur
    BY <1>3 DEF IInv, ClaimHeld, Apply, Reread, Existing, Completed
  <2>2. ApplySnapshot(u) /\ UNCHANGED upload
    BY <1>3, <2>1 DEF Apply, Reread
  <2> QED BY <2>2, ApplySnapshotRebuilds
<1>4. CASE UNCHANGED vars
  <2>1. UNCHANGED <<exec, changes, upload>> /\ Completed' = Completed
    BY <1>4 DEF vars, stored, Completed
  <2> QED BY <2>1, SameHistorySameLog
<1> QED BY <1>1, <1>2, <1>3, <1>4 DEF Rewrites

\* The rows migration 0003 leaves, before the histories are rebuilt.
Migrated ==
  [u \in Ids |->
     IF u \in DOMAIN Legacy
       THEN [takenAt |-> Legacy[u].processedAt, source |-> "processing order",
             lists |-> [k \in {"followers"} |-> Legacy[u].request.export.lists[k]],
             sequenceNo |-> 0, followerCount |-> 0]
       ELSE NoExec]

LEMMA InitMigrates ==
  ASSUME Init
  PROVE  /\ Completed \subseteq Ids /\ Completed = DOMAIN Legacy
         /\ \A u \in Completed : upload[u].manual = NoDate
         /\ Migrated \in [Ids -> ExecRows]
         /\ \A u \in Completed : Migrated[u].source = "processing order"
         /\ exec = [u \in Ids |->
                      Renumbered(upload[u].account,
                                 HistoryOf(upload[u].account, Completed, Migrated),
                                 Migrated)[u]]
         /\ changes = Unclassified(
              UNION {Changes(HistoryOf(a, Completed, Migrated)) : a \in Accounts})
<1>1. PICK L \in SUBSET Ids :
        /\ Legacy \in [L -> LegacyRow]
        /\ \A u \in L : /\ Carries(Legacy[u].request.export.lists, "followers")
                        /\ Legacy[u].request.manual = NoDate
  BY LegacyAssumption
<1>2. /\ DOMAIN Legacy = L
      /\ \A u \in L : /\ Legacy[u].request.export.lists \in RecordedLists
                      /\ Legacy[u].processedAt \in OptionalDates
  BY <1>1 DEF LegacyRow, Request, Exports, OptionalDates
<1>3. Completed = L /\ Completed \subseteq Ids
  BY <1>2 DEF Init, Completed
<1>4. \A u \in Completed : upload[u].manual = NoDate
  BY <1>1, <1>2, <1>3 DEF Init
<1>5. ASSUME NEW u \in L
      PROVE  Migrated[u] \in ExecRows /\ Migrated[u].source = "processing order"
  <2>1. PICK lists \in RecordedLists, at \in OptionalDates :
          /\ lists = [k \in {"followers"} |-> Legacy[u].request.export.lists[k]]
          /\ at = Legacy[u].processedAt
    BY <1>1, <1>2, FollowersOnlyTyped
  <2>2. PICK row : row = [takenAt |-> at, source |-> "processing order",
                          lists |-> lists, sequenceNo |-> 0, followerCount |-> 0]
    OBVIOUS
  <2>3. 0 \in 0..MaxUploads /\ 0 \in 0..Cardinality(Users)
    BY MaxUploadsAssumption, UsersAssumption, FS_CardinalityType
  <2>4. row \in ExecRows /\ row.source = "processing order"
    BY <2>2, <2>3 DEF ExecRows, Sources
  <2>5. Migrated[u] = row
    BY <1>2, <2>1, <2>2 DEF Migrated
  <2> QED BY <2>4, <2>5
<1>6. Migrated \in [Ids -> ExecRows]
  <2>1. NoLists \in RecordedLists
    <3>1. NoLists \in [{} -> MemberLists] /\ {} \in SUBSET Kinds
      BY DEF NoLists
    <3> QED BY <3>1 DEF RecordedLists
  <2>2. 0 \in 0..MaxUploads /\ 0 \in 0..Cardinality(Users)
    BY MaxUploadsAssumption, UsersAssumption, FS_CardinalityType
  <2>3. NoExec \in ExecRows
    BY <2>1, <2>2 DEF NoExec, ExecRows, OptionalDates, Sources
  <2>4. \A u \in Ids \ L : Migrated[u] = NoExec
    BY <1>2 DEF Migrated
  <2>5. \A u \in Ids : Migrated[u] \in ExecRows
    BY <1>5, <2>3, <2>4
  <2> QED BY <2>5 DEF Migrated
<1>7. /\ exec = [u \in Ids |->
                  Renumbered(upload[u].account,
                             HistoryOf(upload[u].account, Completed, Migrated),
                             Migrated)[u]]
      /\ changes = Unclassified(
           UNION {Changes(HistoryOf(a, Completed, Migrated)) : a \in Accounts})
  BY Zenon DEF Init, Migrated, Unclassified
<1> QED BY <1>2, <1>3, <1>4, <1>5, <1>6, <1>7

\* The migrations leave every history rebuilt, its departures unclassified.
LEMMA InitRebuilds == Init => AllRebuilt
<1> SUFFICES ASSUME Init PROVE AllRebuilt
  OBVIOUS
<1> DEFINE T(a) == HistoryOf(a, Completed, Migrated)
<1>1. Completed \subseteq Ids /\ Migrated \in [Ids -> ExecRows]
  BY InitMigrates
<1>2. /\ exec = [u \in Ids |-> Renumbered(upload[u].account, T(upload[u].account), Migrated)[u]]
      /\ changes = Unclassified(UNION {Changes(T(a)) : a \in Accounts})
  BY InitMigrates, Zenon
<1>3. ASSUME NEW a
      PROVE  IsHistory(T(a)) /\ DOMAIN T(a) = {u \in Completed : upload[u].account = a}
  <2>1. \A u \in Ids : Migrated[u].lists \in RecordedLists
    BY <1>1 DEF ExecRows
  <2> QED BY <1>1, <2>1 DEF IsHistory, HistoryOf
<1> HIDE DEF T
<1>4. ASSUME NEW a \in Accounts PROVE Rebuilt(a)
  <2>1. ASSUME NEW u \in Ids, upload[u].account = a
        PROVE  exec[u] = Renumbered(a, T(a), Migrated)[u]
    BY <1>2, <2>1, Zenon
  <2>2. History(a) = T(a)
    <3>1. ASSUME NEW u \in Completed, upload[u].account = a
          PROVE  exec[u].lists = Migrated[u].lists /\ exec[u].takenAt = Migrated[u].takenAt
      <4>1. PICK R : R = Renumbered(a, T(a), Migrated)
        OBVIOUS
      <4>2. PICK S : S = T(a) /\ IsHistory(S)
        BY <1>3
      <4>3. \A v \in Ids : /\ Renumbered(a, S, Migrated)[v].lists = Migrated[v].lists
                           /\ Renumbered(a, S, Migrated)[v].takenAt = Migrated[v].takenAt
        BY <1>1, <4>2, RenumberedKeeps
      <4> QED BY <1>1, <2>1, <3>1, <4>1, <4>2, <4>3
    <3> QED BY <3>1 DEF History, HistoryOf, T
  <2>3. IsNumbered(T(a), exec)
    <3>1. DOMAIN T(a) \subseteq Ids
      BY <1>1, <1>3
    <3>2. ASSUME NEW u \in DOMAIN T(a)
          PROVE  /\ exec[u].sequenceNo = SequenceNo(T(a))[u]
                 /\ exec[u].followerCount = Cardinality(Members(T(a)[u].lists, "followers"))
      <4>1. u \in Ids /\ upload[u].account = a
        BY <1>1, <1>3
      <4>2. /\ Renumbered(a, T(a), Migrated)[u].sequenceNo = SequenceNo(T(a))[u]
            /\ Renumbered(a, T(a), Migrated)[u].followerCount
                 = Cardinality(Members(T(a)[u].lists, "followers"))
        BY <1>1, <3>1, <4>1, RenumberedNumbers
      <4> QED BY <2>1, <4>1, <4>2
    <3> QED BY <3>2 DEF IsNumbered
  <2>4. RowsOf(a) = Unclassified(Changes(T(a)))
    <3>1. ASSUME NEW b \in Accounts, NEW c \in Changes(T(b)), NEW d,
                 d = [c EXCEPT !.reason = NoReason, !.renamedTo = Nobody,
                               !.renamedFrom = Nobody]
          PROVE  upload[d.upload].account = b
      <4>1. c \in ChangeRows /\ c.upload \in DOMAIN T(b)
        BY <1>3, ChangesTyped
      <4>2. d.upload = c.upload
        BY <3>1, <4>1, UnclassifiedTyped
      <4> QED BY <1>3, <4>1, <4>2
    <3>2. ASSUME NEW d \in changes, upload[d.upload].account = a
          PROVE  d \in Unclassified(Changes(T(a)))
      <4>1. PICK c \in UNION {Changes(T(b)) : b \in Accounts} :
              d = [c EXCEPT !.reason = NoReason, !.renamedTo = Nobody,
                            !.renamedFrom = Nobody]
        BY <1>2, Zenon DEF Unclassified
      <4>2. PICK b \in Accounts : c \in Changes(T(b))
        OBVIOUS
      <4>3. b = a
        BY <3>1, <3>2, <4>1, <4>2
      <4> QED BY <4>1, <4>2, <4>3 DEF Unclassified
    <3>3. ASSUME NEW d \in Unclassified(Changes(T(a)))
          PROVE  d \in changes /\ upload[d.upload].account = a
      <4>1. PICK c \in Changes(T(a)) :
              d = [c EXCEPT !.reason = NoReason, !.renamedTo = Nobody,
                            !.renamedFrom = Nobody]
        BY DEF Unclassified
      <4> QED BY <1>2, <3>1, <4>1 DEF Unclassified
    <3> QED BY <3>2, <3>3 DEF RowsOf
  <2> QED BY <2>2, <2>3, <2>4 DEF Rebuilt
<1> QED BY <1>4 DEF AllRebuilt

LEMMA RebuiltInvariant == Spec => [](IInv /\ AllRebuilt)
<1>1. Init => IInv /\ AllRebuilt
  BY InitKeeps, InitRebuilds
<1>2. IInv /\ AllRebuilt /\ [Next]_vars => (IInv /\ AllRebuilt)'
  BY NextKeeps, NextRebuilds
<1> QED BY <1>1, <1>2, PTL DEF Spec

-----------------------------------------------------------------------------
(* What a reader of the history may rely on *)

\* A history as it stands, and what is known of it in every reachable state.
LEMMA HistoryKnown ==
  ASSUME IInv, NEW a
  PROVE  /\ DOMAIN History(a) = {u \in Completed : upload[u].account = a}
         /\ \A u \in DOMAIN History(a) : History(a)[u].lists = exec[u].lists
         /\ IsDated(History(a))
<1>1. DOMAIN History(a) = {u \in Completed : upload[u].account = a}
  BY DEF History, HistoryOf
<1>2. \A u \in DOMAIN History(a) : /\ History(a)[u].lists = exec[u].lists
                                  /\ History(a)[u].takenAt = exec[u].takenAt
                                  /\ History(a)[u].uploadedAt = upload[u].uploadedAt
  BY DEF History, HistoryOf
<1>3. DOMAIN History(a) \in SUBSET Ids
  BY <1>1 DEF Completed
<1>4. IsFiniteSet(DOMAIN History(a))
  <2>1. IsFiniteSet(Ids)
    BY MaxUploadsAssumption, FS_Interval DEF Ids
  <2> QED BY <1>3, <2>1, FS_Subset
<1>5. \A u \in DOMAIN History(a) : exec[u].takenAt \in Int /\ upload[u].uploadedAt \in Int
  <2> SUFFICES ASSUME NEW u \in DOMAIN History(a)
               PROVE  exec[u].takenAt \in Int /\ upload[u].uploadedAt \in Int
    OBVIOUS
  <2>1. u \in Existing
    BY <1>1 DEF Completed, Existing
  <2>2. upload[u].uploadedAt \in Dates
    BY <2>1 DEF IInv, KnownUploads, Request
  <2>3. exec[u].takenAt \in OptionalDates
    BY <1>3 DEF IInv, TypeOK, ExecRows
  <2>4. Dates \subseteq Int /\ OptionalDates \subseteq Int
    BY DatesAssumption DEF OptionalDates, NoDate
  <2> QED BY <2>2, <2>3, <2>4
<1>6. DOMAIN History(a) \subseteq Int
  BY <1>3 DEF Ids
<1> QED BY <1>1, <1>2, <1>4, <1>5, <1>6 DEF IsDated

\* A rebuilt history: its pairs of neighbours are the executions with
\* consecutive numbers, and its rows are its log.
IsRebuilt(T, a) ==
  /\ DOMAIN T = {u \in Completed : upload[u].account = a}
  /\ \A u \in DOMAIN T : T[u].lists = exec[u].lists
  /\ \A u, v \in DOMAIN T :
       <<u, v>> \in Neighbours(T) <=> exec[v].sequenceNo = exec[u].sequenceNo + 1
  /\ Neighbours(T) \subseteq (DOMAIN T) \X (DOMAIN T)
  /\ IsLogOf(RowsOf(a), T)

LEMMA RebuiltKnown ==
  ASSUME IInv, AllRebuilt, NEW a \in Accounts
  PROVE  IsRebuilt(History(a), a)
<1>1. PICK T : T = History(a)
  OBVIOUS
<1>2. \A u \in DOMAIN T : exec[u].sequenceNo = SequenceNo(T)[u]
  BY <1>1 DEF AllRebuilt, Rebuilt, IsNumbered
<1>3. IsLogOf(RowsOf(a), T)
  <2>1. RowsOf(a) = Changes(T) \/ RowsOf(a) = Unclassified(Changes(T))
    BY <1>1 DEF AllRebuilt, Rebuilt
  <2>2. IsHistory(T)
    BY <1>1, HistoryOfIsHistory DEF History, IInv, TypeOK, Completed
  <2>3. Changes(T) \in SUBSET ChangeRows
    BY <2>2, ChangesTyped
  <2> QED BY <2>1, <2>3, ChangesAreLog, UnclassifiedIsLog DEF Unclassified
<1>4. /\ DOMAIN T = {u \in Completed : upload[u].account = a}
      /\ \A u \in DOMAIN T : T[u].lists = exec[u].lists
  BY <1>1, HistoryKnown
<1>5. /\ \A u, v \in DOMAIN T :
           <<u, v>> \in Neighbours(T) <=> exec[v].sequenceNo = exec[u].sequenceNo + 1
      /\ Neighbours(T) \subseteq (DOMAIN T) \X (DOMAIN T)
  BY <1>2 DEF Neighbours
<1> QED BY <1>1, <1>3, <1>4, <1>5 DEF IsRebuilt

\* recomputeAccount numbers an account's executions 1, 2, ... in the order of
\* the dates they carry, and every transaction that changes an order ends in
\* it: for any number of uploads, in any order, through any failure.
THEOREM NumbersFollowDates == Spec => []HistoryInDateOrder
<1>1. ASSUME IInv, AllRebuilt PROVE HistoryInDateOrder
  <2> SUFFICES ASSUME NEW a \in Accounts, NEW T, T = History(a)
               PROVE  /\ {exec[u].sequenceNo : u \in DOMAIN T} = 1..Cardinality(DOMAIN T)
                      /\ \A u, v \in DOMAIN T :
                           Precedes(T, u, v) => exec[u].sequenceNo < exec[v].sequenceNo
    BY DEF HistoryInDateOrder
  <2>1. IsDated(T)
    BY <1>1, HistoryKnown
  <2>2. \A u \in DOMAIN T : exec[u].sequenceNo = SequenceNo(T)[u]
    BY <1>1 DEF AllRebuilt, Rebuilt, IsNumbered
  <2>3. {exec[u].sequenceNo : u \in DOMAIN T} = {SequenceNo(T)[u] : u \in DOMAIN T}
    BY <2>2
  <2> QED BY <2>1, <2>2, <2>3, Ranking
<1> QED BY <1>1, RebuiltInvariant, PTL

\* Between two neighbours of a history the change log says exactly who came and
\* who left each list both carried, and it says nothing else: applying it to a
\* list gives the next one.
THEOREM LogReplays == Spec => []ChangesReplay
<1>1. ASSUME IInv, AllRebuilt PROVE ChangesReplay
  <2>1. ASSUME NEW u \in Completed
        PROVE  u \in Ids /\ upload[u].account \in Accounts
    BY <1>1 DEF IInv, KnownUploads, Request, Completed, Existing
  <2>2. ASSUME NEW u \in Completed, NEW v \in Completed,
               upload[u].account = upload[v].account,
               exec[v].sequenceNo = exec[u].sequenceNo + 1,
               NEW kind \in Shared(exec[u].lists, exec[v].lists)
        PROVE  /\ ChangedBy(u, v, kind, "followed") =
                     Arrived(exec[u].lists, exec[v].lists, kind)
               /\ ChangedBy(u, v, kind, "unfollowed") =
                     Departed(exec[u].lists, exec[v].lists, kind)
    <3>1. PICK a, T : a \in Accounts /\ a = upload[u].account /\ IsRebuilt(T, a)
      BY <1>1, <2>1, RebuiltKnown
    <3>2. /\ upload[v].account = a
          /\ u \in DOMAIN T /\ v \in DOMAIN T
          /\ T[u].lists = exec[u].lists /\ T[v].lists = exec[v].lists
          /\ <<u, v>> \in Neighbours(T) /\ IsLogOf(RowsOf(a), T)
      BY <2>2, <3>1 DEF IsRebuilt
    <3>3. PICK prev, last : prev = exec[u].lists /\ last = exec[v].lists
      OBVIOUS
    <3>4. /\ \A x \in Arrived(prev, last, kind) :
               \E c \in RowsOf(a) : Says(c, <<u, v>>, kind, "followed", x)
          /\ \A x \in Departed(prev, last, kind) :
               \E c \in RowsOf(a) : Says(c, <<u, v>>, kind, "unfollowed", x)
      BY <2>2, <3>2, <3>3 DEF IsLogOf
    <3>5. \A c \in changes : c.prev = u /\ c.upload = v => IsTrue(c, prev, last)
      BY <3>2, <3>3 DEF IsLogOf, RowsOf
    <3>6. ASSUME NEW x
          PROVE  /\ x \in ChangedBy(u, v, kind, "followed")
                     <=> \E c \in changes : Says(c, <<u, v>>, kind, "followed", x)
                 /\ x \in ChangedBy(u, v, kind, "unfollowed")
                     <=> \E c \in changes : Says(c, <<u, v>>, kind, "unfollowed", x)
      BY DEF ChangedBy, Says
    <3>7. ASSUME NEW c \in changes, NEW type, NEW x, Says(c, <<u, v>>, kind, type, x)
          PROVE  /\ type = "followed" => x \in Arrived(prev, last, kind)
                 /\ type = "unfollowed" => x \in Departed(prev, last, kind)
      BY <3>5, <3>7 DEF Says, IsTrue
    <3>8. RowsOf(a) \subseteq changes
      BY DEF RowsOf
    <3>9. ChangedBy(u, v, kind, "followed") = Arrived(prev, last, kind)
      BY <3>4, <3>6, <3>7, <3>8
    <3>10. ChangedBy(u, v, kind, "unfollowed") = Departed(prev, last, kind)
      BY <3>4, <3>6, <3>7, <3>8
    <3> QED BY <3>3, <3>9, <3>10
  <2>3. ASSUME NEW c \in changes
        PROVE  /\ {c.prev, c.upload} \subseteq Completed
               /\ upload[c.prev].account = upload[c.upload].account
               /\ exec[c.upload].sequenceNo = exec[c.prev].sequenceNo + 1
               /\ c.list \in Shared(exec[c.prev].lists, exec[c.upload].lists)
    <3>1. c.upload \in Completed
      BY <1>1 DEF IInv, TypeOK, ChangeRows, OnlyCompletedCount
    <3>2. PICK a, T : a \in Accounts /\ a = upload[c.upload].account /\ IsRebuilt(T, a)
      BY <1>1, <2>1, <3>1, RebuiltKnown
    <3>3. c \in RowsOf(a)
      BY <3>2 DEF RowsOf
    <3>4. /\ <<c.prev, c.upload>> \in Neighbours(T)
          /\ c.list \in Shared(T[c.prev].lists, T[c.upload].lists)
      BY <3>2, <3>3 DEF IsRebuilt, IsLogOf, IsTrue
    <3>5. c.prev \in DOMAIN T /\ c.upload \in DOMAIN T
      BY <3>2, <3>4 DEF IsRebuilt
    <3> QED BY <3>2, <3>4, <3>5 DEF IsRebuilt
  <2>4. ASSUME NEW u \in Completed, NEW v \in Completed,
               upload[u].account = upload[v].account,
               exec[v].sequenceNo = exec[u].sequenceNo + 1,
               NEW kind \in Shared(exec[u].lists, exec[v].lists)
        PROVE  LET before == Members(exec[u].lists, kind)
                   after  == Members(exec[v].lists, kind)
                   came   == ChangedBy(u, v, kind, "followed")
                   left   == ChangedBy(u, v, kind, "unfollowed")
               IN  /\ left \subseteq before
                   /\ came \cap before = {}
                   /\ after = (before \ left) \cup came
    <3>1. PICK before, after, came, left :
            /\ before = Members(exec[u].lists, kind)
            /\ after = Members(exec[v].lists, kind)
            /\ came = ChangedBy(u, v, kind, "followed")
            /\ left = ChangedBy(u, v, kind, "unfollowed")
      OBVIOUS
    <3>2. came = after \ before /\ left = before \ after
      BY <2>2, <2>4, <3>1 DEF Arrived, Departed
    <3> QED BY <3>1, <3>2
  <2> QED BY <2>3, <2>4 DEF ChangesReplay
<1> QED BY <1>1, RebuiltInvariant, PTL

-----------------------------------------------------------------------------
(* The dates executions carry *)

IsBestDated(u) ==
  LET date == ResolveSnapshotDate(upload[u])
  IN  exec[u].takenAt = date.at /\ exec[u].source = date.source

\* What is still dated by when it was processed was uploaded before a date
\* could be typed in, and the backfill only holds such executions.
Dated ==
  /\ \A u \in Completed : IF exec[u].source = "processing order"
                             THEN upload[u].manual = NoDate
                             ELSE IsBestDated(u)
  /\ \A u \in backlog : u \in Completed /\ exec[u].source = "processing order"
  /\ backlog # {} => pc = "backfill"

\* A rebuild after one row has been written leaves that row its new date and the
\* others theirs.
LEMMA RebuildDates ==
  ASSUME IInv, Dated, NEW u \in Existing, NEW a, a = upload[u].account,
         NEW done, done = Completed \cup {u}, NEW ex \in [Ids -> ExecRows],
         \A v \in Ids \ {u} : ex[v] = exec[v],
         ex[u].takenAt = ResolveSnapshotDate(upload[u]).at,
         ex[u].source = ResolveSnapshotDate(upload[u]).source,
         RecomputeAccount(a, done, ex),
         UNCHANGED upload, Completed' = done,
         backlog' \subseteq backlog \ {u}, backlog' # {} => pc' = "backfill"
  PROVE  Dated'
<1>1. /\ u \in Ids /\ done \in SUBSET Ids
      /\ exec \in [Ids -> ExecRows] /\ changes \subseteq ChangeRows
  BY DEF IInv, TypeOK, Existing, Completed
<1>2. Recomputed(a, done, ex)
  BY <1>1, RecomputeAccountKeeps
<1>3. \A v \in Ids : exec'[v].takenAt = ex[v].takenAt /\ exec'[v].source = ex[v].source
  BY <1>2 DEF Recomputed
<1>4. IsBestDated(u)' /\ exec'[u].source # "processing order"
  <2>1. ResolveSnapshotDate(upload[u]).source # "processing order"
    BY DEF ResolveSnapshotDate
  <2>2. IsBestDated(u)'
    BY <1>1, <1>3 DEF IsBestDated
  <2> QED BY <1>1, <1>3, <2>1, <2>2
<1>5. ASSUME NEW v \in Completed, v # u
      PROVE  /\ exec'[v].takenAt = exec[v].takenAt /\ exec'[v].source = exec[v].source
             /\ IsBestDated(v) => IsBestDated(v)'
  <2>1. exec'[v].takenAt = exec[v].takenAt /\ exec'[v].source = exec[v].source
    BY <1>1, <1>3, <1>5 DEF Completed
  <2> QED BY <2>1 DEF IsBestDated
<1>6. ASSUME NEW v \in Completed'
      PROVE  IF exec'[v].source = "processing order"
               THEN upload'[v].manual = NoDate ELSE IsBestDated(v)'
  <2>1. CASE v = u
    BY <1>4, <2>1
  <2>2. CASE v # u
    <3>1. v \in Completed
      BY <1>6, <2>2
    <3> QED BY <1>5, <2>2, <3>1 DEF Dated
  <2> QED BY <2>1, <2>2
<1>7. \A v \in backlog' : v \in Completed' /\ exec'[v].source = "processing order"
  <2> SUFFICES ASSUME NEW v \in backlog'
               PROVE  v \in Completed' /\ exec'[v].source = "processing order"
    OBVIOUS
  <2>1. v \in Completed /\ v # u /\ exec[v].source = "processing order"
    BY DEF Dated
  <2> QED BY <1>5, <2>1
<1> QED BY <1>6, <1>7 DEF Dated

LEMMA ApplySnapshotDates ==
  ASSUME IInv, Dated, NEW u \in Existing, ApplySnapshot(u),
         UNCHANGED <<upload, backlog>>, pc # "backfill"
  PROVE  Dated'
<1>1. /\ u \in Ids /\ upload[u] \in Request /\ exec \in [Ids -> ExecRows]
  BY DEF IInv, TypeOK, KnownUploads, Existing
<1>2. PICK lists \in RecordedLists, at \in OptionalDates, source \in Sources :
        /\ lists = upload[u].export.lists
        /\ at = ResolveSnapshotDate(upload[u]).at
        /\ source = ResolveSnapshotDate(upload[u]).source
  BY <1>1, DatesTyped DEF OptionalDates
<1>3. PICK a, done, ex :
        /\ a = upload[u].account /\ done = Completed \cup {u}
        /\ ex = Rewrite(u, lists, at, source)
        /\ RecomputeAccount(a, done, ex)
  BY <1>2, Zenon DEF ApplySnapshot, Rewrite
<1>4. /\ ex \in [Ids -> ExecRows]
      /\ \A v \in Ids \ {u} : ex[v] = exec[v]
  BY <1>1, <1>3, RewriteTyped
<1>5. ex[u].takenAt = at /\ ex[u].source = source
  BY <1>1, <1>3 DEF Rewrite, ExecRows
<1>6. Completed' = done
  BY <1>1, <1>3 DEF ApplySnapshot, Completed, IInv, TypeOK
<1>7. backlog' = {}
  BY DEF Dated
<1> QED BY <1>2, <1>3, <1>4, <1>5, <1>6, <1>7, RebuildDates

LEMMA SetSnapshotDateDates ==
  ASSUME IInv, Dated, SetSnapshotDate
  PROVE  Dated'
<1>1. TypeOK /\ backlog \subseteq Completed /\ Completed \subseteq Existing /\ Existing \subseteq Ids
  BY DEF IInv, BacklogInHistory, Completed, Existing
<1>2. PICK u \in Existing : u = NextInBacklog /\ u \in backlog
  BY <1>1, NextInBacklogChosen DEF SetSnapshotDate
<1>3. upload[u] \in Request /\ exec \in [Ids -> ExecRows]
  BY <1>2 DEF IInv, KnownUploads, TypeOK
<1>4. PICK at \in OptionalDates, source \in Sources :
        at = DetectedDate(upload[u]).at /\ source = DetectedDate(upload[u]).source
  BY <1>3, DatesTyped
<1>5. PICK a, done, ex :
        /\ a = upload[u].account /\ done = Completed
        /\ ex = [exec EXCEPT ![u].takenAt = at, ![u].source = source]
        /\ RecomputeAccount(a, done, ex)
  BY <1>2, <1>4, Zenon DEF SetSnapshotDate
<1>6. /\ ex \in [Ids -> ExecRows]
      /\ \A v \in Ids \ {u} : ex[v] = exec[v]
      /\ ex[u].takenAt = at /\ ex[u].source = source
  <2>1. PICK row : row = [exec[u] EXCEPT !.takenAt = at, !.source = source]
    OBVIOUS
  <2>2. row \in ExecRows /\ row.takenAt = at /\ row.source = source
    BY <1>1, <1>3, <2>1 DEF ExecRows
  <2>3. ex = [exec EXCEPT ![u] = row]
    BY <1>5, <2>1
  <2> QED BY <1>1, <1>3, <2>2, <2>3
<1>7. at = ResolveSnapshotDate(upload[u]).at /\ source = ResolveSnapshotDate(upload[u]).source
  <2>1. upload[u].manual = NoDate
    BY <1>2 DEF Dated
  <2>2. DetectsDate(upload[u])
    BY <1>2 DEF SetSnapshotDate
  <2> QED BY <1>4, <2>1, <2>2 DEF DetectsDate, DetectedDate, ResolveSnapshotDate
<1>8. done = Completed \cup {u}
  BY <1>1, <1>2, <1>5
<1>9. /\ UNCHANGED upload /\ Completed' = done
      /\ backlog' = backlog \ {u} /\ pc' = "backfill"
  BY <1>2, <1>5 DEF SetSnapshotDate, Completed
<1> QED BY <1>5, <1>6, <1>7, <1>8, <1>9, RebuildDates

\* The other steps date nothing, and only the query of the backfill adds to it.
LEMMA OthersKeepBacklog ==
  ASSUME Next, ~Rewrites, backlog # {} => pc = "backfill"
  PROVE  /\ \/ backlog' \subseteq backlog
            \/ backlog' = {u \in Completed : exec[u].source = "processing order"}
         /\ backlog' # {} => pc' = "backfill"
<1> USE DEF running, Goto, stored
<1>1. CASE \E u \in Ids, r \in Requests : CreateUpload(u, r)
  BY <1>1 DEF CreateUpload
<1>2. CASE \E a \in Accounts, t \in RereadTimes : MarkForReprocess(a, t)
  BY <1>2 DEF MarkForReprocess
<1>3. CASE RequeueProcessing
  BY <1>3 DEF RequeueProcessing
<1>4. CASE \E u \in Ids : ClaimNextPending(u)
  BY <1>4 DEF ClaimNextPending
<1>5. CASE Remove
  BY <1>5 DEF Remove
<1>6. CASE FailUpload
  BY <1>6 DEF FailUpload
<1>7. CASE FinishReprocess
  BY <1>7 DEF FinishReprocess
<1>8. CASE Quiet
  BY <1>8 DEF Quiet, Start, Shutdown, Exit, RequeueFails,
     UploadsWithUnknownSnapshotDate, LookbackFails, SkipInBacklog, BackfillEnds,
     NothingPending, ClaimFails, Admit, Refuse, Unreadable, LookupFails,
     ApplyFails, FailUploadFails, ClaimNextReprocess, NothingFlagged,
     ClaimReprocessFails, RereadFails, FinishFails, Wake, Return
<1> QED BY <1>1, <1>2, <1>3, <1>4, <1>5, <1>6, <1>7, <1>8
        DEF Next, Worker, Quiet, Rewrites

LEMMA SameHistorySameDates ==
  ASSUME IInv, Dated, UNCHANGED exec,
         Completed' = Completed, \A u \in Existing : upload'[u] = upload[u],
         \/ backlog' \subseteq backlog
         \/ backlog' = {u \in Completed : exec[u].source = "processing order"},
         backlog' # {} => pc' = "backfill"
  PROVE  Dated'
<1>1. \A u \in Completed : upload'[u] = upload[u] /\ (IsBestDated(u) => IsBestDated(u)')
  BY DEF Completed, Existing, IsBestDated
<1> QED BY <1>1 DEF Dated

LEMMA NextDates == IInv /\ Dated /\ [Next]_vars => Dated'
<1> SUFFICES ASSUME IInv, Dated, [Next]_vars PROVE Dated'
  OBVIOUS
<1>1. CASE Next /\ ~Rewrites
  <2>1. /\ UNCHANGED exec /\ Completed' = Completed
        /\ \A u \in Existing : upload'[u] = upload[u]
    BY <1>1, OthersRewriteNothing, OthersKeepHistory
  <2>2. /\ \/ backlog' \subseteq backlog
           \/ backlog' = {u \in Completed : exec[u].source = "processing order"}
        /\ backlog' # {} => pc' = "backfill"
    BY <1>1, OthersKeepBacklog DEF Dated
  <2> QED BY <2>1, <2>2, SameHistorySameDates
<1>2. CASE SetSnapshotDate
  BY <1>2, SetSnapshotDateDates
<1>3. CASE Apply \/ Reread
  <2>1. PICK u \in Existing : u = cur
    BY <1>3 DEF IInv, ClaimHeld, Apply, Reread, Existing, Completed
  <2>2. ApplySnapshot(u) /\ UNCHANGED <<upload, backlog>> /\ pc # "backfill"
    BY <1>3, <2>1 DEF Apply, Reread
  <2> QED BY <2>2, ApplySnapshotDates
<1>4. CASE UNCHANGED vars
  <2>1. UNCHANGED <<exec, upload, backlog, pc>> /\ Completed' = Completed
    BY <1>4 DEF vars, stored, running, Completed
  <2> QED BY <2>1, SameHistorySameDates DEF Dated
<1> QED BY <1>1, <1>2, <1>3, <1>4 DEF Rewrites

LEMMA InitDates == Init => Dated
<1> SUFFICES ASSUME Init PROVE Dated
  OBVIOUS
<1>1. /\ Completed \subseteq Ids /\ Migrated \in [Ids -> ExecRows]
      /\ \A u \in Completed : /\ upload[u].manual = NoDate
                              /\ Migrated[u].source = "processing order"
  BY InitMigrates
<1>2. ASSUME NEW u \in Completed PROVE exec[u].source = "processing order"
  <2>1. PICK a, T : a = upload[u].account /\ T = HistoryOf(a, Completed, Migrated)
    OBVIOUS
  <2>2. exec[u] = Renumbered(a, T, Migrated)[u]
    BY <1>1, <2>1, InitMigrates
  <2>3. IsHistory(T)
    <3>1. \A v \in Ids : Migrated[v].lists \in RecordedLists
      BY <1>1 DEF ExecRows
    <3> QED BY <1>1, <2>1, <3>1 DEF IsHistory, HistoryOf
  <2>4. PICK ex \in [Ids -> ExecRows] : ex = Migrated
    BY <1>1
  <2>5. \A v \in Ids : Renumbered(a, T, ex)[v].source = ex[v].source
    BY <2>3, RenumberedKeeps
  <2> QED BY <1>1, <2>2, <2>4, <2>5
<1>3. backlog = {}
  BY DEF Init
<1> QED BY <1>1, <1>2, <1>3 DEF Dated

\* ResolveSnapshotDate and the backfill agree: once an execution is dated by any
\* evidence, it is by the strongest its upload holds, and no start or reread
\* displaces a date typed in by hand.
THEOREM BestEvidenceDates == Spec => []DatesAreBestEvidence
<1>1. Init => IInv /\ Dated
  BY InitKeeps, InitDates
<1>2. IInv /\ Dated /\ [Next]_vars => (IInv /\ Dated)'
  BY NextKeeps, NextDates
<1>3. IInv /\ Dated => DatesAreBestEvidence
  BY DEF Dated, DatesAreBestEvidence, IsBestDated
<1> QED BY <1>1, <1>2, <1>3, PTL DEF Spec

-----------------------------------------------------------------------------
(* The guard *)

\* The verdict of checkCoverage, reached in one transaction, is still the
\* verdict when the next one acts on it: only the worker adds to a history.
Judged == pc = "apply" => Coverage(upload[cur], Previous(cur))

\* A request that comes in between is for another row.
LEMMA RequestsKeepVerdict ==
  ASSUME IInv, Judged, pc = "apply", UNCHANGED <<cur, exec>>,
         Completed' = Completed, \A u \in Existing : upload'[u] = upload[u]
  PROVE  Coverage(upload[cur], Previous(cur))'
<1>1. cur \in Existing /\ Completed \subseteq Existing
  BY DEF IInv, ClaimHeld, Existing, Completed
<1>2. upload'[cur] = upload[cur] /\ cur' = cur
  BY <1>1
<1>3. PICK a, done : a = upload[cur].account /\ done = Completed \ {cur}
  OBVIOUS
<1>4. HistoryOf(a, done, exec)' = HistoryOf(a, done, exec)
  <2>1. {u \in done : upload'[u].account = a} = {u \in done : upload[u].account = a}
    BY <1>1, <1>3
  <2> QED BY <1>1, <1>3, <2>1 DEF HistoryOf
<1>5. Previous(cur)' = Previous(cur)
  BY <1>2, <1>3, <1>4 DEF Previous
<1> QED BY <1>2, <1>5 DEF Judged, Coverage

LEMMA NextJudges == IInv /\ Judged /\ [Next]_vars => Judged'
<1> SUFFICES ASSUME IInv, Judged, [Next]_vars, pc' = "apply"
             PROVE  Coverage(upload[cur], Previous(cur))'
  BY DEF Judged
<1>1. CASE Admit
  <2>1. Coverage(upload[cur], Previous(cur)) /\ UNCHANGED <<stored, cur>>
    BY <1>1 DEF Admit, Goto
  <2> QED BY <2>1 DEF stored, Coverage, Previous, HistoryOf, Completed
<1>2. CASE UNCHANGED vars
  BY <1>2, RequestsKeepVerdict DEF vars, stored, running, Completed
<1>3. CASE Next /\ ~Admit
  <2>1. pc = "apply" /\ cur' = cur /\ ~Rewrites
    BY <1>3 DEF Next, Worker, Rewrites, Goto, CreateUpload, MarkForReprocess, Start, Shutdown, Exit,
       RequeueProcessing, RequeueFails, UploadsWithUnknownSnapshotDate, LookbackFails,
       SetSnapshotDate, SkipInBacklog, BackfillEnds, ClaimNextPending, NothingPending,
       ClaimFails, Refuse, Unreadable, LookupFails, Apply, ApplyFails, Remove, FailUpload,
       FailUploadFails, ClaimNextReprocess, NothingFlagged, ClaimReprocessFails, Reread,
       RereadFails, FinishReprocess, FinishFails, Wake, Return, running
  <2> QED BY <1>3, <2>1, OthersRewriteNothing, OthersKeepHistory, RequestsKeepVerdict
<1> QED BY <1>1, <1>2, <1>3

\* An upload enters a history in one way only.
LEMMA OnlyApplyEnters ==
  ASSUME IInv, Next, NEW v \in Ids, Enters(v)
  PROVE  Apply /\ v = cur
<1>1. ASSUME ~Rewrites PROVE FALSE
  BY <1>1, OthersKeepHistory DEF Completed, Enters
<1>2. ASSUME SetSnapshotDate PROVE FALSE
  BY <1>2 DEF SetSnapshotDate, Enters
<1>3. CASE Apply \/ Reread
  <2>1. cur \in Ids /\ status' = [status EXCEPT ![cur] = "completed"]
    BY <1>3 DEF Apply, Reread, ApplySnapshot, IInv, ClaimHeld, Completed
  <2>2. v = cur
    BY <2>1 DEF IInv, TypeOK, Enters
  <2>3. ~Reread
    BY <2>2 DEF Reread, Enters, IInv, ClaimHeld, Completed
  <2> QED BY <1>3, <2>2, <2>3
<1> QED BY <1>1, <1>2, <1>3 DEF Rewrites

\* In a history numbered by date, whoever comes directly before v precedes it,
\* and everybody else who precedes v precedes them.
LEMMA DirectlyBefore ==
  ASSUME NEW T, IsDated(T), NEW u \in DOMAIN T, NEW v \in DOMAIN T,
         SequenceNo(T)[v] = SequenceNo(T)[u] + 1
  PROVE  /\ Precedes(T, u, v)
         /\ \A w \in DOMAIN T : Precedes(T, w, v) => w = u \/ Precedes(T, w, u)
<1> DEFINE n(x) == SequenceNo(T)[x]
<1>1. \A x \in DOMAIN T : n(x) \in Nat
  BY Ranking
<1>2. \A x, y \in DOMAIN T : Precedes(T, x, y) => n(x) < n(y)
  BY Ranking
<1>3. \A x, y \in DOMAIN T : x = y \/ Precedes(T, x, y) \/ Precedes(T, y, x)
  BY PrecedesIsAnOrder
<1>4. n(v) = n(u) + 1
  OBVIOUS
<1> HIDE DEF n
<1>5. Precedes(T, u, v)
  BY <1>1, <1>2, <1>3, <1>4
<1>6. ASSUME NEW w \in DOMAIN T, Precedes(T, w, v), w # u PROVE Precedes(T, w, u)
  <2>1. n(w) < n(v) /\ n(u) \in Nat /\ n(w) \in Nat
    BY <1>1, <1>2, <1>6
  <2>2. ~(n(u) < n(w))
    BY <1>4, <2>1
  <2> QED BY <1>2, <1>3, <1>6, <2>2
<1> QED BY <1>5, <1>6

\* A history whose executions and uploads carry dates is in some order.
LEMMA HistoryIsDated ==
  ASSUME NEW a, NEW done \in SUBSET Ids, NEW ex \in [Ids -> ExecRows],
         \A u \in done : upload[u].uploadedAt \in Dates
  PROVE  IsDated(HistoryOf(a, done, ex))
<1>1. PICK T : T = HistoryOf(a, done, ex)
  OBVIOUS
<1>2. /\ DOMAIN T \in SUBSET Ids
      /\ \A u \in DOMAIN T : /\ u \in done /\ T[u].takenAt = ex[u].takenAt
                             /\ T[u].uploadedAt = upload[u].uploadedAt
  BY <1>1 DEF HistoryOf
<1>3. IsFiniteSet(DOMAIN T)
  <2>1. IsFiniteSet(Ids)
    BY MaxUploadsAssumption, FS_Interval DEF Ids
  <2> QED BY <1>2, <2>1, FS_Subset
<1>4. Dates \subseteq Int /\ OptionalDates \subseteq Int /\ Ids \subseteq Int
  BY DatesAssumption DEF OptionalDates, NoDate, Ids
<1>5. \A u \in DOMAIN T : ex[u].takenAt \in OptionalDates
  BY <1>2 DEF ExecRows
<1> QED BY <1>1, <1>2, <1>3, <1>4, <1>5 DEF IsDated

\* ApplySnapshot writes one row, and leaves every other its lists and its date.
LEMMA ApplyWritesOneRow ==
  ASSUME IInv, NEW u \in Existing, ApplySnapshot(u)
  PROVE  /\ exec'[u].lists = upload[u].export.lists
         /\ exec'[u].takenAt = ResolveSnapshotDate(upload[u]).at
         /\ \A v \in Ids \ {u} : /\ exec'[v].lists = exec[v].lists
                                 /\ exec'[v].takenAt = exec[v].takenAt
<1>1. /\ u \in Ids /\ upload[u] \in Request /\ exec \in [Ids -> ExecRows]
      /\ Completed \cup {u} \in SUBSET Ids /\ changes \subseteq ChangeRows
  BY DEF IInv, TypeOK, KnownUploads, Existing, Completed
<1>2. PICK lists \in RecordedLists, at \in OptionalDates, source \in Sources :
        /\ lists = upload[u].export.lists
        /\ at = ResolveSnapshotDate(upload[u]).at
        /\ source = ResolveSnapshotDate(upload[u]).source
  BY <1>1, DatesTyped DEF OptionalDates
<1>3. PICK a, done, ex :
        /\ a = upload[u].account /\ done = Completed \cup {u}
        /\ ex = Rewrite(u, lists, at, source)
        /\ RecomputeAccount(a, done, ex)
  BY <1>2, Zenon DEF ApplySnapshot, Rewrite
<1>4. /\ ex \in [Ids -> ExecRows] /\ ex[u].lists = lists
      /\ \A v \in Ids \ {u} : ex[v] = exec[v]
  BY <1>1, <1>3, RewriteTyped
<1>5. ex[u].takenAt = at
  BY <1>1, <1>3 DEF Rewrite, ExecRows
<1>6. Recomputed(a, done, ex)
  BY <1>1, <1>3, <1>4, RecomputeAccountKeeps
<1>7. \A v \in Ids : exec'[v].lists = ex[v].lists /\ exec'[v].takenAt = ex[v].takenAt
  BY <1>6 DEF Recomputed
<1> QED BY <1>1, <1>2, <1>4, <1>5, <1>7

\* checkCoverage judged an upload against the execution it lands directly after,
\* unless another bears its very date.
LEMMA ApplySeesNeighbour ==
  ASSUME IInv, AllRebuilt, Judged, IInv', AllRebuilt', Apply,
         NEW u \in Ids, NEW v \in Ids, v = cur, LandsAfter(u, v), Enters(v),
         ~upload[v].allowPartial,
         \A w \in Completed \ {v} : upload[w].account = upload[v].account
                                     => exec[w].takenAt # exec'[v].takenAt
  PROVE  ~CollapsesFrom(u, v)
<1>1. PICK a, T, N : a = upload[v].account /\ T = History(a)
                /\ N = HistoryOf(a, Completed \cup {v}, exec')
  OBVIOUS
<1>2. /\ v \in Ids /\ status[v] = "processing" /\ v \in Existing
      /\ UNCHANGED upload /\ Completed' = Completed \cup {v}
      /\ a \in Accounts /\ u # v /\ u \in Completed /\ upload[u].account = a
  <2>1. status[v] = "processing" /\ v \in Existing
    BY DEF IInv, ClaimHeld, Apply, Existing
  <2>2. UNCHANGED upload /\ status' = [status EXCEPT ![v] = "completed"]
    BY DEF Apply, ApplySnapshot
  <2>3. exec' \in [Ids -> ExecRows]
    BY DEF IInv, TypeOK
  <2>4. u # v
    <3>1. exec'[u].sequenceNo \in Nat
      BY <2>3 DEF ExecRows
    <3> QED BY <3>1 DEF LandsAfter
  <2>5. status \in [Ids -> Statuses] /\ a \in Accounts
    BY <1>1, <2>1 DEF IInv, TypeOK, KnownUploads, Request
  <2>6. Completed' = Completed \cup {v}
    BY <2>2, <2>5 DEF Completed
  <2>7. u \in Completed /\ upload[u].account = a
    BY <1>1, <2>2, <2>4, <2>5 DEF LandsAfter, Completed
  <2> QED BY <2>1, <2>2, <2>4, <2>5, <2>6, <2>7
<1>3. /\ exec'[v].lists = upload[v].export.lists
      /\ exec'[v].takenAt = ResolveSnapshotDate(upload[v]).at
      /\ \A w \in Completed : /\ exec'[w].lists = exec[w].lists
                              /\ exec'[w].takenAt = exec[w].takenAt
  <2>1. ApplySnapshot(v) /\ Completed \subseteq Ids
    BY DEF Apply, Completed
  <2>2. v \notin Completed
    BY <1>2 DEF Completed
  <2> QED BY <1>2, <2>1, <2>2, ApplyWritesOneRow
<1>4. /\ DOMAIN T = {w \in Completed : upload[w].account = a}
      /\ DOMAIN N = DOMAIN T \cup {v} /\ v \notin DOMAIN T
      /\ u \in DOMAIN T
      /\ \A w \in DOMAIN N : /\ N[w].takenAt = exec'[w].takenAt
                             /\ N[w].uploadedAt = upload[w].uploadedAt
      /\ \A w \in DOMAIN T : /\ T[w].takenAt = exec[w].takenAt
                             /\ T[w].uploadedAt = upload[w].uploadedAt
  BY <1>1, <1>2 DEF History, HistoryOf, Completed
<1>5. /\ \A w \in DOMAIN T : /\ T[w].takenAt = N[w].takenAt
                             /\ T[w].uploadedAt = N[w].uploadedAt
      /\ \A w \in DOMAIN T : N[w].takenAt # N[v].takenAt
      /\ N[v].takenAt = exec'[v].takenAt
  <2>1. ASSUME NEW w \in DOMAIN T
        PROVE  /\ w \in Completed \ {v} /\ upload[w].account = upload[v].account
               /\ exec'[w].takenAt = exec[w].takenAt
    BY <1>1, <1>3, <1>4
  <2>2. ASSUME NEW w \in DOMAIN T PROVE exec[w].takenAt # exec'[v].takenAt
    BY <2>1
  <2> QED BY <1>4, <2>1, <2>2
<1>6. IsDated(N) /\ SequenceNo(N)[v] = SequenceNo(N)[u] + 1
  <2>1. /\ Completed \cup {v} \in SUBSET Ids
        /\ exec' \in [Ids -> ExecRows]
        /\ \A w \in Completed \cup {v} : upload[w].uploadedAt \in Dates
    BY <1>2 DEF IInv, TypeOK, KnownUploads, Request, Completed, Existing
  <2>2. IsDated(N)
    BY <1>1, <2>1, HistoryIsDated
  <2>3. History(a)' = N
    BY <1>1, <1>2 DEF History, HistoryOf
  <2>4. IsNumbered(N, exec')
    BY <1>2, <2>3 DEF AllRebuilt, Rebuilt
  <2> QED BY <1>4, <2>2, <2>4 DEF IsNumbered, LandsAfter
<1>7. /\ Precedes(N, u, v)
      /\ \A w \in DOMAIN N : Precedes(N, w, v) => w = u \/ Precedes(N, w, u)
  BY <1>4, <1>6, DirectlyBefore
<1>8. u \in PrecedingCompleted(T, exec'[v].takenAt)
  <2>1. \A w \in DOMAIN N : N[w].takenAt \in Int
    BY <1>6 DEF IsDated
  <2>2. N[u].takenAt <= N[v].takenAt
    BY <1>4, <1>7, <2>1 DEF Precedes
  <2>3. ASSUME NEW w \in DOMAIN T, T[w].takenAt <= exec'[v].takenAt, w # u
        PROVE  Precedes(T, w, u)
    <3>1. N[w].takenAt < N[v].takenAt
      <4>1. /\ N[w].takenAt \in Int /\ N[v].takenAt \in Int
            /\ N[w].takenAt # N[v].takenAt
        BY <1>4, <1>5, <2>1
      <4>2. N[w].takenAt <= N[v].takenAt
        BY <1>5, <2>3
      <4> QED BY <4>1, <4>2
    <3>2. Precedes(N, w, u)
      BY <1>4, <1>7, <2>3, <3>1 DEF Precedes
    <3> QED BY <1>4, <1>5, <3>2 DEF Precedes
  <2>4. T[u].takenAt <= exec'[v].takenAt
    BY <1>4, <1>5, <2>2
  <2> QED BY <1>4, <2>3, <2>4 DEF PrecedingCompleted
<1>9. u \in Previous(v)
  <2>1. Completed \ {v} = Completed
    BY <1>2 DEF Completed
  <2> QED BY <1>1, <1>3, <1>8, <2>1 DEF Previous, History
<1>10. \/ exec[u].followerCount < CollapseMinimum
       \/ 2 * FollowerCount(upload[v].export) >= exec[u].followerCount
  BY <1>9 DEF Judged, Coverage, Apply
<1>11. exec[u].followerCount = Cardinality(Members(exec[u].lists, "followers"))
  <2>1. IsNumbered(T, exec) /\ T[u].lists = exec[u].lists
    <3>1. IsNumbered(T, exec)
      BY <1>1, <1>2 DEF AllRebuilt, Rebuilt
    <3>2. T[u].lists = exec[u].lists
      BY <1>1, <1>4 DEF History, HistoryOf
    <3> QED BY <3>1, <3>2
  <2> QED BY <1>4, <2>1 DEF IsNumbered
<1>12. PICK n, m : /\ n = Cardinality(Members(exec[u].lists, "followers"))
                   /\ m = Cardinality(Members(upload[v].export.lists, "followers"))
  OBVIOUS
<1>13. n \in Nat /\ m \in Nat /\ CollapseMinimum \in Nat
  <2>1. exec[u].lists \in RecordedLists /\ upload[v].export.lists \in RecordedLists
    BY <1>2, DatesTyped DEF IInv, TypeOK, KnownUploads, ExecRows, Completed
  <2>2. n \in 0..Cardinality(Users) /\ m \in 0..Cardinality(Users)
    BY <1>12, <2>1, MembersAreUsers
  <2> QED BY <2>2, SettingsAssumption
<1>14. ~(n >= CollapseMinimum /\ 2 * m < n)
  BY <1>10, <1>11, <1>12, <1>13 DEF FollowerCount
<1> QED BY <1>2, <1>3, <1>12, <1>14 DEF CollapsesFrom

NoCollapse ==
  \A u, v \in Ids :
    /\ Enters(v) /\ LandsAfter(u, v) /\ ~upload[v].allowPartial
    /\ \A w \in Completed \ {v} : upload[w].account = upload[v].account
                                   => exec[w].takenAt # exec'[v].takenAt
    => ~CollapsesFrom(u, v)

\* checkCoverage and the rebuild see the same predecessor: what process looked up
\* in one transaction is what recomputeAccount puts the upload after in the next,
\* for any number of uploads, with any requests in between.
THEOREM GuardJudgesNeighbour == Spec => GuardSeesNeighbour
<1>1. Init => IInv /\ AllRebuilt /\ Judged
  BY InitKeeps, InitRebuilds DEF Init, Judged
<1>2. IInv /\ AllRebuilt /\ Judged /\ [Next]_vars => (IInv /\ AllRebuilt /\ Judged)'
  BY NextKeeps, NextRebuilds, NextJudges
<1>3. ASSUME IInv, AllRebuilt, Judged, IInv', AllRebuilt', Next PROVE NoCollapse
  BY <1>3, OnlyApplyEnters, ApplySeesNeighbour DEF NoCollapse
<1>4. Spec => [][NoCollapse]_vars
  BY <1>1, <1>2, <1>3, PTL DEF Spec
<1> QED BY <1>4 DEF GuardSeesNeighbour, NoCollapse

-----------------------------------------------------------------------------
(* Rereading *)

\* Writing into a row what it holds leaves it as it is.
LEMMA SameRow ==
  ASSUME NEW r \in ExecRows
  PROVE  /\ [r EXCEPT !.lists = r.lists, !.takenAt = r.takenAt, !.source = r.source] = r
         /\ [r EXCEPT !.sequenceNo = r.sequenceNo, !.followerCount = r.followerCount] = r
BY DEF ExecRows

LEMMA SameChange ==
  ASSUME NEW c \in ChangeRows,
         c.reason = NoReason, c.renamedTo = Nobody, c.renamedFrom = Nobody
  PROVE  [c EXCEPT !.reason = NoReason, !.renamedTo = Nobody, !.renamedFrom = Nobody] = c
BY DEF ChangeRows

\* Where no follower left, nothing was classified.
LEMMA NobodyLeft ==
  ASSUME NEW p, NEW u, NEW prev, NEW last,
         \A c \in ChangesBetween(p, u, prev, last) :
           ~(c.type = "unfollowed" /\ c.list = "followers")
  PROVE  \A c \in ChangesBetween(p, u, prev, last) :
           c.reason = NoReason /\ c.renamedTo = Nobody /\ c.renamedFrom = Nobody
<1> DEFINE
  came(kind, x) ==
    [upload |-> u, prev |-> p, list |-> kind, user |-> x,
     type |-> "followed", reason |-> NoReason, renamedTo |-> Nobody,
     renamedFrom |-> IF kind = "followers"
                       THEN OneOrNobody(RenamedFrom(prev, last, x)) ELSE Nobody]
  left(kind, x) ==
    [upload |-> u, prev |-> p, list |-> kind, user |-> x,
     type |-> "unfollowed",
     reason |-> IF kind = "followers" THEN DepartureReason(prev, last, x)
                                      ELSE NoReason,
     renamedTo |-> IF kind = "followers"
                     THEN OneOrNobody(RenamedTo(prev, last, x)) ELSE Nobody,
     renamedFrom |-> Nobody]
<1>1. ASSUME NEW c \in ChangesBetween(p, u, prev, last)
      PROVE  \E kind \in Shared(prev, last) :
               \/ \E x \in Arrived(prev, last, kind)  : c = came(kind, x)
               \/ \E x \in Departed(prev, last, kind) : c = left(kind, x)
  BY DEF ChangesBetween
<1>2. "followers" \in Shared(prev, last) => Departed(prev, last, "followers") = {}
  BY RowsBetween DEF Says
<1>3. ASSUME "followers" \in Shared(prev, last), NEW x
      PROVE  OneOrNobody(RenamedFrom(prev, last, x)) = Nobody
  BY <1>2, <1>3 DEF RenamedFrom, OneOrNobody
<1>4. ASSUME NEW kind \in Shared(prev, last), NEW x
      PROVE  /\ came(kind, x).reason = NoReason
             /\ came(kind, x).renamedTo = Nobody
             /\ came(kind, x).renamedFrom = Nobody
  BY <1>3
<1>5. ASSUME NEW kind \in Shared(prev, last), NEW x \in Departed(prev, last, kind)
      PROVE  /\ left(kind, x).reason = NoReason
             /\ left(kind, x).renamedTo = Nobody
             /\ left(kind, x).renamedFrom = Nobody
  <2>1. kind # "followers"
    BY <1>2
  <2> QED BY <2>1
<1> HIDE DEF came, left
<1> QED BY <1>1, <1>4, <1>5

\* A log that forgot why anybody left, but in which nobody left, forgot nothing.
LEMMA NothingForgotten ==
  ASSUME NEW T, Changes(T) \in SUBSET ChangeRows,
         \A c \in Changes(T) : ~(c.type = "unfollowed" /\ c.list = "followers")
  PROVE  Unclassified(Changes(T)) = Changes(T)
<1>1. ASSUME NEW c \in Changes(T)
      PROVE  c.reason = NoReason /\ c.renamedTo = Nobody /\ c.renamedFrom = Nobody
  <2>1. PICK pair \in Neighbours(T) :
          c \in ChangesBetween(pair[1], pair[2], T[pair[1]].lists, T[pair[2]].lists)
    BY DEF Changes
  <2>2. PICK p, u, prev, last :
          /\ p = pair[1] /\ u = pair[2]
          /\ prev = T[p].lists /\ last = T[u].lists
          /\ c \in ChangesBetween(p, u, prev, last)
    BY <2>1
  <2>3. ChangesBetween(p, u, prev, last) \subseteq Changes(T)
    BY <2>2 DEF Changes
  <2> QED BY <2>2, <2>3, NobodyLeft
<1>2. ASSUME NEW c \in Changes(T)
      PROVE  [c EXCEPT !.reason = NoReason, !.renamedTo = Nobody,
                       !.renamedFrom = Nobody] = c
  BY <1>1, SameChange
<1>3. {[c EXCEPT !.reason = NoReason, !.renamedTo = Nobody,
                 !.renamedFrom = Nobody] : c \in Changes(T)} = Changes(T)
  BY <1>2, Zenon
<1> QED BY <1>3 DEF Unclassified

\* The history was fully read before, by this version.
ReadBefore ==
  /\ exec[cur].source # "processing order"
  /\ exec[cur].lists = upload[cur].export.lists
  /\ \A c \in changes : c.type = "unfollowed" /\ c.list = "followers"
                          => c.reason # NoReason

\* Every row of a rebuilt account is what a rebuild makes of it.
LEMMA RebuildRestores ==
  ASSUME IInv, AllRebuilt, NEW a \in Accounts,
         \A c \in changes : c.type = "unfollowed" /\ c.list = "followers"
                              => c.reason # NoReason,
         RecomputeAccount(a, Completed, exec)
  PROVE  UNCHANGED <<exec, changes>>
<1>1. PICK T : T = History(a)
  OBVIOUS
<1>2. /\ exec' = Renumbered(a, T, exec)
      /\ changes' = {c \in changes : upload[c.upload].account # a} \cup Changes(T)
  BY <1>1 DEF RecomputeAccount, History
<1>3. /\ exec \in [Ids -> ExecRows] /\ Completed \in SUBSET Ids
      /\ IsHistory(T) /\ DOMAIN T = {u \in Completed : upload[u].account = a}
  BY <1>1, HistoryOfIsHistory DEF IInv, TypeOK, Completed, History
<1>4. /\ IsNumbered(T, exec)
      /\ RowsOf(a) \in {Changes(T), Unclassified(Changes(T))}
  BY <1>1 DEF AllRebuilt, Rebuilt
<1>5. ASSUME NEW u \in Ids PROVE Renumbered(a, T, exec)[u] = exec[u]
  <2>1. CASE upload[u].account # a
    BY <2>1 DEF Renumbered
  <2>2. CASE u \in DOMAIN T
    <3>1. upload[u].account = a
      BY <1>3, <2>2
    <3>2. PICK r \in ExecRows : r = exec[u]
      BY <1>3
    <3>3. PICK n, m : n = SequenceNo(T)[u]
                      /\ m = Cardinality(Members(T[u].lists, "followers"))
      OBVIOUS
    <3>4. Renumbered(a, T, exec)[u] = [r EXCEPT !.sequenceNo = n, !.followerCount = m]
      BY <2>2, <3>1, <3>2, <3>3, Zenon DEF Renumbered
    <3>5. r.sequenceNo = n /\ r.followerCount = m
      BY <1>4, <2>2, <3>2, <3>3 DEF IsNumbered
    <3>6. [r EXCEPT !.sequenceNo = r.sequenceNo, !.followerCount = r.followerCount] = r
      BY SameRow
    <3> QED BY <3>2, <3>4, <3>5, <3>6, Zenon
  <2>3. CASE upload[u].account = a /\ u \notin DOMAIN T
    <3>1. exec[u] = NoExec
      BY <1>3, <2>3 DEF IInv, OnlyCompletedCount
    <3> QED BY <1>3, <2>3, <3>1, RenumberedKeeps
  <2> QED BY <2>1, <2>2, <2>3
<1>6. Renumbered(a, T, exec) \in [Ids -> ExecRows]
  BY <1>3, RenumberedKeeps
<1>7. exec' = exec
  <2>1. PICK R : R = Renumbered(a, T, exec)
    OBVIOUS
  <2> QED BY <1>2, <1>3, <1>5, <1>6, <2>1
<1>8. RowsOf(a) = Changes(T)
  <2>1. Changes(T) \in SUBSET ChangeRows
    BY <1>3, ChangesTyped
  <2>2. ASSUME RowsOf(a) = Unclassified(Changes(T)), NEW c \in Changes(T)
        PROVE  ~(c.type = "unfollowed" /\ c.list = "followers")
    <3>1. PICK d : d = [c EXCEPT !.reason = NoReason, !.renamedTo = Nobody,
                                 !.renamedFrom = Nobody]
      OBVIOUS
    <3>2. d.type = c.type /\ d.list = c.list /\ d.reason = NoReason
      BY <2>1, <3>1 DEF ChangeRows
    <3>3. d \in Unclassified(Changes(T))
      BY <3>1, Zenon DEF Unclassified
    <3>4. d \in changes
      BY <2>2, <3>3 DEF RowsOf
    <3> QED BY <3>2, <3>4
  <2>3. CASE RowsOf(a) = Unclassified(Changes(T))
    BY <2>1, <2>2, <2>3, NothingForgotten
  <2> QED BY <1>4, <2>3
<1>9. changes' = changes
  BY <1>2, <1>8 DEF RowsOf
<1> QED BY <1>7, <1>9

LEMMA RereadChangesNothing ==
  ASSUME IInv, AllRebuilt, Dated, ReadBefore, Reread
  PROVE  UNCHANGED <<exec, changes>>
<1>1. /\ cur \in Completed /\ cur \in Existing /\ cur \in Ids
      /\ ApplySnapshot(cur) /\ exec \in [Ids -> ExecRows]
      /\ upload[cur] \in Request /\ upload[cur].account \in Accounts
  BY DEF Reread, IInv, TypeOK, ClaimHeld, KnownUploads, Request, Completed, Existing
<1>2. PICK u, r : u = cur /\ r = exec[u]
  OBVIOUS
<1>3. PICK lists, at, source :
        /\ lists = upload[u].export.lists
        /\ at = ResolveSnapshotDate(upload[u]).at
        /\ source = ResolveSnapshotDate(upload[u]).source
  OBVIOUS
<1>4. lists = r.lists /\ at = r.takenAt /\ source = r.source
  BY <1>1, <1>2, <1>3 DEF Dated, IsBestDated, ReadBefore
<1>5. PICK ex : /\ ex = Rewrite(u, lists, at, source)
                /\ RecomputeAccount(upload[u].account, Completed \cup {u}, ex)
  BY <1>1, <1>2, <1>3, Zenon DEF ApplySnapshot, Rewrite
<1>6. ex = exec
  <2>1. r \in ExecRows /\ u \in Ids
    BY <1>1, <1>2
  <2>2. PICK row : row = [r EXCEPT !.lists = lists, !.takenAt = at, !.source = source]
    OBVIOUS
  <2>3. row = r
    BY <1>4, <2>1, <2>2, SameRow
  <2>4. ex = [exec EXCEPT ![u] = row]
    BY <1>2, <1>5, <2>2 DEF Rewrite
  <2> QED BY <1>1, <1>2, <2>1, <2>3, <2>4
<1>7. Completed \cup {u} = Completed
  BY <1>1, <1>2
<1>8. RecomputeAccount(upload[u].account, Completed, exec)
  BY <1>5, <1>6, <1>7
<1> QED BY <1>1, <1>2, <1>8, RebuildRestores DEF ReadBefore

KeepsWhatWasRead ==
  (/\ pc = "rereading"
   /\ exec[cur].source # "processing order"
   /\ exec[cur].lists = upload[cur].export.lists
   /\ \A c \in changes : c.type = "unfollowed" /\ c.list = "followers"
                           => c.reason # NoReason)
  => UNCHANGED <<exec, changes>>

\* A reread that comes twice, after a crash between its transaction and the one
\* that clears its request, or asked for twice, leaves every number, date, list
\* and change as the first left it.
THEOREM RereadTwiceIsOnce == Spec => RereadIsIdempotent
<1>1. Init => IInv /\ AllRebuilt /\ Dated
  BY InitKeeps, InitRebuilds, InitDates
<1>2. IInv /\ AllRebuilt /\ Dated /\ [Next]_vars => (IInv /\ AllRebuilt /\ Dated)'
  BY NextKeeps, NextRebuilds, NextDates
<1>3. ASSUME IInv, AllRebuilt, Dated, Next PROVE KeepsWhatWasRead
  <2>1. CASE ~Rewrites
    BY <1>3, <2>1, OthersRewriteNothing DEF KeepsWhatWasRead
  <2>2. CASE Reread
    BY <1>3, <2>2, RereadChangesNothing DEF KeepsWhatWasRead, ReadBefore
  <2>3. CASE SetSnapshotDate \/ Apply
    BY <2>3 DEF SetSnapshotDate, Apply, KeepsWhatWasRead
  <2> QED BY <2>1, <2>2, <2>3 DEF Rewrites
<1>4. Spec => [][KeepsWhatWasRead]_vars
  BY <1>1, <1>2, <1>3, PTL DEF Spec
<1> QED BY <1>4 DEF RereadIsIdempotent, KeepsWhatWasRead
=============================================================================
