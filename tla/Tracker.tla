------------------------------ MODULE Tracker ------------------------------
(***************************************************************************)
(* The service: uploads arrive over HTTP, one worker goroutine turns them  *)
(* into executions, and every execution rebuilds its account's history.    *)
(*                                                                         *)
(* One step is one database transaction, or one decision of the worker     *)
(* between two of them, so the process may be stopped, cancelled or killed *)
(* between any two writes, HTTP requests may land between any two steps of *)
(* the worker, and any statement may fail.                                 *)
(***************************************************************************)
EXTENDS Executions

CONSTANTS
  MaxUploads,         \* the bound on how many uploads ever arrive
  Accounts,
  Users,
  Kinds,              \* the list kinds the exports may carry
  Dates,              \* moments, in order: export, upload and queueing times
  Stamps,             \* follow timestamps an export may state
  RereadTimes,        \* the moments at which a reread may be asked for
  Requests,           \* the uploads that may be sent (type Request below)
  Legacy,             \* what the database held before export dates existed
  CollapseMinimum,    \* CollapseMinimumFollowers
  RetainUploads       \* Options.RetainUploads

NoDate == 0           \* the NULL of a date column, the zero time.Time
Ids    == 1..MaxUploads
NoId   == 0

MemberLists   == UNION {[S -> Stamps \cup {NoStamp}] : S \in SUBSET Users}
RecordedLists == UNION {[K -> MemberLists] : K \in SUBSET Kinds}
OptionalDates == Dates \cup {NoDate}

\* What the file holds, as instagram.Parse reads it.  takenAt is the date the
\* archive states or its newest entry carries.
Exports == [readable : BOOLEAN, partial : BOOLEAN,
            takenAt : OptionalDates, lists : RecordedLists]

\* The columns CreateUpload writes, and the file they point at.  nameDate is
\* the date in the original file name.
Request == [account : Accounts, export : Exports, nameDate : OptionalDates,
            manual : OptionalDates, allowPartial : BOOLEAN, uploadedAt : Dates]

\* A database from before migration 0003: executions dated by when they were
\* processed, holding only their follower list.  kept says whether the raw
\* file is still on disk.
LegacyRow == [request : Request, processedAt : Dates, kept : BOOLEAN]

ASSUME MaxUploadsAssumption == MaxUploads \in Nat
ASSUME DatesAssumption == Dates \subseteq Nat \ {NoDate} /\ RereadTimes \subseteq Dates
ASSUME StampsAssumption == Stamps \subseteq Nat \ {NoStamp}
ASSUME KindsAssumption == "followers" \in Kinds
ASSUME UsersAssumption == IsFiniteSet(Users) /\ Nobody \notin Users
ASSUME RequestsAssumption == 
  /\ Requests \subseteq Request
  \* an export without a follower list does not parse
  /\ \A r \in Requests :
       r.export.readable => Carries(r.export.lists, "followers")
ASSUME LegacyAssumption ==
  \E L \in SUBSET Ids :
    /\ \A u \in L : \A v \in Ids : v < u => v \in L
    /\ Legacy \in [L -> LegacyRow]
    /\ \A u \in L : Carries(Legacy[u].request.export.lists, "followers")
    \* migration 0003 adds the column of the date typed in
    /\ \A u \in L : Legacy[u].request.manual = NoDate
ASSUME SettingsAssumption ==
  /\ CollapseMinimum \in Nat
  /\ RetainUploads \in BOOLEAN

-----------------------------------------------------------------------------

VARIABLES
  \* The database and the upload directory.
  status,       \* uploads.status; "absent" where no row exists yet
  upload,       \* the columns of uploads that are written once
  exec,         \* the columns of uploads a recompute writes, and the lists
  error,        \* uploads.error_message, reduced to its cause
  reprocessAt,  \* uploads.reprocess_at
  changes,      \* table changes
  files,        \* the uploads whose raw file is on disk
  \* The process.
  pc,           \* where the worker goroutine is
  cur,          \* the upload it is working on
  failure,      \* why process failed, on its way to FailUpload
  backlog,      \* what is left of the list backfillSnapshotDates loops over
  cancelled     \* the worker's context has been cancelled

stored  == <<status, upload, exec, error, reprocessAt, changes, files>>
running == <<pc, cur, failure, backlog, cancelled>>
vars    == <<stored, running>>

Statuses == {"absent", "pending", "processing", "completed", "failed"}
Sources  == {"", "processing order", "entered manually", "export",
             "archive file name", "upload time"}
Causes   == {"", "unreadable", "partial", "database", "cancelled"}
Steps    == {"down", "requeue", "lookback", "backfill", "drain", "judge",
             "apply", "remove", "fail", "reread", "rereading", "finish",
             "idle", "returned"}
Reasons  == {NoReason, "renamed", "you_blocked", "unfollowed", "vanished",
             "unknown"}

ChangeRows == [upload : Ids, prev : Ids, list : Kinds, user : Users,
               type : {"followed", "unfollowed"}, reason : Reasons,
               renamedTo : Users \cup {Nobody},
               renamedFrom : Users \cup {Nobody}]

NoLists  == [k \in {} |-> NoStamp]
NoUpload == [account |-> "", uploadedAt |-> NoDate]
NoExec   == [takenAt |-> NoDate, source |-> "", lists |-> NoLists,
             sequenceNo |-> 0, followerCount |-> 0]

ExecRows == [takenAt : OptionalDates, source : Sources, lists : RecordedLists,
             sequenceNo : 0..MaxUploads, followerCount : 0..Cardinality(Users)]

TypeOK ==
  /\ status \in [Ids -> Statuses]
  /\ upload \in [Ids -> Request \cup {NoUpload}]
  /\ exec \in [Ids -> ExecRows]
  /\ error \in [Ids -> Causes]
  /\ reprocessAt \in [Ids -> OptionalDates]
  /\ changes \subseteq ChangeRows
  /\ files \subseteq Ids
  /\ pc \in Steps
  /\ cur \in Ids \cup {NoId}
  /\ failure \in Causes
  /\ backlog \subseteq Ids
  /\ cancelled \in BOOLEAN

-----------------------------------------------------------------------------
(* The history of an account *)

Existing  == {u \in Ids : status[u] # "absent"}
Completed == {u \in Ids : status[u] = "completed"}
Pending   == {u \in Ids : status[u] = "pending"}

\* Mutant: the WHERE account_id of executionsInDateOrder is missing.
HistoryOf_AllAccounts(a, done, ex) ==
  [u \in done |->
     [takenAt |-> ex[u].takenAt, uploadedAt |-> upload[u].uploadedAt,
      lists |-> ex[u].lists]]

\* The history of account a when the uploads in done are completed and their
\* dates and lists are those in ex.
HistoryOf(a, done, ex) ==
  [u \in {v \in done : upload[v].account = a} |->
     [takenAt |-> ex[u].takenAt, uploadedAt |-> upload[u].uploadedAt,
      lists |-> ex[u].lists]]

History(a) == HistoryOf(a, Completed, exec)

Renumbered(a, T, ex) ==
  [u \in Ids |->
     IF upload[u].account # a THEN ex[u]
     ELSE IF u \in DOMAIN T
       THEN [ex[u] EXCEPT !.sequenceNo = SequenceNo(T)[u],
                          !.followerCount =
                            Cardinality(Members(T[u].lists, "followers"))]
       ELSE [ex[u] EXCEPT !.sequenceNo = 0]]

\* Mutant: the account's old changes are not deleted first.
RecomputeAccount_KeepsChanges(a, done, ex) ==
  LET T == HistoryOf(a, done, ex)
  IN  /\ exec' = Renumbered(a, T, ex)
      /\ changes' = changes \cup Changes(T)

\* recomputeAccount, inside the transaction of whoever calls it: every number
\* and every change of the account is rebuilt, and nothing of any other.
RecomputeAccount(a, done, ex) ==
  LET T == HistoryOf(a, done, ex)
  IN  /\ exec' = Renumbered(a, T, ex)
      /\ changes' = {c \in changes : upload[c.upload].account # a} \cup Changes(T)

\* When an export was generated, weakest evidence last.
ResolveSnapshotDate(r) ==
  IF r.manual # NoDate
    THEN [at |-> r.manual, source |-> "entered manually"]
  ELSE IF r.export.takenAt # NoDate
    THEN [at |-> r.export.takenAt, source |-> "export"]
  ELSE IF r.nameDate # NoDate
    THEN [at |-> r.nameDate, source |-> "archive file name"]
  ELSE [at |-> r.uploadedAt, source |-> "upload time"]

\* What backfillSnapshotDates can read from a retained file: the same
\* evidence without the date typed in, and without the fallback.
DetectsDate(r) == r.export.readable /\ (r.export.takenAt # NoDate \/ r.nameDate # NoDate)

\* Mutant: the file name believed before the archive.
DetectedDate_FileNameFirst(r) ==
  IF r.nameDate # NoDate
    THEN [at |-> r.nameDate, source |-> "archive file name"]
    ELSE [at |-> r.export.takenAt, source |-> "export"]

DetectedDate(r) ==
  IF r.export.takenAt # NoDate
    THEN [at |-> r.export.takenAt, source |-> "export"]
    ELSE [at |-> r.nameDate, source |-> "archive file name"]

\* ApplySnapshot: the lists replace whatever the upload had recorded, it
\* becomes completed, and the history is rebuilt around it, in one transaction.
ApplySnapshot(u) ==
  LET date == ResolveSnapshotDate(upload[u])
  IN  /\ status' = [status EXCEPT ![u] = "completed"]
      /\ error' = [error EXCEPT ![u] = ""]
      /\ RecomputeAccount(upload[u].account, Completed \cup {u},
           [exec EXCEPT ![u].lists   = upload[u].export.lists,
                        ![u].takenAt = date.at,
                        ![u].source  = date.source])

FollowerCount(export) == Cardinality(Members(export.lists, "followers"))

\* checkCoverage: refuse an export that declares itself partial, and one with
\* less than half (CollapseDropRatio) the followers of the execution before it.
Coverage(r, previous) ==
  \/ r.allowPartial
  \/ /\ ~r.export.partial
     /\ \A p \in previous :
          \/ exec[p].followerCount < CollapseMinimum
          \/ 2 * FollowerCount(r.export) >= exec[p].followerCount

\* The execution an upload is judged against.
Previous(u) ==
  LET r == upload[u]
      T == HistoryOf(r.account, Completed \ {u}, exec)
  IN  PrecedingCompleted(T, ResolveSnapshotDate(r).at)

-----------------------------------------------------------------------------
(* Requests *)

\* POST /api/uploads: Accept has put the file in place, and CreateUpload adds
\* the row.  Served while the process is up, whatever the worker is doing.
CreateUpload(u, r) ==
  /\ pc # "down"
  /\ Existing = 1..(u - 1)
  /\ status' = [status EXCEPT ![u] = "pending"]
  /\ upload' = [upload EXCEPT ![u] = r]
  /\ files' = files \cup {u}
  /\ UNCHANGED <<exec, error, reprocessAt, changes, running>>

\* Mutant: a reread goes through the queue of new uploads.
MarkForReprocess_Requeues(a, t) ==
  /\ pc # "down"
  /\ status' = [u \in Ids |-> IF upload[u].account = a /\ status[u] = "completed"
                                THEN "pending" ELSE status[u]]
  /\ UNCHANGED <<upload, exec, error, reprocessAt, changes, files, running>>

\* POST /api/accounts/{handle}/reprocess at time t.
MarkForReprocess(a, t) ==
  /\ pc # "down"
  /\ \E u \in Existing : upload[u].account = a
  /\ reprocessAt' =
       [u \in Ids |-> IF /\ upload[u].account = a
                         /\ status[u] = "completed"
                         /\ reprocessAt[u] = NoDate
                        THEN t ELSE reprocessAt[u]]
  /\ UNCHANGED <<status, upload, exec, error, changes, files, running>>

-----------------------------------------------------------------------------
(* The process *)

Init ==
  /\ status = [u \in Ids |-> IF u \in DOMAIN Legacy THEN "completed" ELSE "absent"]
  /\ upload = [u \in Ids |-> IF u \in DOMAIN Legacy THEN Legacy[u].request ELSE NoUpload]
  /\ LET migrated ==
           [u \in Ids |->
              IF u \in DOMAIN Legacy
                THEN [takenAt |-> Legacy[u].processedAt,
                      source |-> "processing order",
                      lists |-> [k \in {"followers"} |->
                                   Legacy[u].request.export.lists[k]],
                      sequenceNo |-> 0, followerCount |-> 0]
                ELSE NoExec]
         T(a) == HistoryOf(a, Completed, migrated)
     IN  /\ exec = [u \in Ids |-> LET a == upload[u].account
                                  IN  Renumbered(a, T(a), migrated)[u]]
         \* migration 0006 leaves departure_reason NULL on the rows it finds
         /\ changes = {[c EXCEPT !.reason = NoReason, !.renamedTo = Nobody,
                                 !.renamedFrom = Nobody]
                         : c \in UNION {Changes(T(a)) : a \in Accounts}}
  /\ error = [u \in Ids |-> ""]
  /\ reprocessAt = [u \in Ids |-> NoDate]
  /\ files = {u \in DOMAIN Legacy : Legacy[u].kept}
  /\ pc = "down"
  /\ cur = NoId
  /\ failure = ""
  /\ backlog = {}
  /\ cancelled = FALSE

Start ==
  /\ pc = "down"
  /\ pc' = "requeue"
  /\ UNCHANGED <<stored, cur, failure, backlog, cancelled>>

\* SIGTERM: the worker's context is cancelled, the server drains its requests.
Shutdown ==
  /\ pc # "down"
  /\ ~cancelled
  /\ cancelled' = TRUE
  /\ UNCHANGED <<stored, pc, cur, failure, backlog>>

\* The process ends, after a shutdown or killed at any moment.  Nothing but
\* the database and the files survives.
Exit ==
  /\ pc # "down"
  /\ pc' = "down"
  /\ cur' = NoId
  /\ failure' = ""
  /\ backlog' = {}
  /\ cancelled' = FALSE
  /\ UNCHANGED stored

\* The worker moves from one step to another and writes nothing.
Goto(from, to) ==
  /\ pc = from
  /\ pc' = to
  /\ UNCHANGED <<stored, backlog, cancelled>>

\* A statement succeeds only while the context it was given is live.
Live == ~cancelled

-----------------------------------------------------------------------------
(* Startup: Run, before its loop *)

RequeueProcessing ==
  /\ pc = "requeue" /\ Live
  /\ status' = [u \in Ids |-> IF status[u] = "processing" THEN "pending"
                                                          ELSE status[u]]
  /\ pc' = "lookback"
  /\ UNCHANGED <<upload, exec, error, reprocessAt, changes, files,
                 cur, failure, backlog, cancelled>>

\* Run returns the error; the process goes on serving without a worker.
RequeueFails == Goto("requeue", "returned") /\ UNCHANGED <<cur, failure>>

UploadsWithUnknownSnapshotDate ==
  /\ pc = "lookback" /\ Live
  /\ backlog' = {u \in Completed : exec[u].source = "processing order"}
  /\ pc' = "backfill"
  /\ UNCHANGED <<stored, cur, failure, cancelled>>

\* A failed query is logged, and the backfill left for the next start.
LookbackFails == Goto("lookback", "drain") /\ UNCHANGED <<cur, failure>>

NextInBacklog == CHOOSE u \in backlog : \A v \in backlog : u <= v

SetSnapshotDate ==
  /\ pc = "backfill" /\ Live
  /\ backlog # {}
  /\ LET u == NextInBacklog
         date == DetectedDate(upload[u])
     IN  /\ u \in files
         /\ DetectsDate(upload[u])
         /\ RecomputeAccount(upload[u].account, Completed,
              [exec EXCEPT ![u].takenAt = date.at, ![u].source = date.source])
         /\ backlog' = backlog \ {u}
  /\ UNCHANGED <<status, upload, error, reprocessAt, files,
                 pc, cur, failure, cancelled>>

\* The file is gone or says nothing about its date, or a read or the update
\* failed: the row keeps the date it has.
SkipInBacklog ==
  /\ pc = "backfill" /\ Live
  /\ backlog # {}
  /\ backlog' = backlog \ {NextInBacklog}
  /\ UNCHANGED <<stored, pc, cur, failure, cancelled>>

BackfillEnds ==
  /\ pc = "backfill"
  /\ backlog = {} \/ ~Live
  /\ pc' = "drain"
  /\ backlog' = {}
  /\ UNCHANGED <<stored, cur, failure, cancelled>>

-----------------------------------------------------------------------------
(* drain: new uploads first, then rereads, until there is neither *)

\* ORDER BY uploaded_at, id
OldestPending(u) ==
  /\ u \in Pending
  /\ \A v \in Pending :
       \/ upload[u].uploadedAt < upload[v].uploadedAt
       \/ upload[u].uploadedAt = upload[v].uploadedAt /\ u <= v

\* Mutant: the claim selects without updating.
ClaimNextPending_Unmarked(u) ==
  /\ Goto("drain", "judge") /\ Live
  /\ OldestPending(u)
  /\ cur' = u
  /\ UNCHANGED failure

ClaimNextPending(u) ==
  /\ pc = "drain" /\ Live
  /\ OldestPending(u)
  /\ status' = [status EXCEPT ![u] = "processing"]
  /\ cur' = u
  /\ pc' = "judge"
  /\ UNCHANGED <<upload, exec, error, reprocessAt, changes, files,
                 failure, backlog, cancelled>>

NothingPending ==
  Goto("drain", "reread") /\ Live /\ Pending = {} /\ UNCHANGED <<cur, failure>>

\* drain returns, cancelled or on an error of the claim.
ClaimFails == Goto("drain", "idle") /\ UNCHANGED <<cur, failure>>

\* Mutant: the raw file is dropped once it has been parsed.
Admit_RemovesFile ==
  /\ pc = "judge" /\ Live
  /\ cur \in files
  /\ upload[cur].export.readable
  /\ Coverage(upload[cur], Previous(cur))
  /\ pc' = "apply"
  /\ files' = files \ {cur}
  /\ UNCHANGED <<status, upload, exec, error, reprocessAt, changes,
                 cur, failure, backlog, cancelled>>

\* process, up to its write: the file is read, its date resolved, and the
\* export judged against the execution before that date.
Admit ==
  /\ Goto("judge", "apply") /\ Live
  /\ cur \in files
  /\ upload[cur].export.readable
  /\ Coverage(upload[cur], Previous(cur))
  /\ UNCHANGED <<cur, failure>>

Refuse ==
  /\ Goto("judge", "fail") /\ Live
  /\ cur \in files
  /\ upload[cur].export.readable
  /\ ~Coverage(upload[cur], Previous(cur))
  /\ failure' = "partial"
  /\ UNCHANGED cur

\* The file does not parse, or opening or reading it failed.
Unreadable ==
  /\ Goto("judge", "fail")
  /\ failure' = "unreadable"
  /\ UNCHANGED cur

\* A statement of process fails, because the context is cancelled or otherwise.
DatabaseCause == IF cancelled THEN "cancelled" ELSE "database"

LookupFails ==
  /\ Goto("judge", "fail")
  /\ failure' = DatabaseCause
  /\ UNCHANGED cur

\* Mutant: the members are written outside the transaction that fails.
ApplyFails_KeepsMembers ==
  /\ pc = "apply"
  /\ pc' = "fail"
  /\ failure' = DatabaseCause
  /\ exec' = [exec EXCEPT ![cur].lists = upload[cur].export.lists]
  /\ UNCHANGED <<status, upload, error, reprocessAt, changes, files,
                 cur, backlog, cancelled>>

ApplyFails ==
  /\ Goto("apply", "fail")
  /\ failure' = DatabaseCause
  /\ UNCHANGED cur

Apply ==
  /\ pc = "apply" /\ Live
  /\ ApplySnapshot(cur)
  /\ pc' = IF RetainUploads THEN "drain" ELSE "remove"
  /\ cur' = IF RetainUploads THEN NoId ELSE cur
  /\ UNCHANGED <<upload, reprocessAt, files, failure, backlog, cancelled>>

\* The raw file of a processed upload is dropped when files are not retained;
\* failing to is only logged.
Remove ==
  /\ pc = "remove"
  /\ files' \in {files, files \ {cur}}
  /\ pc' = "drain"
  /\ cur' = NoId
  /\ UNCHANGED <<status, upload, exec, error, reprocessAt, changes,
                 failure, backlog, cancelled>>

\* Mutant: the failure is recorded with a context of its own.
FailUpload_Detached ==
  /\ pc = "fail"
  /\ status' = [status EXCEPT ![cur] = "failed"]
  /\ error' = [error EXCEPT ![cur] = failure]
  /\ pc' = "drain"
  /\ cur' = NoId
  /\ failure' = ""
  /\ UNCHANGED <<upload, exec, reprocessAt, changes, files, backlog, cancelled>>

FailUpload ==
  /\ pc = "fail" /\ Live
  /\ status' = [status EXCEPT ![cur] = "failed"]
  /\ error' = [error EXCEPT ![cur] = failure]
  /\ pc' = "drain"
  /\ cur' = NoId
  /\ failure' = ""
  /\ UNCHANGED <<upload, exec, reprocessAt, changes, files, backlog, cancelled>>

\* The upload stays "processing": nothing claims it again before a restart.
FailUploadFails == Goto("fail", "idle") /\ cur' = NoId /\ failure' = ""

-----------------------------------------------------------------------------
(* Rereading *)

Flagged == {u \in Completed : reprocessAt[u] # NoDate}

\* ORDER BY reprocess_at, id
ClaimNextReprocess(u) ==
  /\ Goto("reread", "rereading") /\ Live
  /\ u \in Flagged
  /\ \A v \in Flagged : \/ reprocessAt[u] < reprocessAt[v]
                        \/ reprocessAt[u] = reprocessAt[v] /\ u <= v
  /\ cur' = u
  /\ UNCHANGED failure

NothingFlagged ==
  Goto("reread", "idle") /\ Live /\ Flagged = {} /\ UNCHANGED <<cur, failure>>

ClaimReprocessFails == Goto("reread", "idle") /\ UNCHANGED <<cur, failure>>

\* Mutant: the date is read out of the file again, whatever was typed in.
Reread_FromFile ==
  /\ pc = "rereading" /\ Live
  /\ cur \in files
  /\ upload[cur].export.readable
  /\ RecomputeAccount(upload[cur].account, Completed,
       [exec EXCEPT ![cur].lists   = upload[cur].export.lists,
                    ![cur].takenAt = DetectedDate(upload[cur]).at])
  /\ pc' = "finish"
  /\ UNCHANGED <<status, upload, error, reprocessAt, files, cur, failure, backlog, cancelled>>

\* reread: no coverage guard, the upload was admitted long ago.
Reread ==
  /\ pc = "rereading" /\ Live
  /\ cur \in files
  /\ upload[cur].export.readable
  /\ ApplySnapshot(cur)
  /\ pc' = "finish"
  /\ UNCHANGED <<upload, reprocessAt, files, cur, failure, backlog, cancelled>>

\* The file is gone or no longer parses, or the transaction failed.
RereadFails == Goto("rereading", "finish") /\ UNCHANGED <<cur, failure>>

FinishReprocess ==
  /\ pc = "finish" /\ Live
  /\ reprocessAt' = [reprocessAt EXCEPT ![cur] = NoDate]
  /\ pc' = "drain"
  /\ cur' = NoId
  /\ UNCHANGED <<status, upload, exec, error, changes, files,
                 failure, backlog, cancelled>>

FinishFails == Goto("finish", "idle") /\ cur' = NoId /\ UNCHANGED failure

\* The select of Run: woken by a nudge or by the ticker.
Wake == Goto("idle", "drain") /\ Live /\ UNCHANGED <<cur, failure>>

Return == Goto("idle", "returned") /\ cancelled /\ UNCHANGED <<cur, failure>>

-----------------------------------------------------------------------------

Worker ==
  \/ RequeueProcessing \/ RequeueFails
  \/ UploadsWithUnknownSnapshotDate \/ LookbackFails
  \/ SetSnapshotDate \/ SkipInBacklog \/ BackfillEnds
  \/ \E u \in Ids : ClaimNextPending(u)
  \/ NothingPending \/ ClaimFails
  \/ Admit \/ Refuse \/ Unreadable \/ LookupFails
  \/ Apply \/ ApplyFails \/ Remove
  \/ FailUpload \/ FailUploadFails
  \/ \E u \in Ids : ClaimNextReprocess(u)
  \/ NothingFlagged \/ ClaimReprocessFails
  \/ Reread \/ RereadFails
  \/ FinishReprocess \/ FinishFails
  \/ Wake \/ Return

Next ==
  \/ \E u \in Ids, r \in Requests : CreateUpload(u, r)
  \/ \E a \in Accounts, t \in RereadTimes : MarkForReprocess(a, t)
  \/ Start \/ Shutdown \/ Exit
  \/ Worker

Spec == Init /\ [][Next]_vars

-----------------------------------------------------------------------------
(* Safety *)

\* While the worker judges, records or fails an upload, that upload is claimed
\* and not yet decided; while it cleans up after one or rereads one, that
\* upload is in the history.  Nothing else (a request, a restart, FailUpload's
\* unguarded UPDATE) may take it out of the worker's hands.
ClaimHeld ==
  /\ pc \in {"judge", "apply", "fail"} => cur \in Ids /\ status[cur] = "processing"
  /\ pc \in {"remove", "rereading", "finish"} => cur \in Completed

\* An upload that is queued, claimed or failed has left no trace in the
\* history: no number, no lists, no change on either side of a comparison.
OnlyCompletedCount ==
  \A u \in Ids \ Completed :
    /\ exec[u] = NoExec
    /\ \A c \in changes : u \notin {c.upload, c.prev}

\* The stored numbers of an account's executions are 1, 2, ... without gaps,
\* and follow the dates the executions now carry, whatever order the uploads,
\* restarts, rereads and date corrections came in.
HistoryInDateOrder ==
  \A a \in Accounts :
    LET T == History(a)
    IN  /\ {exec[u].sequenceNo : u \in DOMAIN T} = 1..Cardinality(DOMAIN T)
        /\ \A u, v \in DOMAIN T :
             Precedes(T, u, v) => exec[u].sequenceNo < exec[v].sequenceNo

ChangedBy(u, v, kind, type) ==
  {c.user : c \in {d \in changes : /\ d.upload = v /\ d.prev = u
                                   /\ d.list = kind /\ d.type = type}}

\* Replaying the change log reproduces the lists: between any execution and
\* the one numbered next, each list both carried turns into the later one by
\* removing exactly who is recorded as unfollowed and adding exactly who is
\* recorded as followed.  No other change row exists.
ChangesReplay ==
  LET next(u, v) == /\ {u, v} \subseteq Completed
                    /\ upload[u].account = upload[v].account
                    /\ exec[v].sequenceNo = exec[u].sequenceNo + 1
  IN  /\ \A u, v \in Completed : next(u, v) =>
           \A kind \in Shared(exec[u].lists, exec[v].lists) :
             LET before == Members(exec[u].lists, kind)
                 after  == Members(exec[v].lists, kind)
                 came   == ChangedBy(u, v, kind, "followed")
                 left   == ChangedBy(u, v, kind, "unfollowed")
             IN  /\ left \subseteq before
                 /\ came \cap before = {}
                 /\ after = (before \ left) \cup came
      /\ \A c \in changes :
           /\ next(c.prev, c.upload)
           /\ c.list \in Shared(exec[c.prev].lists, exec[c.upload].lists)

\* What somebody uploaded is never lost: as long as the history does not hold
\* every list of an accepted file, the file itself is on disk.  (A legacy
\* execution may have lost its file to an older version.)
NothingLost ==
  \A u \in Existing \ files :
    /\ u \in Completed
    /\ \/ exec[u].lists = upload[u].export.lists
       \/ u \in DOMAIN Legacy /\ ~Legacy[u].kept

\* Every execution is dated by the strongest evidence there is for it, whether
\* it was dated at processing, by a reread or by the backfill of a start; the
\* last two never displace a date typed in by hand.
DatesAreBestEvidence ==
  \A u \in Completed :
    exec[u].source # "processing order" =>
      LET date == ResolveSnapshotDate(upload[u])
      IN  exec[u].takenAt = date.at /\ exec[u].source = date.source

\* An upload is failed for what it is or for a database error, never because
\* the service was shutting down; and never as partial against its override.
FailuresAreJustified ==
  \A u \in Ids :
    /\ status[u] = "failed" => error[u] \notin {"", "cancelled"}
    /\ error[u] = "partial" => ~upload[u].allowPartial
    /\ status[u] = "completed" => error[u] = ""

-----------------------------------------------------------------------------
(* What a step may never do *)

\* Nothing takes an execution out of the history again, and its lists are only
\* ever replaced by all the lists of its own file.
CompletedIsForever ==
  [][\A u \in Completed :
       /\ status'[u] = "completed"
       /\ exec'[u].lists \in {exec[u].lists, upload[u].export.lists}]_vars

\* Rereading an execution that was already read in full by this version
\* changes nothing at all in the history of any account.
RereadIsIdempotent ==
  [][(/\ pc = "rereading"
      /\ exec[cur].source # "processing order"
      /\ exec[cur].lists = upload[cur].export.lists
      /\ \A c \in changes : c.type = "unfollowed" /\ c.list = "followers"
                              => c.reason # NoReason)
     => UNCHANGED <<exec, changes>>]_vars

\* The uploads whose execution, or whose rows in the change log, a step rewrites.
Rewritten ==
  {u \in Ids : exec'[u] # exec[u]}
  \cup {c.upload : c \in (changes \ changes') \cup (changes' \ changes)}

\* A step touches the history of at most one account.
AccountsAreIndependent ==
  [][\A u, v \in Rewritten : upload[u].account = upload[v].account]_vars

Enters(v) == status[v] # "completed" /\ status'[v] = "completed"

\* u comes directly before v in the history the step leaves.
LandsAfter(u, v) ==
  /\ status'[u] = "completed"
  /\ upload[u].account = upload[v].account
  /\ exec'[v].sequenceNo = exec'[u].sequenceNo + 1

\* v has less than half the followers of u, and u is no small account.
CollapsesFrom(u, v) ==
  LET size(w) == Cardinality(Members(exec'[w].lists, "followers"))
  IN  size(u) >= CollapseMinimum /\ 2 * size(v) < size(u)

\* What the guard judged is what the history shows: an upload enters without
\* the override only if it does not collapse from the execution it lands
\* directly after, even though that execution was looked up in an earlier
\* transaction and the numbering is rebuilt in a later one.  (With another
\* execution of v's own date this need not hold: the lookup compares dates only,
\* the numbering breaks the tie by time of upload.)
GuardSeesNeighbour ==
  [][\A u, v \in Ids :
       /\ Enters(v) /\ LandsAfter(u, v) /\ ~upload[v].allowPartial
       /\ \A w \in Completed \ {v} : upload[w].account = upload[v].account
                                      => exec[w].takenAt # exec'[v].takenAt
       => ~CollapsesFrom(u, v)]_vars

-----------------------------------------------------------------------------
(* Order of upload *)

Sent(a) == {u \in Existing : upload[u].account = a}

\* Every upload of the account has been judged, none lost to an error.
Settled(a) ==
  \A u \in Sent(a) : \/ status[u] = "completed"
                     \/ status[u] = "failed" /\ error[u] = "partial"

\* Two accounts were sent the same files, each once, and each file bears a date
\* of its own.
SameFiles(a, b) ==
  LET file(u) == <<upload[u].export, upload[u].nameDate, upload[u].manual,
                   upload[u].allowPartial>>
      date(u) == ResolveSnapshotDate(upload[u])
  IN  /\ {file(u) : u \in Sent(a)} = {file(u) : u \in Sent(b)}
      /\ Cardinality(Sent(a)) = Cardinality(Sent(b))
      /\ \A u, v \in Sent(a) : date(u).at = date(v).at => u = v
      /\ \A u \in Sent(a) : date(u).source # "upload time"

\* Two accounts that were sent the same files, in any order and with any
\* interruptions, have the same history.
OrderOfUploadIsIrrelevant ==
  \A a, b \in Accounts :
    LET history(x) == {<<exec[u].sequenceNo, exec[u].takenAt, exec[u].lists>>
                         : u \in {v \in Completed : upload[v].account = x}}
    IN  Settled(a) /\ Settled(b) /\ SameFiles(a, b) => history(a) = history(b)
=============================================================================
