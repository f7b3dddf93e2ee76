# A TLA+ model of insta-follower-tracker

These modules model the tracker from the uploaded file to the page drawn from it:
the requests that bring an export, the parser that reads it, the queue and the
worker that empties it, the account histories that worker rebuilds, the
classification of who left, and the two reads that take several statements while
the worker goes on writing, the comparison and the trends page with its plots.
TLC checks them on small instances. Every invariant and every action property the
passing runs check is also a theorem: eight modules of proofs show for every
instance what the runs show for one.

    tlc -config MCCore.cfg MCTracker     one run (all are listed in PROJECT.json)
    tlapm HistoryProofs.tla              one module of proofs, a minute or two
                                         (TrackerProofs, HistoryProofs, WorkerLoopProofs,
                                         IntakeProofs, DeparturesProofs, Facts,
                                         ReadProofs, ExportProofs)

`PROJECT.json` maps every definition to the lines it models and lists the
hazards of the code with the properties aimed at them.

## 1. The system

One Go process over one SQLite database and one directory of uploaded files.
HTTP handlers run concurrently; **one** worker goroutine does everything that
changes a history.

| Component (source) | State | Operations |
| --- | --- | --- |
| History store (`internal/store`: `queries.go`, `snapshot.go`) | tables `uploads`, `snapshot_members`, `upload_lists`, `changes`; the queue is the column `uploads.status` | `CreateUpload`, `ClaimNextPending`, `FailUpload`, `RequeueProcessing`, `ApplySnapshot`, `SetSnapshotDate`, `MarkForReprocess`, `ClaimNextReprocess`, `FinishReprocess`, and inside two of them `recomputeAccount` |
| Departure classification (`internal/store/departure.go`) | the reason and rename columns of `changes` | `classifyDepartures`: five steps in order, each claiming what is left |
| Overall comparison (`internal/store/diff.go`, `httpapi/api.go`) | none of its own; reads the database in six statements | `handleAccountDiff`, `Diff` |
| Trends page (`httpapi/ui.go`, `httpapi/dashboard.go`, `store/queries.go`) | none of its own; reads the executions in one statement and the totals of each in one more | `AccountHistory`, `buildStats` |
| Upload worker (`internal/tracker`: `worker.go`, `reprocess.go`, `snapshotdate.go`, `coverage.go`) | where the goroutine is; the nudge channel; the raw files | `Run`, `drain`, `ProcessNext`, `process`, `reprocessNext`, `backfillSnapshotDates`, `checkCoverage` |
| Intake (`tracker/service.go`, `httpapi`) | staging directory, raw files | `Accept`, `Reprocess` |
| Lifecycle (`cmd/ift/main.go`) | the worker's context | start, SIGTERM, drain of the server, exit |
| Migrations (`internal/store/migrations`) | schema version | what they leave of an old database |
| Export parser (`internal/instagram`) | the rest of the decompression budget, while it runs | `Parse`, `OwnerFromArchive`: an archive entry by entry, a list part by part |
| Charts (`internal/chart`) | none | `BuildTrend`, `BuildDelta` |
| Other reads and pages (`internal/httpapi`, `internal/web`) | none | single statements, templates, formatting |
| Configuration, container entrypoint | none after start | environment, file ownership |

How they meet: a handler puts the file in place, inserts the row and then nudges
the worker through a channel of one slot; the worker also polls. It takes
pending uploads first and rereads second. A claimed upload is in no queue: only
the next start of the process puts it back. An upload that passes the coverage
guard is recorded by `ApplySnapshot`, which rebuilds the numbering and the
change log of its whole account in one transaction. Statements run under the
worker's context, so a shutdown makes every later statement fail.

What is hard here: dates arrive in any order and are corrected later, so an
upload is judged against one history and lands in another; the process may stop
between any two transactions, and the file on disk is not in them; a failure has
to be recorded with the context that has just failed; a comparison reads numbers
that the worker is renumbering; the same SQL has to distinguish a list that was
empty from one that was not carried. The parser has to make the same distinction
in four shapes of file, and its result must not depend on where in an archive the
parts lie; the plots have to show it as a gap. A classification is a sequence of
statements each of which claims what the ones before it left.

## 2. The modules

| Module | Models | Composition |
| --- | --- | --- |
| `Executions` | the arithmetic of a history: order, numbering, differences of neighbours, reasons, the predecessor of a date | operators only, extended by the rest |
| `Tracker` | the whole service, one step per transaction or decision | extends `Executions` |
| `MCTracker` | the files and old databases of the small instances | extends `Tracker` |
| `TrackerProofs` | what the worker holds and what the history, the files and the errors are | extends `Tracker` |
| `HistoryProofs` | that numbers, change log and dates are those of the history as it stands; what the guard judged, and rereading twice | extends `TrackerProofs` and `Facts` |
| `Facts` | induction, sums and folds; what the operators of `Executions` compute for a history of any length | extends `Executions` |
| `UploadQueue` | what the queue promises: every upload decided once, for good, in the end | abstract |
| `WorkerLoop` | when the worker runs: nudge, ticker, drain loop, shutdown, restart | implements `UploadQueue` |
| `WorkerLoopProofs` | that no nudge is lost and no reread queued twice, and the safety half of the refinement | extends `WorkerLoop` |
| `Intake`, `MCIntake` | the requests that bring uploads, step by step, and what they leave on disk | shows what `Tracker` assumes of its step `CreateUpload` |
| `IntakeProofs` | theorems about `Intake` | extends `Intake` |
| `Departures`, `MCDepartures` | `recordChanges` and `classifyDepartures`, statement by statement | shown to add up to `Executions!ChangesBetween` |
| `DeparturesProofs` | theorems about `Departures` | extends `Departures` |
| `NetDiff`, `MCNetDiff` | one diff request, statement by statement, against the worker's transactions | extends `Executions` |
| `Chart` | the two plots: axes, the path of a line, bars, labels | operators only |
| `Trends`, `MCTrends` | the trends page, statement by statement, against the same transactions | extends `NetDiff` and `Chart` |
| `ReadProofs` | theorems about both readers and the plots | extends `Trends` and `Facts` |
| `Export`, `MCExport` | the parser, on archives and bare files | its result is the field `export` of `Tracker`'s requests |
| `ExportProofs` | theorems about the parser | extends `Export` and `Facts` |

### Correspondence with the code

**Executions.** A history is a function from upload ids to
`[takenAt, uploadedAt, lists]`. `lists` is a function whose domain is the set of
kinds in `upload_lists`, so a list that was not carried differs from an empty
one; a list maps its members to `followed_at`. `Precedes` is the `ORDER BY` of
`executionsInDateOrder`; `SequenceNo`, `Neighbours` and `Changes` are the loop of
`recomputeAccount`; `DepartureReason` is the net effect of `classifyDepartures`.

**Tracker.** `status`, `upload`, `exec`, `error`, `reprocessAt` are columns of
`uploads` (`upload` those written once, `exec` those a recompute rewrites,
together with the recorded lists); `changes` is the table; `files` the upload
directory. `pc`, `cur`, `failure`, `backlog` are the worker's stack, `cancelled`
its context. `process` is cut at its transactions: `ClaimNextPending`, then
`Admit`/`Refuse`/`Unreadable`/`LookupFails`, then `Apply`/`ApplyFails`, then
`Remove`; failing goes through `FailUpload`/`FailUploadFails`. `RecomputeAccount`
is an operator inside `ApplySnapshot` and `SetSnapshotDate`, never a step. Every
statement may fail; under a cancelled context none succeeds. `Exit` may happen in
any state and keeps the database and the files. `Init` is either empty or what
migrations 0003, 0004 and 0006 leave of an older database.

**WorkerLoop** forgets what uploads contain and keeps what `Tracker` forgets:
handlers that have written but not yet nudged (`owed`), the slot (`nudge`), the
`select` of `Run`. `AfterError` is the error path of every step.

**Intake** gives each request a program counter through `Accept`: `pc` is the
call it makes next, `staged` and `placed` say whose bytes are under a name in the
staging directory and in those of the accounts, `row` is its row. A step ends in
an error when the client has gone (the statements run under the request's
context) or by a fault; `Fails` is what each error path removes. A name that is
taken is an error, and removing what is there removes the other request's file,
which is why the nonce matters (`FreshNames`). If the row cannot be read back,
`Accept` answers with an error although the upload is queued: the file stays, and
a client that sends again records the export twice.

**NetDiff** holds the history alone; numbers and change rows are
`SequenceNo(T)` and `Changes(T)`. `Tracker`'s `HistoryInDateOrder` and
`ChangesReplay` are the reason that is enough, and both are theorems. `Commit` is any
transaction of the worker that rebuilds it: `Insert` records an execution anywhere
in the history, `Reread` replaces the lists and the date of one that is there, and
`SetSnapshotDate` moves one (a reread may bring any lists `Possible` has, which is
more than the same file read again can). `asked` and `past` are not the program's:
they keep the history at the request's arrival and all it has been since, so that
the properties can say which history a reader may have seen.

**Trends** adds the other reader of several statements to the same database:
`ListUploads` reads the rows, `ListTotalsForUpload` the totals of one of them, and
the worker may commit between any two (`WorkerMeanwhile`). A behaviour serves either
a comparison or a page: both only read, so they cannot disturb each other. What
the page draws are operators of **Chart** over what was read. Positions are exact:
an integer in pixels times the scale of its axis stands for a float64. `Pen` is one
round of the loop of `BuildTrend`, `FromTheTop` the stable sort of
`separateLabels` (which of two lines ending at one height comes first makes no
difference to the labels), and a path keeps the lone `M` the code writes for
an execution without the list as a command of its own, `Gap`. A member of `Users`
stands for `Weight` people, so that counts have several digits without the
histories growing.

**Export** is the parser with its place in the archive as state: `InspectEntry`
for each entry, `ReadPart` for each part of the list at hand in the order of names,
`RecordList` and `Finish`. `budget` is what is left of `MaxDecompressedBytes`,
shared by all parts and by the summary page at the end. A document is its shape and
its entries; a name, a link and a banner are what they stand for. The properties
are stated over the file alone, never over the walk. `AcceptedHasFollowers` is the
assumption `RequestsAssumption` of `Tracker`.

### Abstractions

In `Tracker` a file is the record of what `Parse` says of it: readable, partial, a
date or none, its lists. Dates are small numbers, people model values. The counters
mirrored per list are left out except the follower count, which the guard reads
(`Trends` derives the others); error messages are reduced to their cause. `Accept`
is one step in `Tracker`, at the moment its row is inserted.

## 3. What is checked

The runs of `Tracker` and `WorkerLoop` that pass check deadlock; `Intake`,
`Departures`, `Export` and the two readers end with their request or file.

| Run | Question |
| --- | --- |
| `core` | One account, out-of-order, colliding, undated and hand-dated exports, rereads, crashes and failures: types, who holds the claim (`ClaimHeld`), no trace of the undecided (`OnlyCompletedCount`), numbering by date (`HistoryInDateOrder`), the change log replays the lists (`ChangesReplay`), the guard judged the real neighbour (`GuardSeesNeighbour`) |
| `legacy` | A database from before export dates, on top of it files that are not retained, unreadable, partial, undated or dated by hand, and a second account: `NothingLost`, `FailuresAreJustified`, `CompletedIsForever`, `DatesAreBestEvidence`, `RereadIsIdempotent`, `AccountsAreIndependent` |
| `worker` | Statements failing, two stops: `NoLostWakeup`, `EveryRereadTaken`, `ShutdownReturns`, `ImplementsQueue` |
| `intake` | Three concurrent requests, good and bad, a failing step, clients that go away, a process that ends: `QueuedHasItsFile`, `NothingStranded`, `RefusedWithCause` |
| `departures` | `StatementsAddUp`, `RenamesAreOneToOne`, `ReasonsHaveEvidence` |
| `reads` | One comparison or one page, with executions recorded, read again and dated again before and between its statements. A comparison is exact when the list was carried throughout and the history up to the newer end was left alone (`ExactWhenCarried`). The rows of a page are the history asked for, and the sizes of each are those of one moment since (`TrendIsAsAsked`); a bar whose ends stayed neighbours and as they were is their difference (`BarsAreTheComparison`); the headline agrees with the bars on a page whose executions were left alone (`TilesAgreeWithBars`); a line breaks where the list was not carried (`LinesBreakAtGaps`); the axes hold what is drawn (`PlotHoldsEverything`); labels do not overlap (`LabelsApart`) |
| `export` | Archives intact, damaged, too large and in every order, and bare files: `AcceptedHasFollowers`; a list is the union of its parts (`ListsAreTheirParts`); nothing is refused without a cause and nothing with one accepted (`RefusedForAReason`); `NarrowWindowIsRecognised`, `DatedByEvidence`; intake and worker name the same owner (`OwnerAgrees`) |

Five runs look for a disagreement between the code and what a comment or the
README says, and find it:

| Run | What happens |
| --- | --- |
| `upload_order` | the guard depends on what is already there, so the order of upload does matter once an account is large enough to be judged |
| `worker_dies` | a failing requeue at startup ends the worker and not the service |
| `diff_absent` | comparing with an execution that did not carry the list reports everybody as lost |
| `diff_torn` | an execution recorded or moved between two statements of a diff shifts the numbers the last one uses |
| `line_gap` | two executions in a row without a list leave a move without a point in the path of its line, after which nothing of it is drawn |

Below the size at which the guard judges, the order of upload is irrelevant: the
history of the executions is then a function of the files, because the numbers
follow the dates (`HistoryInDateOrder`), the dates are the files' own evidence
(`DatesAreBestEvidence`) and the lists are the files' lists.

Some conditions in the properties of the passing runs mark where the code does
less than its words suggest. `GuardSeesNeighbour` excludes another execution of
the same date: `PrecedingCompletedUpload` compares dates only, the numbering
breaks the tie by time of upload, and the two may name different neighbours. It
also speaks of the upload being admitted and not of the one that follows it in
the history: a backfilled export becomes the predecessor of an execution that was
judged without it. `DatesAreBestEvidence` excludes the executions still dated by
when they were processed: the backfill skips what it cannot read or write.

The two readers take no transaction, so a page or a comparison may mix histories.
`ExactWhenCarried` asks that the worker has left the history up to the newer of the
two executions as it was (`Settled`); otherwise the numbers of one moment are used at
another (`diff_torn`), and the two ends may even be put in order by numbers of two
moments. It also asks that the executions in between carried the list: one that
skipped it hides the departure, and "Returned" then misses who came back.
`TrendIsAsAsked` allows an execution that is read again while the page is read to be
drawn with its old or its new sizes. `BarsAreTheComparison` asks that the two ends have
been neighbours, and have had their lists, since the page was asked for
(`Together`): an export recorded between them meanwhile, or one of them read again
or moved, makes the bar span one pair and count another. `TilesAgreeWithBars` asks
that all executions drawn were left alone, and carried the list: where one of them
did not, the two figures are of different things.

`PlotHoldsEverything` lets bars that are widened to three pixels overlap the next,
and the last reach over the end of the axis, by four pixels at most; it leaves an
axis up to 1 its repeated marks. `LabelsApart` does not say that labels stay within the
drawing: those of three or more lines that end near zero may not.

`Export` meets four behaviours that no run holds against the code, since no text of
the repository clearly promises otherwise, or only for another case. An entry
without a modification time is dated to the epoch of the archive format, so an
archive in which nothing states a date is dated 30 November 1979 rather than not at
all (`DosEpoch`). "One unreadable part should not discard the others" holds for a
part that is no list, while one that does not decompress refuses the whole file.
Lists that fill the budget leave none for the summary page, and a narrow window it
declares goes unnoticed. Of two summary pages intake reads the first and the worker
the last. The conditions of `RefusedForAReason`, `NarrowWindowIsRecognised`,
`DatedByEvidence` and `OwnerAgrees` say so.

### Bounds

* `MCTracker`: three uploads of one account, or two on top of two legacy ones, or
  four for two accounts; three people, two list kinds, three dates. Three executions
  give a first, a middle and a last, so an insertion before, between and after,
  and a pair that becomes neighbours by a third; with three dates two of them can
  collide. A guard needs two sizes on either side of the half, hence three people
  and `CollapseMinimum = 2`. `RereadTimes` holds one or two moments, so flags tie or
  are ordered.
* `WorkerLoop`: three uploads, two handlers between write and nudge (one to fill
  the slot and one to find it full), two failing statements, two stops.
* `Intake`: three requests, so that one can disturb a pair; seven forms, one for
  each way a request is refused and one for each source of the account; one
  failing step and one end of the process; names and requests are symmetric.
* `Departures`: every follower list of three people with two timestamps or none
  on both sides, so two can share one and a third not.
* `NetDiff`: four executions, when a request arrives, less one for each transaction
  of the worker after that (`MaxExecutions`), of which one may change the history
  (`MaxWrites`): two ends and one between suffice to be torn by a fourth that arrives,
  or by one of the three that is moved or read again. One person, since the buckets
  treat people independently; the other list is absent, empty or has her. Two dates
  let an execution land, or move, before, between or after the rest.
* `Trends`: the same, with `MaxSeen` for `MaxWrites`; of four executions two may lack a
  list in a row; days next to each other and a year apart, so bars are widened or
  not, the last included; one person stands for ten and the other for herself, so
  totals take one and two digits and axes of 1, 10 and 20 occur.
* `Export`: up to three entries in every order, and some archives of four, with
  `MaxArchiveEntries = 3` and `MaxDecompressedBytes = 3`, so both limits are met
  exactly and exceeded; two people, two parts of the follower list, windows of one,
  two and three days against `NarrowWindowDays = 2`. `DosEpoch` lies before every
  date a page states.

### Fairness

Only `WorkerLoop` states any: weak fairness of the worker goroutine and of the
handlers (the Go scheduler runs them; a handler that has written always reaches
`Notify`), of the end of a process whose worker has returned (`main` returns),
and of a start (`restart: unless-stopped` in the Compose file). Nothing is
assumed about the stops, which may come anywhere but are bounded, nor about
failing statements. In `worker` the requeue and `FailUpload` do not fail
by themselves: after the first the worker is gone (`worker_dies`), after the
second the upload waits in `processing` for the next start, which nothing
guarantees. Shutdowns make both fail, in all runs.

## 4. What is proved

Each theorem holds for every value of the constants that meets the named
assumptions of its module; the run checks the same property on its instance.

### The service (`TrackerProofs`, `HistoryProofs`)

Assumed of `Tracker`: dates and timestamps are positive numbers, people are a
finite set, every readable file carries a follower list (`AcceptedHasFollowers` of
`Export`), and an old database is an initial segment of the ids none of which has a
date typed in, a column migration 0003 adds.

| Module | Theorem | Property |
| --- | --- | --- |
| `TrackerProofs` | `TypeCorrect` | `TypeOK` |
| | `ClaimIsHeld` | `ClaimHeld` |
| | `HistoryIsOfCompleted` | `OnlyCompletedCount` |
| | `NoUploadIsLost` | `NothingLost` |
| | `NoUnjustFailure` | `FailuresAreJustified` |
| | `CompletedForGood` | `CompletedIsForever` |
| | `OneAccountAtATime` | `AccountsAreIndependent` |
| `HistoryProofs` | `NumbersFollowDates` | `HistoryInDateOrder` |
| | `LogReplays` | `ChangesReplay` |
| | `BestEvidenceDates` | `DatesAreBestEvidence` |
| | `GuardJudgesNeighbour` | `GuardSeesNeighbour` |
| | `RereadTwiceIsOnce` | `RereadIsIdempotent` |

The inductive invariant `IInv` of `TrackerProofs` is the conjunction of its
properties and five facts that none of them says: what was requested is well
formed and an absent row empty (`KnownUploads`); the backfill's list holds
executions only (`BacklogInHistory`), without which dating one could write to an
upload that is still queued; when the worker is about to remove a file the history
holds its lists (`RemoveSafe`); errors belong to failed uploads (`ErrorsOnFailed`),
needed because a new row must start without one; and the failure on its way to
`FailUpload` is a real one, or the shutdown's while the shutdown lasts
(`CauseHeld`), which is why a live `FailUpload` cannot record it.
`RecomputeAccountKeeps` says what a recompute may touch; `RewriteKeeps` and
`ApplySnapshotKeeps` carry it to the transactions that contain one; the steps that
write nothing are settled together by `QuietStep`, the others one lemma each.

`HistoryProofs` adds three invariants. `AllRebuilt`: every account is as its last
recompute left it, that is, its numbers and follower counts are those of its
history and its rows of `changes` are `Changes` of it, or those without their
reasons where migration 0006 found them. A step keeps it by ending in a recompute
(`RebuildStep`) or by leaving the history alone (`SameHistorySameLog`). What a
reader may rely on then follows from lemmas about data alone: the `ORDER BY` is a
total order (`PrecedesIsAnOrder`), the numbers are 1 to the length of the history
in that order (`Ranking`), and `Changes` has exactly the differences of neighbours
(`ChangesAreLog`). `Dated`: an execution is dated by the best evidence its upload
holds, or still by when it was processed, and in that case nobody has typed in a
date for it; without the second half the backfill, which does not look at that
column, could displace one.

A third, `Judged`: while the worker is between its verdict and
its transaction, the verdict still holds, since a request in between neither
completes an upload nor touches a row that exists. In a history numbered by date
everybody who precedes an upload is its direct predecessor or precedes that too
(`DirectlyBefore`), so the execution the guard looked up is the one the upload lands
after (`ApplySeesNeighbour`). For rereading, `RebuildRestores` shows that a recompute
of a rebuilt account is the identity, provided that its log holds no departure
without a reason.

### The worker loop (`WorkerLoopProofs`)

Assumed: the bounds are natural numbers, the failing statements are some of the
worker's steps.

| Theorem | States |
| --- | --- |
| `WorkerIsTyped` | `TypeOK` |
| `WakeupsAreKept` | `NoLostWakeup` |
| `WorkerIsAQueue` | `Queue!Safety`, the initial condition and step of `UploadQueue` under the refinement mapping of `ImplementsQueue`: decided at most once and for good, in whatever order |

The invariant says that an upload the worker decides about is claimed (`Claimed`),
and that what it looked for and did not find is still not there unless somebody is
about to wake it (`Looked`). The types say more than types: an execution waits for
at most one reread (`Queued`). Flagging adds those not yet flagged, in any order
(`Flag`: rows of one statement have one `reprocess_at`), and taking one off leaves
the others where they are.

### The intake (`IntakeProofs`)

Assumed: the sentinels are none of the values, what a request brings is a form.

| Theorem | Property |
| --- | --- |
| `RequestsAreTyped` | `TypeOK` |
| `QueuedFilesAreThere` | `QueuedHasItsFile` |
| `AnsweredLeavesNothing` | `NothingStranded` |
| `RefusalHasCause` | `RefusedWithCause` |

The inductive invariant is ownership: no two requests have drawn one name
(`NamesDiffer`); what is in staging is there under its owner's name while the
owner is between creating and moving it, or was cut off (`StagedIsOwn`); what is
in place is there under its owner's path, and if the owner has been answered, with
its row (`PlacedIsOwn`). `Known` and `RowsAreLate` say from which step on a
request has a name, an account and a row; without the last, removing the file of
a failed insert could take the file of a queued upload. Each step keeps the parts
it touches by one lemma; `StagingUntouched`, `StagingLeft` and `NothingPlaced`
settle the steps that do not touch, leave, or add to a directory.

### The classification (`DeparturesProofs`)

Assumed: a list is a finite set of people.

| Theorem | Property |
| --- | --- |
| `StatementsAreOneStep` | `StatementsAddUp` |
| `OnePersonOneRename` | `RenamesAreOneToOne` |
| `ReasonsFollowEvidence` | `ReasonsHaveEvidence` |

The invariant `Stage` gives the rows after each statement as functions of people:
the reasons found so far (`AreRenamed`, `AfterBlocked`, `AfterSurvivors`,
`AfterVanished`, `AfterRest`) and the two names of a rename. `AnswersAddUp` shows
that the last of these is `DepartureReason`; `PairsAreRenames` that the counts of
the rename statement single out the pairs `Renamed` describes. The first theorem
is what entitles `Tracker` to take the transaction as one step. The others are
read off the finished rows (`FinishedRows`, `OnePerson`).

### The two readers and the plots (`ReadProofs`)

Assumed: people and list kinds are finite sets, everybody stands for at least one
person, what is recorded is an execution (`IsExecution`: dates are integers, lists
are of known kinds and people), and no list has more than `MaxPeople` people. The
last is the code's own limit: nobody takes less than a byte of the 200 MiB that are
read of an upload. Only the axes need it, whose steps are powers of ten.

| Theorem | Property |
| --- | --- |
| `TypesOfReads` | `PageTypeOK` |
| `ComparisonIsExact` | `ExactWhenCarried` |
| `PageIsAsAsked` | `TrendIsAsAsked` |
| `BarsCompare` | `BarsAreTheComparison` |
| `TilesAndBars` | `TilesAgreeWithBars` |
| `LinesBreak` | `LinesBreakAtGaps` |
| `PlotHolds` | `PlotHoldsEverything` |
| `LabelsReadable` | `LabelsApart` |

The history may be rebuilt in any way between two statements, so the inductive
invariant `IInv` relates what was read to the histories there have *been*, `past`.
None of them had less than the first or more than the last, and each holds
executions the worker may record (`Kept`). For a comparison (`Comparing`), each end is
what its row was in one of them (`IsEnd`), and each bucket what its statement
computes in one of them, not necessarily the same (`Filled`). For a page (`Paging`),
the rows are the history asked for in its order (`Listed`), and the totals of a row
those of one of them (`Totalled`).

Every property then says of which histories that is enough. What a statement
computes up to a number depends on the executions up to that number alone: if two
histories agree on the n oldest they give them the same numbers (`SameNumbers`), the
same rows of the change log (`SameRows`) and the same neighbours (`SameNeighbours`).
So a comparison that found the history up to its newer end the same each time is a
comparison of the last one (`ReadsAreOfNow`), and the differences read for a pair that
stayed together are those of the pair (`BarIsDifference`). `ComparisonIsExact` further
needs that who left on the way and was there at the end must have been recorded as
leaving (`LeftOnTheWay`, by the least execution that lacks the person), and
`TilesAndBars` that the differences of a list telescope (`TotalTelescopes`,
`PeopleMove`).

What is drawn follows from lemmas about the operators of `Chart`. A path is what is
there after the last round of `Pen`, and `IsLine` is what every round keeps: a line
leads from the round before, and a path that does not end in a gap ends in the round
just drawn. Labels likewise: `AreApart` is what `Nudge` keeps, one label at a time.
A round maximum is 1 or divisible by two or five (`NiceCeilingHolds`), so its marks
are whole (`MarksAreEven`); it holds what is drawn because no figure exceeds
`MaxPeople` (`PeopleFit`, `RecordedIsListed`). Bars stand in order because times do
(`BarsStand`).

### The parser (`ExportProofs`)

Assumed: a file is bytes that are not an export, a bare document, or an archive of
any number of entries (`FilesAssumption`), the kinds of `listDefinitions` differ and
start with the followers, the limits are natural numbers, and `DosEpoch` is a date.

| Theorem | Property |
| --- | --- |
| `TypesOfTheParse` | `TypeOK` |
| `AcceptedIsUsable` | `AcceptedHasFollowers` |
| `ListsAreComplete` | `ListsAreTheirParts` |
| `RefusalIsJustified` | `RefusedForAReason` |
| `WindowIsRecognised` | `NarrowWindowIsRecognised` |
| `DateIsEvidence` | `DatedByEvidence` |
| `OwnersAgree` | `OwnerAgrees` |

The invariant says where the parser is in the archive. The walk has found exactly
the parts, the last summary page and the newest time among the entries inspected
(`Walked`). While lists are read, the members at hand are a merge of the parts read
so far, each wholly before the next in the order of names (`IsMerge`); the lists
finished hold what their parts say (`HoldsLists`); and the budget is the limit less
the total of the parts read (`Afforded`), so that it runs out only if the whole
archive would exceed it. A refusal carries its reason (`HasReason`).

### How the proofs do without induction over data

The provers cannot use the library's induction theorems, whose predicate is an
operator. `Facts` restates them with a *set* in its place: numbers, or subsets of a
finite set, that are in `G` whenever the smaller ones are (`StrongInduction`,
`SubsetInduction`). With them it shows that the recursive function inside a fold or
a sum of the community modules exists and takes its elements one after the other
(`FoldingExists`, `CountingExists`, `TotalUnfolds`), after which a property of a
fold is an invariant of its rounds.

### Only model-checked

Everything about time: `EveryRereadTaken`, `ShutdownReturns` and the fairness half of
`ImplementsQueue`, since the prover has no rule for fairness.

## 5. What is not modelled

* Power failure below SQLite's WAL (`synchronous = NORMAL`), and a commit whose
  statement reports an error although it took effect.
* Running the migrations, and uploads that were pending or failed when migration
  0003 ran.
* That an intake whose row cannot be read back answers with an error for an upload
  that is queued, and that nothing looks again at what a process that ended left in
  staging: `Intake` has both, no property forbids them, because nothing in the code
  promises otherwise.
* The reads that are one statement each, with their filters and pages: a statement
  sees one state of the database, for which the invariants of `Tracker` hold.
* Of the plots, tooltips, colours, the labels of the time axis and the rounding to
  a tenth of a pixel; of the parser, how names, links and dates are spelt.
* Rounding in the plots' arithmetic: the power of ten of an axis is exact here and
  comes from a `float64` logarithm in the code. One short of an exact power the loop of
  `niceCeiling` ends at the same maximum.
* That two uploads draw the same random name: `FreshNames` assumes they do not, and
  what `intake` and `IntakeProofs` say of names rests on it.
* A steady flow of uploads, which would keep rereads waiting for ever ("New uploads
  come first"): `MaxUploads` bounds it.
* Templates and formatting, configuration and the entrypoint: functions without
  state, or I/O before the program starts.
* Files that cannot be removed: the code ignores the error of `os.Remove`.

## 6. Plan

In order of weight; all but the last is in place.

1. `Executions`, `Tracker`: the history, the worker, crashes. Then `WorkerLoop`
   with `UploadQueue`, `Departures`, `NetDiff`.
2. `TrackerProofs`, then `HistoryProofs`.
3. `Intake` with `IntakeProofs`, `WorkerLoopProofs`, `DeparturesProofs`.
4. `Export`, `Chart`, `Trends`.
5. `Facts`, then `ReadProofs` and `ExportProofs`: comparisons, pages and files of
   any size.
6. The dates of a migrated database: uploads pending when migration 0003 ran.
