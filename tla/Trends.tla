------------------------------- MODULE Trends -------------------------------
(***************************************************************************)
(* GET /accounts/{handle}/trends: AccountHistory reads the executions in   *)
(* one statement and the totals of each in one of its own, while the       *)
(* worker goes on rebuilding the history; the page is drawn from what was  *)
(* read.                                                                   *)
(*                                                                         *)
(* The database, and its other reader, are NetDiff's.  A behaviour serves  *)
(* one of the two requests: they write nothing and so cannot meet.         *)
(***************************************************************************)
EXTENDS NetDiff, Chart, Sequences, FiniteSetsExt

CONSTANTS
  Plotted,    \* the executions that may be recorded when a page is asked for
  MaxSeen,    \* bound: different histories the worker makes while it is served
  Weight      \* how many people each member of Users stands for

ASSUME WeightAssumption ==
  /\ IsFiniteSet(Users) /\ IsFiniteSet(Kinds)
  /\ DOMAIN Weight = Users /\ \A u \in Users : Weight[u] \in Nat \ {0}

\* How many people are on a list of names.
People(S) == MapThenSumSet(LAMBDA u : Weight[u], S)

\* No list has more, as nobody takes less than a byte of the 200 MiB that are
\* read of an upload (MaxDecompressedBytes, MaxJSONBytes).
MaxPeople == 200 * 1024 * 1024

ASSUME PlottedAssumption ==
  /\ MaxSeen \in Nat
  /\ \A e \in Plotted :
       /\ IsExecution(e)
       /\ \A k \in DOMAIN e.lists : People(DOMAIN e.lists[k]) <= MaxPeople

VARIABLES
  at,      \* the statement the page runs next
  rows,    \* the executions read, oldest first
  totals   \* the totals read so far, one for each of the first rows

page    == <<at, rows, totals>>
allVars == <<vars, page>>

TrendsInit ==
  /\ Blank
  /\ rows = <<>> /\ totals = <<>>
  /\ \/ pc = "from" /\ at = "done"       \* a comparison is asked for
     \/ pc = "idle" /\ at = "uploads"    \* the page is asked for

Compare == Next /\ UNCHANGED page

\* The worker commits before the page is asked for or between any two of its
\* statements.
WorkerMeanwhile ==
  /\ at # "done" /\ Cardinality(past) <= MaxSeen
  /\ Commit(Plotted)
  /\ Seen(at # "uploads")
  /\ UNCHANGED <<pc, kind, from, to, buckets, page>>

-----------------------------------------------------------------------------
(* The statements *)

\* Mutant: the rows are taken as they come.
ListUploads_NewestFirst ==
  /\ at = "uploads"
  /\ rows' = [n \in 1..Cardinality(DOMAIN T) |->
                LET u == CHOOSE v \in DOMAIN T :
                           SequenceNo(T)[v] = Cardinality(DOMAIN T) + 1 - n
                IN  [id |-> u, takenAt |-> T[u].takenAt]]
  /\ at' = IF T = [u \in {} |-> {}] THEN "done" ELSE "totals"
  /\ UNCHANGED <<vars, totals>>

\* ListUploads, its completed rows from the last to the first.
ListUploads ==
  /\ at = "uploads"
  /\ rows' = [n \in 1..Cardinality(DOMAIN T) |->
                LET u == CHOOSE v \in DOMAIN T : SequenceNo(T)[v] = n
                IN  [id |-> u, takenAt |-> T[u].takenAt]]
  /\ at' = IF T = [u \in {} |-> {}] THEN "done" ELSE "totals"
  /\ UNCHANGED <<vars, totals>>

\* Those the change log of H says came to, or left, list k with execution u.
Counted(H, u, k, type) ==
  People({c.user : c \in {d \in Changes(H) :
                            d.upload = u /\ d.list = k /\ d.type = type}})

\* Mutants: the counts are those of the whole log; or net of each other.
TotalsOf_WholeLog(H, u) ==
  [k \in DOMAIN H[u].lists |->
     [members |-> People(Members(H[u].lists, k)),
      added   |-> People({c.user : c \in {d \in Changes(H) :
                                            d.list = k /\ d.type = "followed"}}),
      removed |-> Counted(H, u, k, "unfollowed")]]

TotalsOf_Net(H, u) ==
  [k \in DOMAIN H[u].lists |->
     [members |-> People(Members(H[u].lists, k)),
      added   |-> Counted(H, u, k, "followed") - Counted(H, u, k, "unfollowed"),
      removed |-> Counted(H, u, k, "unfollowed")]]

\* The rows of upload_lists for u, as the recompute that left H left them.
TotalsOf(H, u) ==
  [k \in DOMAIN H[u].lists |->
     [members |-> People(Members(H[u].lists, k)),
      added   |-> Counted(H, u, k, "followed"),
      removed |-> Counted(H, u, k, "unfollowed")]]

ListTotalsForUpload ==
  /\ at = "totals"
  /\ totals' = Append(totals, TotalsOf(T, rows[Len(totals) + 1].id))
  /\ at' = IF Len(totals) + 1 = Len(rows) THEN "done" ELSE "totals"
  /\ UNCHANGED <<vars, rows>>

TrendsNext ==
  \/ Compare
  \/ WorkerMeanwhile
  \/ ListUploads \/ ListTotalsForUpload

TrendsSpec == TrendsInit /\ [][TrendsNext]_allVars

-----------------------------------------------------------------------------
(* The page *)

\* toChartExecutions
Executed ==
  [i \in DOMAIN totals |->
     [takenAt |-> rows[i].takenAt,
      totals  |-> [k \in DOMAIN totals[i] |-> totals[i][k].members],
      added   |-> [k \in DOMAIN totals[i] |-> totals[i][k].added],
      removed |-> [k \in DOMAIN totals[i] |-> totals[i][k].removed]]]

Present == UNION {DOMAIN totals[i] : i \in DOMAIN totals}

\* The list whose changes are shown: the one asked for if there is one.
ListKind == IF kind \in Present THEN kind ELSE "followers"

\* Mutant: what the list gained and lost since the second execution.
Delta_SinceSecond(k) ==
  Executed[Len(totals)].totals[k] - Executed[IF Len(totals) > 2 THEN 2 ELSE 1].totals[k]

\* buildStats: how far a list has moved from the first execution to the last.
Delta(k) == Executed[Len(totals)].totals[k] - Executed[1].totals[k]

HasDelta(k) ==
  /\ Len(totals) > 1
  /\ k \in DOMAIN totals[1] \cap DOMAIN totals[Len(totals)]

Served == at = "done" /\ rows # <<>>

-----------------------------------------------------------------------------

PageTypeOK ==
  /\ TypeOK
  /\ at \in {"uploads", "totals", "done"}
  /\ \A i \in DOMAIN rows : rows[i].id \in DOMAIN T /\ rows[i].takenAt \in Int
  /\ Len(totals) <= Len(rows)
  /\ \A i \in DOMAIN totals : \A k \in DOMAIN totals[i] :
       k \in Kinds /\ totals[i][k] \in [members : Nat, added : Nat, removed : Nat]

\* Whatever the worker did meanwhile, the lines are those of one history, the one
\* there was when the page was asked for, with its executions in order at their
\* dates; and each is drawn with the lists it had at one moment since, so only
\* one that was read again meanwhile may differ from that history.
TrendIsAsAsked ==
  Served =>
    /\ {rows[i].id : i \in DOMAIN rows} = DOMAIN asked
    /\ \A i, j \in DOMAIN rows : i < j => Precedes(asked, rows[i].id, rows[j].id)
    /\ LET drawn == Executed IN \A i \in DOMAIN rows :
         /\ drawn[i].takenAt = asked[rows[i].id].takenAt
         /\ \E H \in past :
              drawn[i].totals = [k \in DOMAIN H[rows[i].id].lists |->
                                   People(Members(H[rows[i].id].lists, k))]

\* All the time since the request arrived, p was followed by u, and both had the
\* lists they have now.
Together(p, u) ==
  \A H \in past : /\ <<p, u>> \in Neighbours(H)
                  /\ H[p].lists = T[p].lists /\ H[u].lists = T[u].lists

\* "Each bar spans the interval between the two executions it compares": the bar
\* shows how many are on one list and not on the other, as long as the worker has
\* left the two next to each other and as they were, whatever it did elsewhere in
\* the history.  (An execution that comes between them meanwhile, or one of them
\* read again or moved, makes the bar span one pair and count another.)
BarsAreTheComparison ==
  Served =>
    \A i \in 1..(Len(rows) - 1) : Together(rows[i].id, rows[i + 1].id) =>
      LET prev == T[rows[i].id].lists
          cur  == T[rows[i + 1].id].lists
          bar  == Bar(Executed, i + 1, ListKind)
      IN  IF ListKind \in Shared(prev, cur)
            THEN /\ bar.gained = People(Arrived(prev, cur, ListKind))
                 /\ bar.lost = People(Departed(prev, cur, ListKind))
            ELSE bar.gained = 0 /\ bar.lost = 0

\* The headline and the bars tell one story: on a page whose executions the worker
\* has left alone, whatever it added after them, a list that every execution
\* carried has moved by the sum of what its bars gained less what they lost.
TilesAgreeWithBars ==
  /\ Served /\ Settled(Len(rows))
  /\ HasDelta(ListKind) /\ \A i \in DOMAIN totals : ListKind \in DOMAIN totals[i]
  => Delta(ListKind) =
       MapThenSumSet(LAMBDA i : Bar(Executed, i, ListKind).gained
                                - Bar(Executed, i, ListKind).lost, 2..Len(totals))

Trend == BuildTrend(Executed, Kinds)

\* Where two points of a line are joined, every execution between them carried
\* the list, so there is none: "the line breaks rather than implying a value".
LinesBreakAtGaps ==
  Served =>
    LET trend == Trend IN ~trend.empty =>
      \A k \in trend.kinds : \A j \in Drawn(trend.paths[k]) :
        trend.paths[k][j].verb = "L" =>
          trend.paths[k][j].i = trend.paths[k][j - 1].i + 1

\* The same comment read the other way: the line breaks there and goes on, so
\* every execution that carried a list has its point on the list's line.
LineReachesEveryPoint ==
  Served =>
    LET trend == Trend IN ~trend.empty =>
      \A i \in DOMAIN totals : \A k \in DOMAIN totals[i] :
        \E j \in Drawn(trend.paths[k]) : trend.paths[k][j].i = i

\* The marks of an axis rise evenly from zero to its maximum.
Rises(top) ==
  LET ticks == ValueTicks(top)
      n     == Cardinality(DOMAIN ticks) - 1
  IN  /\ ticks[0] = 0 /\ ticks[n] = top
      /\ top = 1 \/ \A i \in 1..n : ticks[i] > ticks[i - 1] /\ n * ticks[i] = i * top

\* The drawing stays where the axes are: the round maximum holds every total and
\* every bar, the marks rise from zero to it (unless it is 1, which cannot be
\* divided), and the bars stand in order between the ends of the time axis.  Only
\* one that is widened to be visible may reach over the next, or over the end of
\* the axis, and then by four pixels at most.
PlotHoldsEverything ==
  Served =>
    LET trend == Trend
        delta == BuildDelta(Executed, ListKind)
        span  == Span(Executed)
        right(bar)   == bar.x + bar.width
        widened(bar) == bar.width = MinBar * span
    IN  /\ ~trend.empty =>
             /\ Rises(trend.top)
             /\ \A i \in DOMAIN totals : \A k \in DOMAIN totals[i] :
                  YOf(totals[i][k].members, trend.top)
                    \in (PlotTop * trend.top)..(TrendBottom * trend.top)
        /\ ~delta.empty =>
             /\ Rises(delta.top)
             /\ \A i \in DOMAIN delta.bars :
                  LET bar == delta.bars[i]
                      end == IF (i + 1) \in DOMAIN delta.bars THEN delta.bars[i + 1].x
                                                              ELSE PlotRight * span
                  IN  /\ {bar.gained, bar.lost} \subseteq 0..delta.top
                      /\ bar.x > PlotLeft * span
                      /\ IF widened(bar) THEN right(bar) <= (PlotRight + MinBar + 1) * span
                                         ELSE right(bar) < end

\* "So the labels stay readable": one label for each line, every two of them
\* far enough apart, and none above the end of every line it could belong to.
LabelsApart ==
  Served =>
    LET trend == Trend IN ~trend.empty =>
      /\ Len(trend.labels) = Cardinality(trend.kinds)
      /\ \A i, j \in DOMAIN trend.labels :
           i < j => trend.labels[j] - trend.labels[i] >= LabelGap * trend.top
      /\ \E line \in [DOMAIN trend.labels -> trend.kinds] :
           /\ {line[i] : i \in DOMAIN line} = trend.kinds
           /\ \A i \in DOMAIN line : trend.labels[i] >= trend.ends[line[i]]
=============================================================================
