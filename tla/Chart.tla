-------------------------------- MODULE Chart --------------------------------
(***************************************************************************)
(* Package chart: how a history is laid out.  Operators only, over a       *)
(* sequence of executions, oldest first, each a record                     *)
(*   [takenAt |-> date, totals, added, removed],                           *)
(* the last three functions from the kinds it carried to counts.           *)
(*                                                                         *)
(* Positions are exact: what the code holds in a float64 is an integer     *)
(* here, counted in pixels divided by the scale of its axis (heights by    *)
(* the axis maximum, horizontal positions by the span of the dates).       *)
(***************************************************************************)
EXTENDS Integers, SequencesExt

PlotLeft   == 46
PlotRight  == 720 - 86
PlotTop    == 14
TrendBottom == 220 - 30

LabelGap   == 14   \* minGap
MinBar     == 3    \* the least width of a bar

Empty == [empty |-> TRUE]

-----------------------------------------------------------------------------
(* Axes *)

\* Those an axis of up to ten billion needs.
PowersOfTen == {1, 10, 100, 1000, 10000, 100000, 1000000, 10000000, 100000000,
                1000000000}

\* Mutant: the steps are rounded to the nearest instead of up.
NiceCeiling_Nearest(v) ==
  IF v <= 0 THEN 1
  ELSE LET m == CHOOSE p \in PowersOfTen : p <= v /\ v < 10 * p
       IN  Max({s \in {m, 2 * m, (5 * m) \div 2, 5 * m, 10 * m} : s <= v})

\* The least of 1, 2, 2.5, 5 and 10 times a power of ten that holds v.
NiceCeiling(v) ==
  IF v <= 0 THEN 1
  ELSE LET m == CHOOSE p \in PowersOfTen : p <= v /\ v < 10 * p
       IN  Min({s \in {m, 2 * m, (5 * m) \div 2, 5 * m, 10 * m} : s >= v})

\* As many divisions as land on whole numbers, four if none does.
ValueTicks(top) ==
  LET divisions == <<4, 5, 2, 3>>
      fit == {j \in DOMAIN divisions : top % divisions[j] = 0}
      n   == IF fit = {} THEN 4 ELSE divisions[Min(fit)]
  IN  [i \in 0..n |-> (top * i) \div n]

Dates(executions) == {executions[i].takenAt : i \in DOMAIN executions}

\* timeRange: one day wide at least.
MinT(executions) == Min(Dates(executions))
Span(executions) ==
  LET width == Max(Dates(executions)) - MinT(executions)
  IN  IF width > 0 THEN width ELSE 1

\* scaleTime, times Span.
XOf(executions, at) ==
  PlotLeft * Span(executions) + (at - MinT(executions)) * (PlotRight - PlotLeft)

\* yOf, times the axis maximum.
YOf(v, top) == TrendBottom * top - v * (TrendBottom - PlotTop)

-----------------------------------------------------------------------------
(* Totals over time *)

\* A path is a sequence of commands, each moving the pen to an execution's point
\* or drawing a line to it; "gap" is a move that has no point yet.
Gap == [verb |-> "gap", i |-> 0]

EndsInGap(path)  == path # <<>> /\ Last(path) = Gap
WithoutGap(path) == IF EndsInGap(path) THEN Front(path) ELSE path

\* Mutant: an execution without the list leaves no trace.
Pen_IgnoresGaps(path, e, i, kind) ==
  IF kind \notin DOMAIN e.totals THEN path
  ELSE Append(path, [verb |-> IF path = <<>> THEN "M" ELSE "L", i |-> i])

\* One round of BuildTrend's loop over the executions.
Pen(path, e, i, kind) ==
  IF kind \notin DOMAIN e.totals THEN Append(path, Gap)
  ELSE Append(WithoutGap(path),
              [verb |-> IF path = <<>> \/ EndsInGap(path) THEN "M" ELSE "L", i |-> i])

Path(executions, kind) ==
  WithoutGap(FoldLeftDomain(LAMBDA path, i : Pen(path, executions[i], i, kind),
                            <<>>, executions))

\* What is drawn of a path: a move without a point is an error in the path, and
\* nothing after it is drawn.
Drawn(path) ==
  {j \in DOMAIN path : \A l \in 1..j : path[l] # Gap}

\* Mutant: only labels at the very same height are moved.
Nudge_OnlyEqual(placed, y, gap) ==
  Append(placed, IF placed # <<>> /\ y = Last(placed) THEN y + gap ELSE y)

Nudge(placed, y, gap) ==
  Append(placed, IF placed # <<>> /\ y - Last(placed) < gap THEN Last(placed) + gap
                                                            ELSE y)

\* The kinds in the order in which their lines end.
FromTheTop(ends) ==
  CHOOSE order \in SetToSeqs(DOMAIN ends) :
    \A i, j \in DOMAIN order : i < j => ends[order[i]] <= ends[order[j]]

\* separateLabels: from the top down, each at least gap below the one before.
SeparateLabels(ends, gap) ==
  LET order == FromTheTop(ends)
  IN  FoldLeft(LAMBDA placed, y : Nudge(placed, y, gap), <<>>,
               [j \in DOMAIN order |-> ends[order[j]]])

LastCarrying(executions, kind) ==
  Max({i \in DOMAIN executions : kind \in DOMAIN executions[i].totals})

BuildTrend(executions, kinds) ==
  LET shown == {k \in kinds : \E i \in DOMAIN executions : k \in DOMAIN executions[i].totals}
      maxV  == Max({0} \cup UNION {{executions[i].totals[k] :
                                      k \in kinds \cap DOMAIN executions[i].totals}
                                     : i \in DOMAIN executions})
      top   == NiceCeiling(maxV)
      ends  == [k \in shown |->
                  YOf(executions[LastCarrying(executions, k)].totals[k], top) + 4 * top]
  IN  IF Len(executions) < 2 \/ shown = {} \/ maxV = 0 THEN Empty
      ELSE [empty |-> FALSE, top |-> top, kinds |-> shown,
            paths  |-> [k \in shown |-> Path(executions, k)],
            ends   |-> ends,
            labels |-> SeparateLabels(ends, LabelGap * top)]

-----------------------------------------------------------------------------
(* Change per execution *)

Count(counts, kind) == IF kind \in DOMAIN counts THEN counts[kind] ELSE 0

\* The bar between an execution and the one before it, horizontally times Span.
Bar(executions, i, kind) ==
  LET span == Span(executions)
      x0   == XOf(executions, executions[i - 1].takenAt)
      x1   == XOf(executions, executions[i].takenAt)
  IN  [x      |-> x0 + span,
       width  |-> Max({x1 - x0 - 2 * span, MinBar * span}),
       gained |-> Count(executions[i].added, kind),
       lost   |-> Count(executions[i].removed, kind)]

BuildDelta(executions, kind) ==
  LET bars == [i \in 2..Len(executions) |-> Bar(executions, i, kind)]
      peak == Max({0} \cup UNION {{bars[i].gained, bars[i].lost} : i \in DOMAIN bars})
  IN  IF Len(executions) < 2 \/ peak = 0 THEN Empty
      ELSE [empty |-> FALSE, top |-> NiceCeiling(peak), bars |-> bars]
=============================================================================
