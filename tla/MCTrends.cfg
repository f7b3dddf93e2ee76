SPECIFICATION TrendsSpec
CONSTANTS
  u1 = u1
  u2 = u2
  Nobody = Nobody
  Users = {u1, u2}
  Kinds = {"followers", "following"}
  MaxExecutions = 4
  MaxWrites = 1
  MaxSeen = 1
  Possible <- SomeExecutions
  Plotted <- SomeHistories
  Weight <- SomeWeights
INVARIANTS
  PageTypeOK
  ExactWhenCarried
  TrendIsAsAsked
  BarsAreTheComparison
  TilesAgreeWithBars
  LinesBreakAtGaps
  PlotHoldsEverything
  LabelsApart
CHECK_DEADLOCK FALSE
