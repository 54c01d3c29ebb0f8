\* Readers of one URL, shared and alone; bodies that break off; clients that take
\* their answers.
SPECIFICATION FairEdge
CONSTANTS
  Callers = {c1, c2, c3}
  Keys = {k1}
  NoOne = NoOne
  Window = 1
  Never = Never
  MayBreak = TRUE
  Stalls = FALSE
  Charted = 2
  Logged = 2
  Span = 1
INVARIANTS ChartIsComplete RecentIsRecent
PROPERTIES Spaced NotACache FollowersAnswered
