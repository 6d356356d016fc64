CONSTANTS
  t1 = t1
  t2 = t2
  rp = rp
  mc = mc
  NoTask = NoTask
  Authors <- MCAuthors
  Turns = {t1, t2}
  Reports = {rp}
  Compactions = {mc}
  RecentTail = 1
  MaxEntries = 5
  MaxCrashes = 1
  Torn = FALSE
  ForkMidTask = FALSE
  MaxTasks = 3
  MaxUpsets = 1
SPECIFICATION SessionFairSpec
INVARIANTS EntriesSurvive TurnIsOnePath ManualForgetsNothing
PROPERTY AbortEnds
CHECK_DEADLOCK FALSE
