CONSTANTS
  t1 = t1
  t2 = t2
  rp = rp
  mc = mc
  NoTask = NoTask
  Authors <- MCAuthors
  Turns = {t1, t2}
  Reports = {}
  Compactions = {mc}
  RecentTail = 1
  MaxEntries = 4
  MaxCrashes = 2
  Torn = TRUE
  ForkMidTask = FALSE
  MaxTasks = 3
  MaxUpsets = 2
SPECIFICATION SessionSpec
INVARIANT EntriesSurvive
CHECK_DEADLOCK FALSE
