CONSTANTS
  t1 = t1
  t2 = t2
  rp = rp
  mc = mc
  NoTask = NoTask
  Authors <- MCAuthors
  Turns = {t1, t2}
  Reports = {}
  Compactions = {mc}
  RecentTail = 1
  MaxEntries = 4
  MaxCrashes = 1
  Torn = FALSE
  ForkMidTask = FALSE
  MaxTasks = 3
  MaxUpsets = 1
SPECIFICATION SessionSpec
INVARIANT HeadSurvives
CHECK_DEADLOCK FALSE
