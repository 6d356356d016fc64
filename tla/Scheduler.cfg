CONSTANTS
  k1 = k1
  k2 = k2
  f1 = f1
  u1 = u1
  g1 = g1
  e1 = e1
  NoObj = NoObj
  NoSlot = NoSlot
  NoSchedule = NoSchedule
  Sessions = {e1}
  Sends = {u1}
  Toggles = {g1}
  Fires = {k1, k2, f1}
  FreshFires = {k2}
  SessionOf <- MCSessionOf
  MaxObjects = 2
  Schedules = {k1, k2}
  Order <- MCOrder
  Period <- MCPeriod
  Aligned = {k1}
  SkipMissed = {k2}
  Slack = 1
  MaxTime = 3
  MaxCrashes = 1
  MaxEdits = 1
  MaxCalls = 2
SPECIFICATION Spec
INVARIANTS FlagFollowsFires
PROPERTIES ImplementsSlots DueIsHandled
CHECK_DEADLOCK FALSE
