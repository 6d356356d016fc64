CONSTANTS
  g1 = g1
  g2 = g2
  g3 = g3
  Pids = {g1, g2, g3}
  NoPid = NoPid
  CrashLoopLimit = 1
  MaxCrashes = 3
  MaxManual = 2
  c1 = c1
  c2 = c2
  m1 = m1
  m2 = m2
  f1 = f1
  Chats = {c1, c2}
  Turns = {m1, m2, f1}
  Mine = {m1, m2}
  ChatOf <- MCChatOf
  Earlier <- MCEarlier
  Spoken = {}
  NoTurn = NoTurn
  NoChat = NoChat
  Calls = {1, 2}
  MaxHurdles = 1
  k1 = k1
  k2 = k2
  Tokens = {k1}
  ProviderKeys = {k2}
  Unread = Unread
  MaxEdits = 3
  MaxPolls = 1
SPECIFICATION DesktopSpec
INVARIANTS FuseHolds OwnTurnsInSingleFile TokensResolve StaleTells
PROPERTIES ChatComesBack TurnStaysOnScreen RunIdsClear
CHECK_DEADLOCK FALSE
