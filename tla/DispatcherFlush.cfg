CONSTANTS
  c1 = c1
  m1 = m1
  m2 = m2
  d1 = d1
  a1 = a1
  e1 = e1
  q1 = q1
  p2 = p2
  NoRun = NoRun
  NoAsk = NoAsk
  NoConv = NoConv
  Convs = {c1}
  Messages = {m1, m2}
  ConvOf <- MCConvOf
  Subs = {d1}
  ParentOf <- MCParentOf
  Asks = {a1, e1, q1, p2}
  AskedBy <- MCAskedBy
  Kind <- MCKind
  ByPolicy = {}
  Loops = {1, 2}
  FailThreshold = 2
  Bare = {1}
  MaxMessages = 2
  MaxPauses = 1
  MaxCrashes = 1
  MaxChars = 2
  MaxPieces = 3
  MaxSends = 4
  u1 = u1
  b1 = b1
  b2 = b2
  k1 = k1
  k2 = k2
  Users = {u1}
  Accts = {b1, b2}
  Keys = {k1, k2}
  KeyOf <- MCKeyOf
  LegacyKeys = {k1}
  LegacyUserOf <- MCLegacyUserOf
  NoAcct = NoAcct
  NoChat = NoChat
  Starters = {s1, s2, s3}
  NoSecret = NoSecret
  Empty = Empty
SPECIFICATION GatewaySpec
PROPERTY FlushBeforeRelease
