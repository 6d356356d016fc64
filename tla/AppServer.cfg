CONSTANTS
  a = a
  b = b
  s1 = s1
  r1 = r1
  r2 = r2
  d1 = d1
  p1 = p1
  ann = ann
  qi = qi
  qs = qs
  qe = qe
  jd = jd
  qt = qt
  jr = jr
  jx = jx
  Trusted = Trusted
  NoAccount = NoAccount
  NoTurn = NoTurn
  Conns = {a, b}
  Requests <- MCRequests
  After <- MCAfter
  Fragile = {a}
  Greeted = {b}
  ConnOf <- MCConnOf
  Sessions = {s1}
  Turns = {r1, r2}
  SubRuns = {d1}
  Prompts = {p1}
  SessionOf <- MCSessionOf
  ParentOf <- MCParentOf
  AskedBy <- MCAskedBy
  Account <- MCAccount
  Owner <- MCOwner
  Method <- MCMethod
  Target <- MCTarget
  MaxQueue = 1
  HighWater = 0
  MaxEvents = 1
  MaxDeltas = 1
SPECIFICATION Spec
INVARIANTS NoGap PromptsAnswerable
PROPERTIES RequestsSettle
CHECK_DEADLOCK FALSE
