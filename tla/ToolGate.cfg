CONSTANTS
  u = u
  z = z
  s = s
  g1 = g1
  g2 = g2
  w1 = w1
  e1 = e1
  p1 = p1
  Priv = Priv
  Work = Work
  Orch = Orch
  NoRun = NoRun
  NoCall = NoCall
  Roots = {u, z}
  Reports = {}
  Subs = {s}
  Parent <- MCParent
  Calls = {g1, g2, w1, e1, p1}
  RunOf <- MCRunOf
  Kind <- MCKind
  Keys = {g1, g2, w1, e1, p1}
  KeyOf <- MCKeyOf
  Scopes = {Priv, Work}
  ScopeOf <- MCScopeOf
  AgentScoped = {}
  PlanScopes <- MCPlanScopes
  PreScopes = {Work}
  Inherit = {}
  Eager = {}
  DenyListed = {}
  AllowListed = {w1}
  Mutates = {g1, g2, w1}
  Dangerous = {g1, g2}
  HighRisk = {g1, g2}
  Extensions = {e1}
  CommandOf <- MCCommandOf
  AutoEnabled = TRUE
  FirstMode = "plan"
  UserModes = {"full"}
  Scheduled = {z}
  ScheduleMode <- MCScheduleMode
  ScheduleGrants <- MCScheduleGrants
SPECIFICATION GateSpec
INVARIANTS ScheduledGateFailsClosed PlanLockdown FullModeStillAsks
PROPERTY Spec
CHECK_DEADLOCK FALSE
