CONSTANTS
  r1 = r1
  r2 = r2
  rp = rp
  s1 = s1
  s2 = s2
  a1 = a1
  a2 = a2
  a3 = a3
  p1 = p1
  q1 = q1
  A = A
  Orch = Orch
  NoRun = NoRun
  NoCall = NoCall
  Roots = {r1, r2, rp}
  Reports = {rp}
  Subs = {s1, s2}
  Parent <- MCParent
  Calls = {a1, a2, a3, p1, q1}
  RunOf <- MCRunOf
  Kind <- MCKind
  Keys = {a1, a2, a3, p1, q1}
  KeyOf <- MCKeyOf
  Scopes = {A}
  ScopeOf <- MCScopeOf
  AgentScoped = {a1, a2, a3}
  PlanScopes <- MCPlanScopes
  PreScopes = {}
  Inherit = {s1}
  Eager = {}
SPECIFICATION FairSpec
INVARIANTS AbortReleases NoLeak HumanAuthority
PROPERTIES NoForeignReject DelegationUnblocks
CHECK_DEADLOCK FALSE
