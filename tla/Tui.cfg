CONSTANTS
  t1 = t1
  t2 = t2
  d1 = d1
  d2 = d2
  d3 = d3
  d4 = d4
  NoTurn = NoTurn
  NoAgent = NoAgent
  Orchestrator = Orchestrator
  Compact = Compact
  Turns <- MCTurns
  Delegations <- MCDelegations
  TurnOf <- MCTurnOf
  MaxConcurrency = 2
  Timed = {d2, d3, d4}
  Unresolvable = {d3}
  Messages <- MCMessages
  OnScreen = {d1, d4}
  Gated = {d4}
  MaxDetours = 1
SPECIFICATION TuiSpec
INVARIANTS OutcomeTold NodesHangOnce PromptsOnScreen
PROPERTIES ImplementsPool AbortCascades InterruptFrees
CHECK_DEADLOCK FALSE
