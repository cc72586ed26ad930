SPECIFICATION Spec
SYMMETRY Interchangeable
CONSTANTS
  MaxIfs = 2
  Encaps = {e1, e2}
  Vrfs = {0, 1}
  DefaultVrf = 0
  Prefixes = {p1, p2}
  MaxSessions = 2
  NULL = NULL
  Clients = {"m"}
  OuterVlans = {0, 1}
  InnerVlans = {0, 2}
  PppoeKeys = {k1, k2}
  TunnelKeys = {t1, t2}
  SessionIds = {1}
  Loadouts <- Mixed
INVARIANTS
  SessionsResolve RoutesOwned BridgeBothWays InterfacesFresh AnswersFound
