\* One worker, a block of one port and two flows to one remote port.
SPECIFICATION Spec
CONSTANTS
  a = a  b = b  pl = pl  ql = ql  o = o  r = r
  tcp = tcp  icmp = icmp  gre = gre
  Workers = {w1}
  Subs = {a, b}
  PoolIds = {pl}
  Fibs = {fo}
  OutIps = {o}
  Rips = {r}
  Protos = {tcp}
  IcmpProtos = {}
  UnkProtos = {}
  MaxPort = 3
  SessionIdx = {s1, s2}
  FragIdx = {f1, f2}
  Packets <- PacketsOne
  Plan <- PlanNarrow
  Caps = {2}
  Timeout = 1
  Cooldown = 1
  NULL = NULL
INVARIANTS OutsideTupleUnique
