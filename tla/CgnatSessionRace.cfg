\* Two workers racing to create, one pool: block, cap and table full.
SPECIFICATION Spec
CONSTANTS
  a = a  b = b  pl = pl  ql = ql  o = o  r = r
  tcp = tcp  icmp = icmp  gre = gre
  Workers = {w1, w2}
  Subs = {a, b}
  PoolIds = {pl}
  Fibs = {fo}
  OutIps = {o}
  Rips = {r}
  Protos = {tcp}
  IcmpProtos = {}
  UnkProtos = {}
  MaxPort = 3
  SessionIdx = {s1, s2}
  FragIdx = {f1, f2}
  Packets <- PacketsTcp
  Plan <- PlanShared
  Caps = {1, 2}
  Timeout = 0
  Cooldown = 1
  NULL = NULL
SYMMETRY Interchangeable
INVARIANTS SessionsLinked ReplyReachesOwner CountExact FragExact
PROPERTIES CapRespected
