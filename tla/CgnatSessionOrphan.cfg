\* Two workers miss on one flow and both create it.
SPECIFICATION FairSpec
CONSTANTS
  a = a  b = b  pl = pl  ql = ql  o = o  r = r
  tcp = tcp  icmp = icmp  gre = gre
  Workers = {w1, w2}
  Subs = {a, b}
  PoolIds = {pl}
  Fibs = {fo}
  OutIps = {o}
  Rips = {r}
  Protos = {tcp}
  IcmpProtos = {}
  UnkProtos = {}
  MaxPort = 3
  SessionIdx = {s1, s2}
  FragIdx = {f1, f2}
  Packets <- PacketsOne
  Plan <- PlanShared
  Caps = {2}
  Timeout = 1
  Cooldown = 1
  NULL = NULL
PROPERTIES ReapsExpired
