\* One worker, two pools and two FIBs, every kind of protocol, port 0 in a
\* block, and a fragment pool that can run out (which ends the process).
SPECIFICATION FairSpec
CONSTANTS
  a = a  b = b  pl = pl  ql = ql  o = o  r = r
  tcp = tcp  icmp = icmp  gre = gre
  Workers = {w1}
  Subs = {a, b}
  PoolIds = {pl, ql}
  Fibs = {fo, fp}
  OutIps = {o}
  Rips = {r}
  Protos = {tcp, icmp, gre}
  IcmpProtos = {icmp}
  UnkProtos = {gre}
  MaxPort = 2
  SessionIdx = {s1, s2}
  FragIdx = {f1}
  Packets <- PacketsMixed
  Plan <- PlanZero
  Caps = {1, 2}
  Timeout = 0
  Cooldown = 1
  NULL = NULL
CHECK_DEADLOCK FALSE
INVARIANTS OutFibCurrent
PROPERTIES ReapsExpired EventuallyReaped
