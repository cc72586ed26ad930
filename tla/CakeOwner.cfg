\* Two ways, one host slot, rings of two packets and three bytes a scheduler:
\* flows are evicted, hosts taken over and every limit met.
SPECIFICATION FairSpec
CONSTANTS
  NTins = 2
  NSets = 1
  NWays = 2
  NHosts = 1
  RingSize = 2
  Quantum = 3
  Limit = 3
  Threads = {t1, t2}
  t1 = t1
  t2 = t2
  Ifaces = {1, 2}
  NScheds = 2
  QueueSize = 1
  Loads <- All
  None = None
INVARIANTS FlowsWhole OwnerServes
PROPERTIES Drains
