SPECIFICATION Spec
SYMMETRY Interchangeable
CONSTANTS
  Ifaces = {i1, i2, i3}
  Third = i3
  Fibs = {0, 1}
  DefaultFib = 0
  Macs = {"m"}
  Protos = {"dhcpv4", "nd", "other"}
  MaxRefs = 2
  Threads = {t1, t2}
  Rates = {0, 1, 3}
  Bursts = {0, 1, 2}
  Rate0 = 1
  Burst0 = 2
  MaxTime = 4
  MaxPunts = 3
  Names = {g, h}
  MaxSrgs = 2
  MaxMembers = 2
  Tags <- TwoTags
  MaxEntries = 4
  MaxConfig = 3
  MaxMacRefs = 4
  MaxPuts = 2
  Workers = {w1, w2}
  Interval = 2
  Loadouts <- Alone
  IndicesOf <- Pairs
INVARIANTS
  Receivable VmacWhileActive SrgBooksAgree
  CircuitsWhole PortStateFresh DampenerBounds
  PwBindings PolicerExact
