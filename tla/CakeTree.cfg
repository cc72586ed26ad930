\* Two subscribers of one S-VLAN, whose sub-interface may carry an aggregate of
\* its own, and one on the port: tiers that two packets fill, rates that
\* change, S-VLANs and ports created and deleted in any order over packets.
SPECIFICATION Spec
CONSTANTS
  Agg = {a1, a2, a3}
  Port = {10, 11}
  Tag = {1}
  Sched = {s1, s2, s3}
  Chain <- NestedChain
  None = None
  a1 = a1
  a2 = a2
  a3 = a3
  s1 = s1
  s2 = s2
  s3 = s3
  Rates = {1, 2}
  Weights = {1}
  Limits = {2}
  Lens = {1}
  SchedLimit = 1
  MaxActive = 2
SYMMETRY TreeSymmetry
INVARIANTS WeightExact ChargeExact TreeWellFormed
PROPERTIES AdmitWithinLimit
