\* Two workers over a port whose rounds are two ticks long: the S-VLAN may take
\* half of it, its members are arbitrated within.
SPECIFICATION Spec
CONSTANTS
  Worker = {w1, w2}
  Lens = {2}
  MaxLen = 2
  Period = 2
  MaxPkt = 2
  Burst = 3
  SvlanCost = 1
  PortCost = 1
  SvlanBytes = 2
  PortBytes = 2
  SvlanWeight = 1
  PortActive = 2
  SchedWeight = 1
  SvlanActive = 1
  RoundMod = 16
  StaleLead = 2
  MaxTime = 8
  MaxLag = 3
  Jumps = {1}
SYMMETRY WorkerSymmetry
INVARIANTS WordFloor OneQuantumPerRound PortRate SvlanRate DebtBounded
