\* Two threads, rings of two slots that wrap and fill.
SPECIFICATION PuntFairSpec
CONSTANTS
  Threads = {t1, t2}
  Frames = {a, b}
  PuntRingSize = 2
  MaxPunts = 3
PROPERTIES PuntsAreFifo AllDelivered
CHECK_DEADLOCK FALSE
