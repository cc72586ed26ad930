\* The ring wraps and fills, a batch and a vector fill up, a frame is sent past
\* the one pending slot, interfaces flap, and the node's stores lag at most
\* until its closing load.
SPECIFICATION FairSpec
CONSTANTS
  i = i  j = j  k = k  x = x  y = y  z = z
  Ifaces = {i, k}
  Nodes = {x, y}
  OutputNode <- TwoPorts
  RingSize = 2
  Batch = 3
  FrameSize = 2
  MaxIfs = 1
  MaxFrames = 4
  StoresDrain = TRUE
INVARIANTS SlotsIntact OrderKept AllAccounted
PROPERTIES IsFifo NothingStranded
