\* The ring wraps and fills, a batch and a vector fill up, interfaces flap,
\* and the node's stores may lag.
SPECIFICATION FairSpec
CONSTANTS
  i = i  j = j  k = k  x = x  y = y  z = z
  Ifaces = {i, k}
  Nodes = {x, y}
  OutputNode <- TwoPorts
  RingSize = 2
  Batch = 2
  FrameSize = 2
  MaxIfs = 1
  MaxFrames = 3
  StoresDrain = FALSE
PROPERTIES NothingStranded
