SPECIFICATION FairSpec
CONSTANTS
  W = 3
  Gens = {1, 2}
  MaxEpochs = 3
  MaxLoops = 2
  MaxNet = 1
  MaxLoss = 1
INVARIANTS Advertised AnomalyMeansLoss
PROPERTIES HeardOrMissed
CHECK_DEADLOCK FALSE
