CONSTANTS
  Keys = {k1, k2, k3}
  MaxTime = 1
  MaxGenerations = 4
SPECIFICATION Spec
INVARIANT RetiredKeysHaveActiveSuccessor
