CONSTANTS
  Keys = {k1, k2, k3}
  MaxTime = 1
  MaxGenerations = 4
SYMMETRY KeySymmetry
SPECIFICATION Spec
INVARIANTS
  EventsExplainLedger
  NoTransitionPredatesSource
PROPERTIES
  AppendOnly
  RetiredKeysStayRetired
