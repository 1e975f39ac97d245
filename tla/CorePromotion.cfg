CONSTANTS
  Assets = {a1, a2}
  Identities = {i1, i2}
  Signatures = {s1, s2}
  IllFormed = {s2}
  Objects = {o1}
  EvidenceKeys = {e1}
  MaxGeneration = 2
  MaxTime = 1
SYMMETRY PromotionSymmetry
SPECIFICATION Spec
INVARIANTS
  PromotionsMatchLedger
  OverridesAcknowledged
