CONSTANTS
  a1 = a1
  a2 = a2
  i1 = i1
  i2 = i2
  s1 = s1
  o1 = o1
  e1 = e1
  e2 = e2
  Assets = {a1, a2}
  Identities = {i1, i2}
  Signatures = {s1}
  Objects = {o1}
  EvidenceKeys = {e1, e2}
  MaxGeneration = 2
  Writers = {w1, w2}
  Nobody = Nobody
  Inputs <- MCInputs
SPECIFICATION FairSpec
INVARIANTS
  TransactionReadsLatest
  PersistedPromotionsSurvive
  ReplayIsHarmless
PROPERTIES
  ImplementsPort
  EveryCallAnswered
