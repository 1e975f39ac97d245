CONSTANTS
  Assets = {a1, a2}
  Identities = {i1, i2}
  Signatures = {s1, s2}
  Objects = {o1, o2}
  EvidenceKeys = {e1}
  MaxGeneration = 2
SYMMETRY RepositorySymmetry
SPECIFICATION MemorySpec
INVARIANTS
  LookupsAgreeWithPlant
PROPERTIES
  MemoryImplementsPort
