CONSTANTS
  Processes = {p1, p2}
  Keys = {k1, k2}
  Assets = {a1}
  MaxNumber = 2
  MaxRevision = 3
  MaxBoots = 1
  Overlapping = FALSE
SYMMETRY StoreSymmetry
SPECIFICATION Spec
INVARIANTS
  StoredDocumentsLoad
PROPERTIES
  NoHistoryLost
  SavesBuildOnWhatTheyRead
