CONSTANTS
  Processes = {p1, p2}
  Keys = {k1}
  Assets = {a1}
  MaxNumber = 1
  MaxRevision = 3
  MaxBoots = 0
  Overlapping = TRUE
SPECIFICATION Spec
PROPERTIES
  InitialiseNeverOverwrites
