CONSTANTS
  Inputs <- MCInputs
  MaxHeld = 4
  DintMax = 7
SPECIFICATION BlockSpec
INVARIANTS
  StartDelayHonoured
  BlockFollowsCore
PROPERTIES
  RunsArePermitted
