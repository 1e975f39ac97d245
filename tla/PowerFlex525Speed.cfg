CONSTANTS
  Inputs <- SpeedInputs
  MaxHeld = 4
  DintMax = 7
SPECIFICATION BlockSpec
INVARIANT SpeedCommandsAgree
