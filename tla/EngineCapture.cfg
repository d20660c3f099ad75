CONSTANTS
  None = None
  MaxSafe = 100000
  Cases <- MCCases
  Caps = {100, 400}
  Channels = {"SALON"}
  Losses = {"INACCESSIBLE"}
  MaxLost = 1
SPECIFICATION Spec
INVARIANTS CaptureIsStricter
CHECK_DEADLOCK FALSE
