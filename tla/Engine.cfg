CONSTANTS
  None = None
  MaxSafe = 100000
  Cases <- MCCases
  Caps = {100, 400}
  Channels = {"SALON"}
  Losses = {"INACCESSIBLE"}
  MaxLost = 1
SPECIFICATION Spec
INVARIANTS TypeOK VerifyFirstIsSolePath AssembledIsAccepted AssemblyLosesNothing CostsAreAsSaid
PROPERTIES CompleteIsFinal NewcomersAreAnnounced BoundsHold LossNeverConfirms
CHECK_DEADLOCK FALSE
