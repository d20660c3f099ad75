CONSTANTS
  None = None
  Provenance = {p, q}
  LastInstant = 5
SPECIFICATION Spec
INVARIANTS DerivationIsMeant HindsightNarrows
CHECK_DEADLOCK FALSE
