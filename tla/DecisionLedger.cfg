CONSTANTS
  c1 = c1  c2 = c2  c3 = c3
  k1 = k1  k2 = k2  b1 = b1  b2 = b2
  h1 = h1  h2 = h2  v1 = v1  v2 = v2
  NoCall = NoCall
  Call = {c1, c2, c3}
  Version = {v1, v2}
  Request <- AllRequests
  Accepts <- Authentic
SPECIFICATION MCSpec
INVARIANTS TypeOK Coherent OkIsDurable VerdictsAgree RetryIsReplay NoUnresolvedViolation
PROPERTIES EveryCallAnswers ImplementsStore
