SPECIFICATION Spec
CONSTANTS
  Jwts = {p1}
  Requests = {r1, r2, r3}
  Kinds = {"client_assertion", "dpop_proof"}
  Backends = {"in-memory", "dynamodb", "firestore"}
  Second = 2
  MaxTokenAge = 2
  ClockTolerance = 1
  MaxLifetime = 2
  MaxRoundTrip = 2
  SweepLag = 3
  MaxNow = 16
SYMMETRY RequestSymmetry
INVARIANTS TypeOK AssertionAcceptedOnce ReplayRefusedInWindow
CHECK_DEADLOCK FALSE
