SPECIFICATION Spec
CONSTANTS
  Calls = {a, b, c}
  Clients = {"ip"}
  MaxLoginFailures = 2
  LoginFailureWindow = 2
  RefreshTTL = 2
  AccessTTL = 2
  Second = 2
  MaxClock = 3
  MaxCalls = 4
INVARIANTS RotationChains OldPasswordEnds AuditAccounts
PROPERTY ThrottleHolds
CHECK_DEADLOCK FALSE
SYMMETRY Symmetry
