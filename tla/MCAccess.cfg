SPECIFICATION Spec
CONSTANTS
  c1 = c1
  c2 = c2
  k1 = k1
  Calls = {c1, c2}
  Keys = {k1}
  None = None
  MaxNonces = 2
  MaxFaults = 1
  MaxCrashes = 1
CHECK_DEADLOCK FALSE
INVARIANTS
  TypeOK
  NonceOpensOnce
  OneIdentity
  NamedKeyStaysRevoked
  PrimaryKeyStaysRevoked
SYMMETRY Symmetry
