SPECIFICATION Spec
CONSTANTS
  AddrSpace = 6
  Configs <- MCConfigs
  Specs <- MCSpecs
  Users = {u1, u2}
  Reconciler = reconciler
  MaxWrites = 3
  MaxFaults = 1
  Lag = TRUE
INVARIANT NoOverlap
PROPERTY Deletable
CHECK_DEADLOCK FALSE
