\* Two peers, one with two addresses, from two sources; the first call or a
\* later one.
SPECIFICATION FairSpec
CONSTANTS
  u1 = u1  d1 = d1  d2 = d2  a1 = a1  a2 = a2  a3 = a3
  User = {u1}
  Device = {d1, d2}
  Address = {a1, a2, a3}
  DeviceOf <- OneAndTwo
  Source = {"db", "global"}
INVARIANTS
  NoAddressMissed
  ConnectedOnce
PROPERTIES
  FailedMeansTried
  UserReturns
\* Every call returns.
CHECK_DEADLOCK FALSE
