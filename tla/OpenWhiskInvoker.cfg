CONSTANTS
  f1 = f1
  f2 = f2
  i1 = i1
  i2 = i2
  i3 = i3
  Drivers = {f1, f2}
  Invocations = {i1, i2, i3}
  DriverOf <- MCDriverOf
SPECIFICATION Spec
CHECK_DEADLOCK FALSE
INVARIANT PostponesQueries
