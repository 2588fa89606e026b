SPECIFICATION Spec
CONSTANTS
  short = short  long = long
  Runs = {r1}
  Plans = {short, long}
  Cycle <- MCCycle
  Rate <- MCRate
  Proration <- MCProration
  OnCancel <- MCOnCancel
  Quantities = {1, 2}
  AllowImmediate = TRUE
  Horizon = 3
  MaxEvents = 3
  MaxTime = 4
  MaxOps = 2
  MaxFailures = 1
PROPERTIES NothingChargedPastTheEnd
CHECK_DEADLOCK FALSE
