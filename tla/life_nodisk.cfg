CONSTANTS
  Disk = FALSE
  Net = FALSE
  Workers = {w1, w2}
  MaxEvents = 2
SPECIFICATION Spec
INVARIANT DeviceNeverMissing
