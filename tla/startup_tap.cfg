SPECIFICATION Spec
CONSTANTS
  Kernels = {129}
  Sects = {31}
  Initrds = {1}
  MemArgs <- MCMemArgs
  Lengths = {1921}
  Taps = {"tap0", "vm0"}
  Absent = Absent
  UINT64_MAX = 2146435071
INVARIANT TapAsNamed
