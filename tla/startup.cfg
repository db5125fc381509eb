SPECIFICATION Spec
CONSTANTS
  Kernels = {100, 128, 129, 194559, 194560}
  Sects = {0, 31, 255}
  Initrds = {1, 65535, 65536, 4194305}
  MemArgs <- MCMemArgs
  Lengths = {1921, 1922, 1960, 1961, 1999, 2000}
  Taps = {"tap0", "vm0"}
  Absent = Absent
  UINT64_MAX = 2146435071
INVARIANTS E820Backed BootImage OverrunOnlyWhenSmall AnnouncedIsServed
PROPERTY CmdlineExact
