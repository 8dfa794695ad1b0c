SPECIFICATION Spec
CONSTANTS
  Addrs = {0, 512}
  Rows = 512
  Data = {d1, d2}
  Other = Other
  None = None
INVARIANTS
  ReadsLastWrite
