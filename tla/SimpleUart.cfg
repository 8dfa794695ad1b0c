SPECIFICATION Spec
CONSTANTS
  BITS = 2
  DIV_BITS = 3
  DEFAULT_DIV = 1
  Dividers = {1, 2}
  None = None
INVARIANTS
  ReadsWhatWasSent
PROPERTIES
  EachFrameArrives
  SendServed
