\* Minima of at most half the buffer: 2 + 2 <= 4 + 1.
CONSTANTS
  Capacity = 4
  Modulus = 8
  PrepareOps = {p1}
  FetchOps = {f1}
  Minimums = {1, 2}
  EagerClient = TRUE
  None = None
SPECIFICATION CooperativeSpec
PROPERTIES
  EveryCallAnswered
