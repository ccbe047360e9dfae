\* A writer may close the stream while it still holds buffers, and commit them.
CONSTANTS
  Capacity = 2
  Modulus = 4
  PrepareOps = {p1}
  FetchOps = {f1}
  Minimums = {1, 2}
  EagerClient = FALSE
  None = None
SPECIFICATION Spec
INVARIANTS
  EofIsFinal
