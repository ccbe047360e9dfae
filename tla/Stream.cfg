\* Two bytes of buffer, heads that wrap after four, and two calls of each kind
\* under way at a time: the second is refused, or waits for its answer while
\* the first is answered.
CONSTANTS
  Capacity = 2
  Modulus = 4
  PrepareOps = {p1, p2}
  FetchOps = {f1, f2}
  Minimums = {1, 2}
  EagerClient = FALSE
  None = None
SPECIFICATION Spec
SYMMETRY Symmetry
INVARIANT IInv
INVARIANT NoLostWakeup
INVARIANT MutualWaitOnlyIfOversized
INVARIANT AssertionsHold
INVARIANT OneOwner
INVARIANT NoRaceOnStorage
INVARIANT ReadsInOrder
PROPERTY ImplementsPipe
