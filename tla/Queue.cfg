\* Two pushes and three pops, all at once, and a canceler.
CONSTANTS
  Items = {1, 2}
  Pops = {c1, c2, c3}
  Cancelers = {k1}
  Aborted = Aborted
  None = None
SPECIFICATION FairSpec
INVARIANT ItemHasOneHolder
INVARIANT NobodyStranded
INVARIANT HandlerCalledOnce
INVARIANT Fifo
PROPERTY PushesReturn
PROPERTY ImplementsMatching
