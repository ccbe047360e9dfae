\* Two threads; a slot that asks the signal when it runs, and others.
SPECIFICATION FairSpec
CONSTANT Threads = {t1, t2}
CONSTANT Slots = {s1, s2}
CONSTANT Args = {a, b}
CONSTANT None = None
CONSTANT MaxResets = 1
CONSTANT Asking = {s1}
INVARIANT CalledOnceWithItsArgs
INVARIANT NoSlotMissed
INVARIANT CalledInOrder
PROPERTY EveryWaitingSlotRuns
CHECK_DEADLOCK FALSE
