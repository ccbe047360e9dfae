\* Two workers of the io_service and a thread that is none; a callback of each
\* kind, and one that is posted.
SPECIFICATION Spec
CONSTANT Workers = {w1, w2}
CONSTANT Outsiders = {u}
CONSTANT Listeners = {listener}
CONSTANT OneShots = {now, later}
CONSTANT Later = {later}
CONSTANT MaxCalls = 3
INVARIANT AliveWhileUsed
PROPERTY EveryCallRuns
PROPERTY NothingLeaks
CHECK_DEADLOCK FALSE
