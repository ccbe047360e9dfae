\* The capacity and the signals of the tests; a head wraps after twice the
\* capacity.
CONSTANTS
  Capacity = 8
  Modulus = 16
  PrepareOps = {"handle_prepare_", "handle_error (prepare)"}
  FetchOps = {"handle_fetch_", "handle_error (fetch)"}
  Minimums = {1, 2, 3, 4, 5, 6, 8, 9}
  EagerClient = FALSE
  None = None
SPECIFICATION TestsSpec
INVARIANT ExpectationsHold
INVARIANT CallsOnlyLiveSignals
