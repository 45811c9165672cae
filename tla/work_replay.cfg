SPECIFICATION MCSpec
CONSTANTS
  m1 = m1
  m2 = m2
  NoMsg = NoMsg
  Starters = {"g1", "g2"}
  Askers = {}
  Stoppers = {"s"}
  Clients = {"c"}
  MaxCrashes = 1
  Which = {"wc"}
INVARIANT LocalReplayRuns
CHECK_DEADLOCK FALSE
