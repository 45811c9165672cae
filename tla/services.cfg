SPECIFICATION MCSpec
CONSTANTS
  m1 = m1
  m2 = m2
  NoMsg = NoMsg
  Starters = {"g1", "g2"}
  Askers = {}
  Stoppers = {"s"}
  Clients = {"c"}
  MaxCrashes = 1
  Which = {"ow", "ws", "dr", "to", "sy", "wc", "af", "mo", "ml"}
INVARIANTS
  TypesOK
  OneOwner
  
  
  
  

  
CHECK_DEADLOCK FALSE
