SPECIFICATION Spec
CONSTANTS
  socket = socket
  timer = timer
  FDs = {socket, timer}
  Null = Null
  Events = {"IN", "OUT", "ERR", "HUP"}
  Intervals = {"zero", "some"}
  Habits = {}
  MaxOps = 2
  MaxPeers = 2
  MaxHosts = 2
INVARIANTS TypeOK NoLostExpiry OneAnswer NoneForgotten NoSleeper
PROPERTIES NoTickAfterStop ConnectTruthful NoAnswerAfterCancel
CHECK_DEADLOCK FALSE
