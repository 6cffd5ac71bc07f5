SPECIFICATION LiveSpec
CONSTANTS
  socket = socket
  timer = timer
  FDs = {socket, timer}
  Null = Null
  Events = {"IN", "OUT", "ERR", "HUP"}
  Intervals = {"zero", "some"}
  Habits = {}
  MaxOps = 1
  MaxPeers = 1
  MaxHosts = 1
PROPERTIES ConnectAnswered TimerTicks
CHECK_DEADLOCK FALSE
