SPECIFICATION LiveSpec
CONSTANTS
  FDs = {f1, f2, f3}
  Null = Null
  EVENTSPERCYCLE = 2
  Events = {"IN"}
INVARIANT NoEdgeLost
PROPERTIES EdgeDispatched ImplementsDelivery
