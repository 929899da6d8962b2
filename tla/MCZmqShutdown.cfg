CONSTANTS
  p1 = p1
  h1 = h1
  Requests = {p1}
  Polls = {p1}
  Handlers = {h1}
  NoRequest = NoRequest
SPECIFICATION FairSpec
PROPERTIES
  SignalEnds
CHECK_DEADLOCK FALSE
