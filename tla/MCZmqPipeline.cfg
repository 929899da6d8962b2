CONSTANTS
  p1 = p1
  p2 = p2
  e1 = e1
  h1 = h1
  h2 = h2
  Requests = {p1, p2, e1}
  Polls = {p1, p2}
  Handlers = {h1, h2}
  NoRequest = NoRequest
SPECIFICATION FairSpec
INVARIANTS
  TypeOK
  NoneTwiceNoneLost
PROPERTIES
  AnsweredUnlessEnding
  SignalEndsUnlessCaught
  FailureEndsTheOthers
CHECK_DEADLOCK FALSE
