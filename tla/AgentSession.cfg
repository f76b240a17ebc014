SPECIFICATION FairSpec
CONSTANTS
  Approvals = {a1}
  Questions = {q1}
  Sessions = {s1}
  Commands = 2
  Turns = 0
  EventBuffer = 1
  WriteBuffer = 1
  OutputBuffer = 2
INVARIANTS CardsLive
PROPERTIES StopReturns
CHECK_DEADLOCK FALSE
