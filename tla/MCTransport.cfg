SPECIFICATION FairSpec
CONSTANTS
  app = app
  lane = lane
  Nobody = Nobody
  Reply = Reply
  Goodbye = Goodbye
  Threads = {app}
  Lanes = {lane}
  Asking = {lane}
  Serving = {lane}
  Room <- One
  OutRoom = 1
  SocketRoom = 1
  MaxCalls = 2
  MaxSaid <- Three
  MaxTraffic = 4
INVARIANTS ReplyIsOwn InOrder QueuedStillGoes
PROPERTIES EveryCallReturns EverybodyLeaves
CHECK_DEADLOCK FALSE
