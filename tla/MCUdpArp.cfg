SPECIFICATION ComposedSpec
CONSTANTS
  p1 = p1 p2 = p2 b1 = b1 b2 = b2 b3 = b3 h1 = h1 h2 = h2 h3 = h3
  Proc <- TwoProcs
  Buffer <- ThreeBuffers
  Hop <- ThreeHops
  Host = {1}
  UDP_SLOTS = 2
  UDP_QSIZ = 2
  RemPort = {1, 2}
  LocPort = {1}
  Endpoint <- Endpoints
  Foreign = {"other"}
  Anytime = FALSE
  ARP_SIZ = 2
  ARP_RETRY = 2
SYMMETRY Alike
VIEW Live
INVARIANTS AllTypeOK BuffersConserved WokenHasPacket ReceivingIsWaiting QueuedMatches
INVARIANTS OneEntryPerHost AwaitedIsKept PendingIsInProgress AnswerIsOfHop
