SPECIFICATION FairStartSpec
CONSTANTS
  a = a
  b = b
  c = c
  NoNode = NoNode
  First = a
  Nodes <- ThreeNodes
  Peers <- PeersThroughLast
  IDOf <- TripleAscending
  Keys <- NoKeys
  MaxCrashes = 1
PROPERTY JoinsFinish
CHECK_DEADLOCK FALSE
