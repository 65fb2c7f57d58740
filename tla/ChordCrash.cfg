SPECIFICATION FairSpec
CONSTANTS
  a = a
  b = b
  c = c
  NoNode = NoNode
  First = a
  Nodes <- ThreeNodes
  Peers <- PeersBefore
  IDOf <- TripleColliding
  Keys <- OneKey
  MaxCrashes = 1
INVARIANTS TypeOK LookupDescends NoSelfPredecessor NoSelfInvariant RoutesSettle
PROPERTIES PredecessorOnlyCloser RoundsEnd
