SPECIFICATION FairSpec
CONSTANTS
  a = a
  b = b
  c = c
  NoNode = NoNode
  First = a
  Nodes <- ThreeNodes
  Peers <- PeersBefore
  IDOf <- TripleAscending
  Keys <- TripleKeys
  MaxCrashes = 0
PROPERTY EventualLocationConsistency
