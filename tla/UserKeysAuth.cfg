SPECIFICATION UserSpec
CONSTANTS
  a = a
  b = b
  u = u
  NoNode = NoNode
  Nobody = Nobody
  First = a
  Nodes <- TwoNodes
  Peers <- JoinFirst
  IDOf <- PairColliding
  Keys <- OneKey
  Users <- OneUser
  RequestKeys <- TwoKeys
  MaxCrashes = 0
INVARIANT RegisteredAuthenticate
