SPECIFICATION FairUserSpec
CONSTANTS
  a = a
  b = b
  u = u
  NoNode = NoNode
  Nobody = Nobody
  First = a
  Nodes <- TwoNodes
  Peers <- JoinFirst
  IDOf <- PairColliding
  Keys <- OneKey
  Users <- OneUser
  RequestKeys <- TwoKeys
  MaxCrashes = 1
INVARIANTS UserTypeOK KeysVouched AcceptedRegistered AloneInvariant AloneAuthenticates
PROPERTIES PairConverges CallsEnd
