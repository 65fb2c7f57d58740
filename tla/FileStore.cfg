SPECIFICATION Spec
CONSTANTS
  u1 = u1
  u2 = u2
  k1 = k1
  d1 = d1
  d2 = d2
  Nothing = Nothing
  EmptyFile = EmptyFile
  Users <- TwoUsers
  Keys <- OneKey
  Texts <- OneText
  Clients <- SecretClients
  PeerHolds = TRUE
  CountMod = 256
  MaxPairs = 3
  MaxKeys = 2
  MaxCrashes = 1
INVARIANTS TypeOK HeadersSound SecretsMatch WritesOwned
PROPERTY ImplementsStore
CHECK_DEADLOCK FALSE
