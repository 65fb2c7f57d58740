SPECIFICATION Spec
CONSTANTS
  u1 = u1
  u2 = u2
  k1 = k1
  d1 = d1
  d2 = d2
  Nothing = Nothing
  EmptyFile = EmptyFile
  Users <- OneUser
  Keys <- OneKey
  Texts <- TwoTexts
  Clients <- SharingClients
  PeerHolds = FALSE
  CountMod = 256
  MaxPairs = 3
  MaxKeys = 2
  MaxCrashes = 0
INVARIANT OwnersDecrypt
