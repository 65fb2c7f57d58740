SPECIFICATION Spec
CONSTANTS
  u1 = u1
  u2 = u2
  k1 = k1
  d1 = d1
  d2 = d2
  Nothing = Nothing
  EmptyFile = EmptyFile
  Users <- TwoUsers
  Keys <- OneKey
  Texts <- ThreeTexts
  Clients <- AllClients
  PeerHolds = TRUE
  CountMod = 4
  MaxPairs = 4
  MaxKeys = 1
  MaxCrashes = 1
PROPERTY OwnersKept
CHECK_DEADLOCK FALSE
