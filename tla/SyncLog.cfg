SPECIFICATION FairSpec
CONSTANTS
  c1 = c1
  c2 = c2
  p1 = p1
  d1 = d1
  Nothing = Nothing
  Clients <- TwoClients
  Paths <- OnePath
  Texts <- OneText
  MaxHappens = 2
  Meanwhile <- NoOthers
PROPERTY LogKeepsEntries
