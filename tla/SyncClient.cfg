SPECIFICATION StartOrLevel
CONSTANTS
  c1 = c1
  c2 = c2
  p1 = p1
  d1 = d1
  Nothing = Nothing
  Clients <- TwoClients
  Paths <- OnePath
  Texts <- OneText
  MaxHappens = 2
  Meanwhile <- NoOthers
INVARIANTS TypeOK LogNotAhead UpdatesOrdered LogInvariant
PROPERTIES ReadersConverge FilesGetLogged
