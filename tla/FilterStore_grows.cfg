SPECIFICATION Spec
CONSTANTS
  w1 = w1  w2 = w2
  Workers = {w1}
  Domains = {"google.com", "www.google.com", "www.games.com"}
  Malformed = {}
  Edits <- OneSite
  Illegal = Illegal
  Missing = Missing
  MaxClock = 2
INVARIANTS
  OnlyRelativesRegistered
