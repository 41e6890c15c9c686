SPECIFICATION FairSpec
CONSTANTS
  w1 = w1  w2 = w2
  Workers = {}
  Domains = {"google.com", "maps.google.com"}
  Malformed = {}
  Edits <- MCEdits
  Illegal = Illegal
  Missing = Missing
  MaxClock = 3
PROPERTIES
  EditsTakeEffect
