SPECIFICATION FairSpec
CONSTANTS
  w1 = w1  w2 = w2
  Workers = {w1, w2}
  Domains = {"google.com", "maps.google.com", "~.google.com"}
  Malformed = {"~.google.com"}
  Edits <- MCEdits
  Illegal = Illegal
  Missing = Missing
  MaxClock = 2
INVARIANTS
  TypeOK
  NoRegistrationLost
  ListsMeanSubdomains
  RegistersTheQuestion
PROPERTIES
  RegistrationsStay
  ChangesAreLoaded
  RegistrationsEnd
