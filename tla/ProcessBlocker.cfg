SPECIFICATION FairSpec
CONSTANTS
  p1 = p1  p2 = p2
  Pids = {p1, p2}
  Programs <- MCPrograms
  Nobody = Nobody
  Protected = {"system.exe"}
  KillLists <- MCKillLists
INVARIANTS
  TypeOK
  KillJustified
PROPERTIES
  ListedProgramsEnd
