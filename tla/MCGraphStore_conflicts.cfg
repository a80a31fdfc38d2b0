SPECIFICATION LiveSpec
CONSTANTS
  e1 = e1
  e2 = e2
  a1 = a1
  g1 = g1
  r1 = r1
  None = None
  Editors = {e1}
  Agents = {}
  Generators = {g1}
  Renamers = {}
  MaxCommits = 2
  MaxTries = 2
  RenameRaces = FALSE
PROPERTIES
  ConflictsEnd
