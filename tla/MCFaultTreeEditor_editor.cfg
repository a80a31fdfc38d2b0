SPECIFICATION Spec
CONSTANTS
  None = None
  Nodes = {1, 2, 3, 4, 5, 6}
  Stored <- StoredGraphs
  Modes = {"single", "batch", "repair"}
  MaxOps = 2
  MaxSaves = 1
INVARIANTS
  TypeOK
  RootedKept
  AcyclicKept
  PatchRebuilds
PROPERTIES
  AncestryKept
  
  VerifiedAsStored
