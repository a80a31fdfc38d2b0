CONSTANTS
    Handlers = {h1, h2}
    MaxVersionCount = 1
    MaxVersions = 3
    MaxSaves = 2
    MaxErrors = 1
    None = None
SPECIFICATION Spec
INVARIANTS LimitHeld 
PROPERTY CopyHoldsReplaced
SYMMETRY Symmetry
CHECK_DEADLOCK FALSE
