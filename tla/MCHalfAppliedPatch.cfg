CONSTANTS
    here = here
    there = there
    NoContext = none
    Worker = {w1, w2}
    File = {f1, f2}
    Root = {here, there}
    RootOf <- MCRootOf
    Content = {c1, c2}
    Size <- MCSize
    MaxPatchBytes = 4
    MaxEntries = 2
    MaxBytes = 3
    MaxPlan = 2
    MaxEvents = 4
    Initially <- MCInitially
    Contexts <- MCContexts
    BlocksHalfway = TRUE
SPECIFICATION WorkspaceSpec
SYMMETRY MCSymmetry
CHECK_DEADLOCK FALSE
INVARIANT
    AllOrNothing
