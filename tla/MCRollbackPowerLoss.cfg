\* A power loss between the swap and set-default.
SPECIFICATION RollbackSpec
CONSTANTS
    root = root
    var = var
    s1 = s1
    s2 = s2
    Names <- MCNames
    Root <- root
    MaxId <- MCMaxId
    Revs <- MCRevs
    GoodRevs = {"good"}
    NoRev = "none"
    MountLimit = 1
    StartVolumes <- MCStartAll
    Procs = {p1}
    Faults = {"power"}
INVARIANTS
    NeverInBetween
