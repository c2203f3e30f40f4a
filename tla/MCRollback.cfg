\* Two rollbacks at once, every fault, a mount(8) that stacks mounts: they really run
\* side by side, and over each other's mount point.
SPECIFICATION RollbackSpec
CONSTANTS
    root = root
    var = var
    s1 = s1
    s2 = s2
    Names <- MCNames
    Root <- root
    MaxId <- MCMaxId
    Revs <- MCRevs
    GoodRevs = {"good"}
    NoRev = "none"
    MountLimit = 2
    StartVolumes <- MCStart
    Procs = {p1, p2}
    Faults = {"io", "kill", "power"}
SYMMETRY Symmetry
INVARIANTS
    RollbackTypeOK
    RootBound
    RunningRootKept
    MountBacked
