\* Failing tools but no interruption, and a mount(8) that refuses a second mount: what is
\* swapped in is verified, the rollback is atomic and durable, and it ends.
SPECIFICATION FairRollbackSpec
CONSTANTS
    root = root
    var = var
    s1 = s1
    s2 = s2
    Names <- MCNames
    Root <- root
    MaxId <- MCMaxId
    Revs <- MCRevs
    GoodRevs = {"good"}
    NoRev = "none"
    MountLimit = 1
    StartVolumes <- MCStart
    Procs = {p1, p2}
    Faults = {"io"}
INVARIANTS
    SwappedInIsVerified
PROPERTIES
    SuccessIsDurable
    AtomicToTheRunningSystem
    RollbackEnds
