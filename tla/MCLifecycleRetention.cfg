\* One command at a time, tools that work, power losses.
SPECIFICATION LifecycleSpec
CONSTANTS
    root = root
    a1 = a1
    a2 = a2
    old = old
    Names <- MCNames
    Root <- root
    MaxId = 3
    Revs <- MCRevs
    GoodRevs = {"v1"}
    NoRev = "none"
    AutoNames <- MCAuto
    Legacy <- old
    MaxSnapshots = 1
    MountLimit = 1
    StartVolumes <- MCStart3
    Procs = {p1}
    Faults = {"power"}
    Commands = {"rollback", "create", "delete", "list", "legacy"}
INVARIANTS
    NothingLeftMounted
PROPERTIES
    RetentionKeepsTheLimit
