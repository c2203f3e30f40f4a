\* Two commands at once, none of which deletes.
SPECIFICATION LifecycleSpec
CONSTANTS
    root = root
    a1 = a1
    a2 = a2
    old = old
    Names <- MCNames
    Root <- root
    MaxId = 3
    Revs <- MCRevs
    GoodRevs = {"v1"}
    NoRev = "none"
    AutoNames <- MCAuto
    Legacy <- old
    MaxSnapshots = 0
    MountLimit = 1
    StartVolumes <- MCStart3
    Procs = {p1, p2}
    Faults = {}
    Commands = {"rollback", "create", "list", "legacy"}
SYMMETRY Symmetry
INVARIANTS
    MountIsALock
    WindowIsPrivate
