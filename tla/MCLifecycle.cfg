\* One command at a time, every fault.
SPECIFICATION LifecycleSpec
CONSTANTS
    root = root
    a1 = a1
    a2 = a2
    old = old
    Names <- MCNames
    Root <- root
    MaxId = 3
    Revs <- MCRevs
    GoodRevs = {"v1"}
    NoRev = "none"
    AutoNames <- MCAuto
    Legacy <- old
    MaxSnapshots = 1
    MountLimit = 1
    StartVolumes <- MCStart3
    Procs = {p1}
    Faults = {"io", "kill", "power"}
    Commands = {"rollback", "create", "delete"}
SYMMETRY AutoSymmetry
INVARIANTS
    LifecycleTypeOK
    RootSurvives
PROPERTIES
    TransactionCanBeTakenBack
    RetentionEvictsOldestAuto
