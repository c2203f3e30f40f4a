\* migrate and setup, every fault, snapshots and rollbacks in between.
SPECIFICATION MigrateSpec
CONSTANTS
    Commands = {"migrate", "setup"}
    Faults = {"io", "kill", "power"}
    Others = {"snapshot", "rollback"}
INVARIANTS
    MigrateTypeOK
    GateSound
    ChainToRoot
    CompleteIsMigrated
