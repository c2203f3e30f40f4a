\* migrate, killed and started again.
SPECIFICATION MigrateSpec
CONSTANTS
    Commands = {"migrate"}
    Faults = {"kill"}
    Others = {}
INVARIANTS
    EveryStateBoots
