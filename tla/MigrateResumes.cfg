\* migrate or setup, interrupted by power losses, on a machine that is restarted.
SPECIFICATION RestartedMigrateSpec
CONSTANTS
    Commands = {"migrate", "setup"}
    Faults = {"power"}
    Others = {}
INVARIANTS
    PowerLossBootsBeforeEsp
    VarIsFilled
PROPERTIES
    StepsAsModelled
    MigrationResumes
