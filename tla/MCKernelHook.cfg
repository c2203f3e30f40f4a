\* Kernels installed and removed with every fault, snapshots and rollbacks.
SPECIFICATION KernelHookSpec
SYMMETRY Versions
CONSTANTS
    Kernels = {k1, k2}
    NoKernel = none
    Faults = {"io", "kill", "power"}
    Others = {"snapshot", "rollback", "uninstall"}
INVARIANTS
    KernelHookTypeOK
    SomeKernelBoots
    AddedKernelBoots
    RefusesOnlyOnFailure
PROPERTIES
    SwapMakesBootable
