---------------------------- MODULE MCKernelHook ----------------------------
EXTENDS KernelHook, TLC

\* Kernel versions are compared with nothing.
Versions == Permutations(Kernels)

=============================================================================
