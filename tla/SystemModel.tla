---------------------------- MODULE SystemModel ----------------------------
(***************************************************************************)
(* The functions of proof.rs as a state machine: its proofs run one fixed  *)
(* sequence each; here setup, migrate, rollbacks and kernel installations  *)
(* come in any order and any number, and a command may stop at any step.   *)
(***************************************************************************)
EXTENDS BootModel, Integers

VARIABLES
    s,      \* the state of the machine
    ax,     \* the axioms that hold, those of AxiomNames
    step    \* what is done next: a step of migrate, or of setup, the sync, or nothing

vars == <<s, ax, step>>

\* The commands, as the step each begins with; setup has a step 3 and a step 10 of its own.
Steps == {<<"migrate", k>> : k \in 1..10} \cup {<<"setup", 3>>, <<"setup", 10>>}
Sync  == <<"sync", 0>>
Rest  == <<"rest", 0>>      \* the last command is complete, or none was run
Stopped == <<"stopped", 0>> \* the last command failed or was killed
Idle == step \in {Rest, Stopped}

NextStep(st) ==
    CASE st[2] = 10                     -> Sync
      [] st = <<"setup", 3>>            -> <<"setup", 10>>
      [] st[1] = "migrate" /\ st[2] < 10 -> <<"migrate", st[2] + 1>>

Start ==
    /\ Idle
    /\ step' \in {<<"migrate", 1>>, <<"setup", 3>>}
    /\ UNCHANGED <<s, ax>>

\* The check before a swap, when it passes.
Verify ==
    /\ s' = verify_artifact(s)
    /\ UNCHANGED <<ax, step>>

Step ==
    /\ step \in Steps
    /\ s' \in Stepped(step[2], s, ax)
    /\ step' = NextStep(step)
    /\ UNCHANGED ax

\* A rollback or a kernel installation.
Operate ==
    /\ Idle
    /\ s' \in rollback(s, ax) \cup kernel_install(s, ax)
    /\ step' = Sync
    /\ UNCHANGED ax

SyncFilesystem ==
    /\ step = Sync
    /\ s' = sync_filesystem(s, ax)
    /\ step' = Rest
    /\ UNCHANGED ax

\* A command stops where it is.
Stop ==
    /\ step \in Steps \cup {Sync}
    /\ step' = Stopped
    /\ UNCHANGED <<s, ax>>

Next == Start \/ Verify \/ Step \/ Operate \/ SyncFilesystem \/ Stop

Init ==
    /\ \E relative, separated \in BOOLEAN, ref \in DeviceRefs, comp \in Compressions :
            s = initial_state(relative, separated, ref, comp)
    /\ ax \in SUBSET AxiomNames
    /\ step = Rest

ModelSpec == Init /\ [][Next]_vars

-----------------------------------------------------------------------------
(* Properties.                                                             *)

\* The axioms the repository's theorems assume of GRUB; the other axioms may hold or not.
Required == {"grub_follows_esp_uuid", "grub_resolves_from_default_subvol",
             "grub_prefix_determines_config", "grub_follows_btrfs_symlinks",
             "grub_skips_config_verification"}

\* Theorems 1, 3, 4 and 6 of proof.rs, for every sequence of commands and every place a
\* command stops at: with the required axioms the machine boots.
EveryStateBoots == Required \subseteq ax => boots(s, ax)

\* Theorem 9: whatever separated /var, its mount has the device and the compression of
\* the root's.
VarConsistent == var_config_consistent(s)

\* Theorem 10: when a command is complete, where syncfs commits, what boots is on disk.
RestIsRebootSafe ==
    Required \cup {"syncfs_commits_transaction"} \subseteq ax /\ step = Rest =>
        reboot_safe(s, ax)

=============================================================================
