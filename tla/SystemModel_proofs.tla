------------------------- MODULE SystemModel_proofs -------------------------
(***************************************************************************)
(* What proof.rs shows of fixed sequences of steps, for all sequences of   *)
(* commands that SystemModel has, whole ones and those that stop midway.   *)
(***************************************************************************)
EXTENDS SystemModel, TLAPS

\* Every state has the record type of proof.rs.
ModelTypeOK ==
    /\ s \in SystemStates
    /\ ax \subseteq AxiomNames
    /\ step \in Steps \cup {Sync, Rest, Stopped}

\* What holds whatever was done last: the ext4 side stays, the default subvolume is
\* the root, a /var that fstab names is there and mounted like the root, and an ESP
\* that points to btrfs finds all it needs there.
Sane(t) ==
    /\ t.grub_cfg_on_ext4 /\ t.kernel_on_ext4
    /\ t.default_subvol = t.root_subvol
    /\ t.fstab_has_var_mount =>
         /\ t.var_is_subvol
         /\ t.var_device_ref = t.root_device_ref
         /\ t.var_compression = t.root_compression
    /\ t.esp_target_uuid = "Btrfs" =>
         /\ t.esp_has_btrfs_relative /\ t.esp_prefix_has_boot
         /\ t.kernel_on_btrfs /\ t.symlinks_exist
         /\ t.grub_cfg_on_btrfs /\ t.grubenv_nocow

\* What the steps of migrate before step k have made; no step takes it back.
Ready(k, t) ==
    /\ k > 1 => t.kernel_on_btrfs
    /\ k > 2 => t.symlinks_exist
    /\ k > 7 => t.grub_cfg_on_btrfs
    /\ k > 8 => t.grubenv_nocow

\* The inductive invariant.
ModelInv ==
    /\ ModelTypeOK
    /\ Sane(s)
    /\ \A k \in 1..10 : step = <<"migrate", k>> => Ready(k, s)
    /\ step = Rest /\ "syncfs_commits_transaction" \in ax => s.durable

\* The initial states of proof.rs are states, and sane.
LEMMA InitialStateSane ==
    ASSUME NEW relative \in BOOLEAN, NEW separated \in BOOLEAN,
           NEW ref \in DeviceRefs, NEW comp \in Compressions
    PROVE  LET t == initial_state(relative, separated, ref, comp)
           IN  t \in SystemStates /\ Sane(t) /\ t.durable
  BY DEF initial_state, SystemStates, Sane, Uuids, SubvolIds

\* Verifying, syncing, installing a kernel and rolling back keep a state sane.
LEMMA OperationsSane ==
    ASSUME NEW t \in SystemStates, Sane(t), NEW a
    PROVE  /\ verify_artifact(t) \in SystemStates /\ Sane(verify_artifact(t))
           /\ sync_filesystem(t, a) \in SystemStates /\ Sane(sync_filesystem(t, a))
           /\ \A u \in rollback(t, a) \cup kernel_install(t, a) :
                  u \in SystemStates /\ Sane(u)
<1>1. verify_artifact(t) \in SystemStates /\ Sane(verify_artifact(t))
  BY DEF verify_artifact, SystemStates, Sane
<1>2. sync_filesystem(t, a) \in SystemStates /\ Sane(sync_filesystem(t, a))
  <2>1. \/ sync_filesystem(t, a) = [t EXCEPT !.durable = TRUE]
        \/ sync_filesystem(t, a) = [t EXCEPT !.durable = FALSE]
    <3>1. ("syncfs_commits_transaction" \in a) = TRUE \/ ("syncfs_commits_transaction" \in a) = FALSE
      OBVIOUS
    <3>2. QED BY <3>1 DEF sync_filesystem
  <2>2. CASE sync_filesystem(t, a) = [t EXCEPT !.durable = TRUE]
    BY <2>2 DEF SystemStates, Sane
  <2>3. CASE sync_filesystem(t, a) = [t EXCEPT !.durable = FALSE]
    BY <2>3 DEF SystemStates, Sane
  <2>4. QED BY <2>1, <2>2, <2>3
<1>3. ASSUME NEW u \in kernel_install(t, a)
      PROVE  u \in SystemStates /\ Sane(u)
  <2>1. u = Swap(t)
    BY <1>3 DEF kernel_install, Option
  <2>2. QED BY <2>1 DEF Swap, SystemStates, Sane
<1>4. ASSUME NEW u \in rollback(t, a)
      PROVE  u \in SystemStates /\ Sane(u)
  <2>1. u = Swap([t EXCEPT !.root_subvol = "Id259", !.default_subvol = "Id259"])
    BY <1>4 DEF rollback, Option
  <2>2. QED BY <2>1 DEF Swap, SystemStates, Sane, SubvolIds
<1>5. QED BY <1>1, <1>2, <1>3, <1>4

\* A step of setup or migrate keeps a state sane (step 9, the switch of the ESP, because the
\* steps before it were made), and what a step of migrate makes is there for the next.
LEMMA StepKeeps ==
    ASSUME NEW t \in SystemStates, Sane(t), NEW a, NEW k \in 1..10,
           k = 9 => Ready(9, t),
           NEW u \in Stepped(k, t, a)
    PROVE  /\ u \in SystemStates /\ Sane(u)
           /\ k < 10 /\ Ready(k, t) => Ready(k + 1, u)
<1>1. CASE k = 1
  <2>1. u \in {step1_copy_boot(t)}
    BY <1>1 DEF Stepped
  <2>2. u = Change([t EXCEPT !.kernel_on_btrfs = TRUE])
    BY <2>1 DEF step1_copy_boot
  <2>4. u \in SystemStates /\ Sane(u)
    BY <2>2 DEF Change, SystemStates, Sane
  <2>5. ASSUME Ready(1, t) PROVE Ready(2, u)
    BY <2>2, <2>5 DEF Change, SystemStates, Ready
  <2>6. QED BY <1>1, <2>4, <2>5
<1>2. CASE k = 2
  <2>1. u \in {step2_create_symlinks(t)}
    BY <1>2 DEF Stepped
  <2>2. u = Change([t EXCEPT !.symlinks_exist = TRUE])
    BY <2>1 DEF step2_create_symlinks
  <2>4. u \in SystemStates /\ Sane(u)
    BY <2>2 DEF Change, SystemStates, Sane
  <2>5. ASSUME Ready(2, t) PROVE Ready(3, u)
    BY <2>2, <2>5 DEF Change, SystemStates, Ready
  <2>6. QED BY <1>2, <2>4, <2>5
<1>3. CASE k = 3
  <2>1. u \in {step3_set_default_subvol(t)}
    BY <1>3 DEF Stepped
  <2>2. u = Change([t EXCEPT !.default_subvol = t.root_subvol])
    BY <2>1 DEF step3_set_default_subvol
  <2>4. u \in SystemStates /\ Sane(u)
    BY <2>2 DEF Change, SystemStates, Sane
  <2>5. ASSUME Ready(3, t) PROVE Ready(4, u)
    BY <2>2, <2>5 DEF Change, SystemStates, Ready
  <2>6. QED BY <1>3, <2>4, <2>5
<1>4. CASE k = 4
  <2>1. u \in {step4_switch_boot(t)}
    BY <1>4 DEF Stepped
  <2>2. u = [t EXCEPT !.ext4_boot_mounted = FALSE]
    BY <2>1 DEF step4_switch_boot
  <2>4. u \in SystemStates /\ Sane(u)
    BY <2>2 DEF SystemStates, Sane
  <2>5. ASSUME Ready(4, t) PROVE Ready(5, u)
    BY <2>2, <2>5 DEF SystemStates, Ready
  <2>6. QED BY <1>4, <2>4, <2>5
<1>5. CASE k = 5
  <2>1. u \in step5_update_fstab(t, a)
    BY <1>5 DEF Stepped
  <2>2. u = Swap([t EXCEPT !.fstab_has_ext4_boot = FALSE])
    BY <2>1 DEF step5_update_fstab, Option
  <2>4. u \in SystemStates /\ Sane(u)
    BY <2>2 DEF Swap, SystemStates, Sane
  <2>5. ASSUME Ready(5, t) PROVE Ready(6, u)
    BY <2>2, <2>5 DEF Swap, SystemStates, Ready
  <2>6. QED BY <1>5, <2>4, <2>5
<1>6. CASE k = 6
  <2>1. u \in step6_rebuild_initramfs(t, a)
    BY <1>6 DEF Stepped
  <2>2. u = Swap(t)
    BY <2>1 DEF step6_rebuild_initramfs, Option
  <2>4. u \in SystemStates /\ Sane(u)
    BY <2>2 DEF Swap, SystemStates, Sane
  <2>5. ASSUME Ready(6, t) PROVE Ready(7, u)
    BY <2>2, <2>5 DEF Swap, SystemStates, Ready
  <2>6. QED BY <1>6, <2>4, <2>5
<1>7. CASE k = 7
  <2>1. u \in step7_regen_grub_cfg(t, a)
    BY <1>7 DEF Stepped
  <2>2. u = Swap([t EXCEPT !.grub_cfg_on_btrfs = TRUE])
    BY <2>1 DEF step7_regen_grub_cfg, Option
  <2>4. u \in SystemStates /\ Sane(u)
    BY <2>2 DEF Swap, SystemStates, Sane
  <2>5. ASSUME Ready(7, t) PROVE Ready(8, u)
    BY <2>2, <2>5 DEF Swap, SystemStates, Ready
  <2>6. QED BY <1>7, <2>4, <2>5
<1>8. CASE k = 8
  <2>1. u \in {step8_fix_grubenv(t)}
    BY <1>8 DEF Stepped
  <2>2. u = Change([t EXCEPT !.grubenv_nocow = TRUE])
    BY <2>1 DEF step8_fix_grubenv
  <2>4. u \in SystemStates /\ Sane(u)
    BY <2>2 DEF Change, SystemStates, Sane
  <2>5. ASSUME Ready(8, t) PROVE Ready(9, u)
    BY <2>2, <2>5 DEF Change, SystemStates, Ready
  <2>6. QED BY <1>8, <2>4, <2>5
<1>9. CASE k = 9
  <2>1. u \in step9_update_esp(t, a)
    BY <1>9 DEF Stepped
  <2>2. u = Swap([t EXCEPT !.esp_target_uuid = "Btrfs", !.esp_has_btrfs_relative = TRUE,
                            !.esp_prefix_has_boot = TRUE])
    BY <2>1 DEF step9_update_esp, Option
  <2>3. t.kernel_on_btrfs /\ t.symlinks_exist /\ t.grub_cfg_on_btrfs /\ t.grubenv_nocow
    BY <1>9 DEF Ready
  <2>4. u \in SystemStates /\ Sane(u)
    BY <2>2, <2>3 DEF Swap, SystemStates, Sane, Uuids
  <2>5. ASSUME Ready(9, t) PROVE Ready(10, u)
    BY <2>2, <2>5, <2>3 DEF Swap, SystemStates, Ready
  <2>6. QED BY <1>9, <2>4, <2>5
<1>10. CASE k = 10
  <2>1. u \in step10_separate_var(t, a)
    BY <1>10 DEF Stepped
  <2>2. u = Swap(VarSeparated(t))
    BY <2>1 DEF step10_separate_var, Option
  <2>3. VarSeparated(t) \in SystemStates /\ Sane(VarSeparated(t))
    <3>1. CASE t.var_is_subvol
      BY <3>1 DEF VarSeparated
    <3>2. CASE ~t.var_is_subvol
      <4>1. VarSeparated(t) = [t EXCEPT !.var_is_subvol = TRUE, !.fstab_has_var_mount = TRUE,
                                        !.var_device_ref = t.root_device_ref,
                                        !.var_compression = t.root_compression]
        BY <3>2 DEF VarSeparated
      <4>2. VarSeparated(t) \in SystemStates
        BY <4>1 DEF SystemStates
      <4>3. Sane(VarSeparated(t))
        BY <4>1 DEF SystemStates, Sane
      <4>4. QED BY <4>2, <4>3
    <3>3. QED BY <3>1, <3>2
  <2>4. ASSUME NEW v \in SystemStates, Sane(v)
        PROVE  Swap(v) \in SystemStates /\ Sane(Swap(v))
    BY <2>4 DEF Swap, SystemStates, Sane
  <2>5. QED BY <1>10, <2>2, <2>3, <2>4
<1>11. QED BY <1>1, <1>2, <1>3, <1>4, <1>5, <1>6, <1>7, <1>8, <1>9, <1>10

\* The step that follows a step, and what has been made before it.
LEMMA NextStepReady ==
    ASSUME NEW st \in Steps, NEW t \in SystemStates, Sane(t), NEW a,
           \A k \in 1..10 : st = <<"migrate", k>> => Ready(k, t),
           NEW u \in Stepped(st[2], t, a)
    PROVE  /\ u \in SystemStates /\ Sane(u)
           /\ NextStep(st) \in Steps \cup {Sync}
           /\ \A k \in 1..10 : NextStep(st) = <<"migrate", k>> => Ready(k, u)
<1>1. CASE st = <<"setup", 3>>
  <2>1. st[2] = 3 /\ NextStep(st) = <<"setup", 10>>
    BY <1>1 DEF NextStep
  <2>2. u \in SystemStates /\ Sane(u)
    BY <2>1, StepKeeps
  <2>3. QED BY <2>1, <2>2 DEF Steps
<1>2. CASE st = <<"setup", 10>>
  <2>1. st[2] = 10 /\ NextStep(st) = Sync
    BY <1>2 DEF NextStep
  <2>2. u \in SystemStates /\ Sane(u)
    BY <2>1, StepKeeps
  <2>3. QED BY <2>1, <2>2 DEF Sync
<1>3. CASE \E k \in 1..10 : st = <<"migrate", k>>
  <2>1. PICK k \in 1..10 : st = <<"migrate", k>>
    BY <1>3
  <2>2. st[2] = k /\ Ready(k, t)
    BY <2>1
  <2>3. u \in Stepped(k, t, a) /\ (k = 9 => Ready(9, t))
    BY <2>2
  <2>4. /\ u \in SystemStates /\ Sane(u)
        /\ k < 10 /\ Ready(k, t) => Ready(k + 1, u)
    BY <2>3, StepKeeps
  <2>5. CASE k = 10
    <3>1. NextStep(st) = Sync
      BY <2>1, <2>5 DEF NextStep
    <3>2. QED BY <3>1, <2>4 DEF Sync
  <2>6. CASE k < 10
    <3>1. NextStep(st) = <<"migrate", k + 1>> /\ k + 1 \in 1..10
      BY <2>1, <2>6 DEF NextStep
    <3>2. QED BY <3>1, <2>2, <2>4, <2>6 DEF Steps
  <2>7. QED BY <2>5, <2>6
<1>4. QED BY <1>1, <1>2, <1>3 DEF Steps

\* Every state of a behaviour has the invariant.
LEMMA ModelInvariant == ModelSpec => []ModelInv
<1>1. ASSUME Init PROVE ModelInv
  <2>1. PICK relative \in BOOLEAN, separated \in BOOLEAN, ref \in DeviceRefs,
             comp \in Compressions : s = initial_state(relative, separated, ref, comp)
    BY <1>1 DEF Init
  <2>2. s \in SystemStates /\ Sane(s) /\ s.durable
    BY <2>1, InitialStateSane
  <2>3. QED BY <1>1, <2>2 DEF Init, ModelInv, ModelTypeOK, Rest
<1>2. ASSUME ModelInv, [Next]_vars PROVE ModelInv'
  <2>0. /\ s \in SystemStates /\ Sane(s) /\ ax \subseteq AxiomNames
        /\ step \in Steps \cup {Sync, Rest, Stopped}
        /\ \A k \in 1..10 : step = <<"migrate", k>> => Ready(k, s)
    BY <1>2 DEF ModelInv, ModelTypeOK
  <2>1. CASE Start
    <3>1. step' \in {<<"migrate", 1>>, <<"setup", 3>>} /\ UNCHANGED <<s, ax>>
      BY <2>1 DEF Start
    <3>2. \A k \in 1..10 : step' = <<"migrate", k>> => Ready(k, s')
      BY <3>1 DEF Ready
    <3>3. QED BY <2>0, <3>1, <3>2 DEF ModelInv, ModelTypeOK, Steps, Rest
  <2>2. CASE Verify
    <3>1. s' = verify_artifact(s) /\ UNCHANGED <<ax, step>>
      BY <2>2 DEF Verify
    <3>2. s' \in SystemStates /\ Sane(s')
      BY <2>0, <3>1, OperationsSane
    <3>3. \A k \in 1..10 : Ready(k, s) => Ready(k, s')
      BY <2>0, <3>1 DEF verify_artifact, SystemStates, Ready
    <3>4. s'.durable = s.durable
      BY <2>0, <3>1 DEF verify_artifact, SystemStates
    <3>5. QED BY <1>2, <2>0, <3>1, <3>2, <3>3, <3>4 DEF ModelInv, ModelTypeOK
  <2>3. CASE Step
    <3>1. /\ step \in Steps /\ s' \in Stepped(step[2], s, ax)
          /\ step' = NextStep(step) /\ ax' = ax
      BY <2>3 DEF Step
    <3>2. /\ s' \in SystemStates /\ Sane(s')
          /\ step' \in Steps \cup {Sync}
          /\ \A k \in 1..10 : step' = <<"migrate", k>> => Ready(k, s')
      BY <2>0, <3>1, NextStepReady
    <3>3. step' # Rest
      BY <3>2 DEF Steps, Sync, Rest
    <3>4. QED BY <2>0, <3>1, <3>2, <3>3 DEF ModelInv, ModelTypeOK
  <2>4. CASE Operate
    <3>1. s' \in rollback(s, ax) \cup kernel_install(s, ax) /\ step' = Sync /\ ax' = ax
      BY <2>4 DEF Operate
    <3>2. s' \in SystemStates /\ Sane(s')
      BY <2>0, <3>1, OperationsSane
    <3>3. QED BY <2>0, <3>1, <3>2 DEF ModelInv, ModelTypeOK, Sync, Rest
  <2>5. CASE SyncFilesystem
    <3>1. s' = sync_filesystem(s, ax) /\ step' = Rest /\ ax' = ax
      BY <2>5 DEF SyncFilesystem
    <3>2. s' \in SystemStates /\ Sane(s')
      BY <2>0, <3>1, OperationsSane
    <3>3. "syncfs_commits_transaction" \in ax => s'.durable
      BY <2>0, <3>1 DEF sync_filesystem, SystemStates
    <3>4. QED BY <2>0, <3>1, <3>2, <3>3 DEF ModelInv, ModelTypeOK, Rest
  <2>6. CASE Stop
    <3>1. step' = Stopped /\ UNCHANGED <<s, ax>>
      BY <2>6 DEF Stop
    <3>2. QED BY <2>0, <3>1 DEF ModelInv, ModelTypeOK, Stopped, Rest
  <2>7. CASE UNCHANGED vars
    BY <1>2, <2>7 DEF vars, ModelInv, ModelTypeOK
  <2>8. QED BY <1>2, <2>1, <2>2, <2>3, <2>4, <2>5, <2>6, <2>7 DEF Next
<1>3. QED BY <1>1, <1>2, PTL DEF ModelSpec

-----------------------------------------------------------------------------

\* A sane state boots when GRUB is as the repository's theorems assume.
LEMMA SaneBoots ==
    ASSUME NEW t \in SystemStates, Sane(t), NEW a, Required \subseteq a
    PROVE  boots(t, a)
<1>1. t.esp_target_uuid \in Uuids
  BY DEF SystemStates
<1>2. QED BY <1>1 DEF Sane, Required, boots, GrubFindsKernelOnBtrfs, Uuids

\* Whatever the commands were and wherever each of them stopped, the machine boots: the
\* order of the steps of migrate is what makes the switch of the ESP safe.
THEOREM EveryStateOfTheModelBoots == ModelSpec => []EveryStateBoots
<1>1. ModelInv => EveryStateBoots
  BY SaneBoots DEF ModelInv, ModelTypeOK, EveryStateBoots
<1>2. QED BY <1>1, ModelInvariant, PTL

\* A mount of /var in fstab is always like that of the root.
THEOREM VarAlwaysConsistent == ModelSpec => []VarConsistent
<1>1. ModelInv => VarConsistent
  BY DEF ModelInv, Sane, VarConsistent, var_config_consistent
<1>2. QED BY <1>1, ModelInvariant, PTL

\* After a complete command the machine survives a power cut.
THEOREM CompleteIsRebootSafe == ModelSpec => []RestIsRebootSafe
<1>1. ModelInv => RestIsRebootSafe
  <2>1. SUFFICES ASSUME ModelInv, Required \cup {"syncfs_commits_transaction"} \subseteq ax,
                        step = Rest
                 PROVE  boots(s, ax) /\ s.durable
    BY DEF RestIsRebootSafe, reboot_safe
  <2>2. boots(s, ax)
    BY <2>1, SaneBoots DEF ModelInv, ModelTypeOK
  <2>3. s.durable
    BY <2>1 DEF ModelInv
  <2>4. QED BY <2>2, <2>3
<1>2. QED BY <1>1, ModelInvariant, PTL

=============================================================================
