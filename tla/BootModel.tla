------------------------------ MODULE BootModel ------------------------------
(***************************************************************************)
(* The repository's own model of the boot chain, proof.rs: a state, the    *)
(* axioms about the programs around the tool, what boots under them, and   *)
(* each step of the migration, a rollback and a kernel installation as a   *)
(* function of the state.  Fields that no step changes or no predicate     *)
(* reads are left out: bls_paths, initramfs_current, grub_cfg_current,     *)
(* home_subvol_intact, var_subvol_intact, old_root_preserved.              *)
(***************************************************************************)

Uuids        == {"Ext4", "Btrfs"}
\* Besides the IDs of proof.rs the top level, the default subvolume until step 3.
SubvolIds    == {"Id256", "Id259", "toplevel"}
DeviceRefs   == {"Uuid", "DevPath", "Label", "PartUuid", "PartLabel", "Id"}
Compressions == {"Zstd", "Lzo", "None", "Inherited"}

SystemStates ==
    [esp_target_uuid : Uuids, esp_has_btrfs_relative : BOOLEAN, esp_prefix_has_boot : BOOLEAN,
     grub_cfg_on_ext4 : BOOLEAN, grub_cfg_on_btrfs : BOOLEAN,
     kernel_on_ext4 : BOOLEAN, kernel_on_btrfs : BOOLEAN, symlinks_exist : BOOLEAN,
     fstab_has_ext4_boot : BOOLEAN, ext4_boot_mounted : BOOLEAN,
     var_is_subvol : BOOLEAN, fstab_has_var_mount : BOOLEAN,
     root_device_ref : DeviceRefs, root_compression : Compressions,
     var_device_ref : DeviceRefs, var_compression : Compressions,
     default_subvol : SubvolIds, root_subvol : SubvolIds,
     grubenv_nocow : BOOLEAN, artifact_verified : BOOLEAN, durable : BOOLEAN]

AxiomNames ==
    {"grub_follows_esp_uuid", "grub_resolves_from_default_subvol",
     "grub_prefix_determines_config", "grub_follows_btrfs_symlinks",
     "grub_loadenv_requires_nocow", "grub_skips_config_verification",
     "rename_exchange_atomic_btrfs", "rename_exchange_safe_vfat",
     "syncfs_commits_transaction", "kernel_subvol_overrides_default",
     "systemd_fstab_fatal", "kernel_install_dispatches_hooks"}

\* The boot from btrfs: what GRUB needs of the ESP, the volume and its own features.
GrubFindsKernelOnBtrfs(s, ax) ==
    /\ "grub_resolves_from_default_subvol" \in ax
    /\ s.esp_has_btrfs_relative /\ s.default_subvol = s.root_subvol
    /\ "grub_prefix_determines_config" \in ax /\ s.esp_prefix_has_boot
    /\ "grub_follows_btrfs_symlinks" \in ax /\ s.symlinks_exist
    /\ s.kernel_on_btrfs

\* Does a machine in the state s, with programs that have the properties ax, boot?
boots(s, ax) ==
    /\ "grub_follows_esp_uuid" \in ax
    /\ s.esp_target_uuid = "Ext4" => s.grub_cfg_on_ext4 /\ s.kernel_on_ext4
    /\ s.esp_target_uuid = "Btrfs" =>
         /\ s.grub_cfg_on_btrfs /\ GrubFindsKernelOnBtrfs(s, ax)
         /\ "grub_skips_config_verification" \in ax
         /\ "grub_loadenv_requires_nocow" \in ax => s.grubenv_nocow
    /\ "kernel_subvol_overrides_default" \in ax \/ s.default_subvol = s.root_subvol
    /\ "systemd_fstab_fatal" \in ax /\ s.fstab_has_var_mount =>
         s.var_is_subvol /\ s.var_device_ref = s.root_device_ref

var_config_consistent(s) ==
    s.fstab_has_var_mount => /\ s.var_device_ref = s.root_device_ref
                             /\ s.var_compression = s.root_compression

reboot_safe(s, ax) == boots(s, ax) /\ s.durable

initial_state(esp_has_btrfs_relative, var_separated, device_ref, compression) ==
    [esp_target_uuid |-> "Ext4", esp_has_btrfs_relative |-> esp_has_btrfs_relative,
     esp_prefix_has_boot |-> FALSE,
     grub_cfg_on_ext4 |-> TRUE, grub_cfg_on_btrfs |-> FALSE,
     kernel_on_ext4 |-> TRUE, kernel_on_btrfs |-> FALSE, symlinks_exist |-> FALSE,
     fstab_has_ext4_boot |-> TRUE, ext4_boot_mounted |-> TRUE,
     var_is_subvol |-> var_separated, fstab_has_var_mount |-> var_separated,
     root_device_ref |-> device_ref, root_compression |-> compression,
     var_device_ref |-> device_ref, var_compression |-> compression,
     default_subvol |-> "Id256", root_subvol |-> "Id256",
     grubenv_nocow |-> FALSE, artifact_verified |-> FALSE, durable |-> TRUE]

-----------------------------------------------------------------------------
(* The steps.  An Option of a state is the set of at most one state.       *)

verify_artifact(s) == [s EXCEPT !.artifact_verified = TRUE]

sync_filesystem(s, ax) == [s EXCEPT !.durable = "syncfs_commits_transaction" \in ax]

\* A step that is in memory only, and one that takes a verified artifact besides.
Change(s)        == [s EXCEPT !.durable = FALSE]
Swap(s)          == [s EXCEPT !.durable = FALSE, !.artifact_verified = FALSE]
CanSwap(s, ax)   == s.artifact_verified /\ "rename_exchange_atomic_btrfs" \in ax
Option(some, s)  == {t \in {s} : some}

step1_copy_boot(s)         == Change([s EXCEPT !.kernel_on_btrfs = TRUE])
step2_create_symlinks(s)   == Change([s EXCEPT !.symlinks_exist = TRUE])
step3_set_default_subvol(s) == Change([s EXCEPT !.default_subvol = s.root_subvol])
step4_switch_boot(s)       == [s EXCEPT !.ext4_boot_mounted = FALSE]

step5_update_fstab(s, ax) ==
    Option(CanSwap(s, ax), Swap([s EXCEPT !.fstab_has_ext4_boot = FALSE]))

step6_rebuild_initramfs(s, ax) == Option(CanSwap(s, ax), Swap(s))

step7_regen_grub_cfg(s, ax) ==
    Option(CanSwap(s, ax), Swap([s EXCEPT !.grub_cfg_on_btrfs = TRUE]))

step8_fix_grubenv(s) == Change([s EXCEPT !.grubenv_nocow = TRUE])

step9_update_esp(s, ax) ==
    Option(s.artifact_verified /\ "rename_exchange_safe_vfat" \in ax,
           Swap([s EXCEPT !.esp_target_uuid = "Btrfs", !.esp_has_btrfs_relative = TRUE,
                          !.esp_prefix_has_boot = TRUE]))

VarSeparated(s) ==
    IF s.var_is_subvol THEN s
    ELSE [s EXCEPT !.var_is_subvol = TRUE, !.fstab_has_var_mount = TRUE,
                   !.var_device_ref = s.root_device_ref,
                   !.var_compression = s.root_compression]

step10_separate_var(s, ax) == Option(CanSwap(s, ax), Swap(VarSeparated(s)))

kernel_install(s, ax) ==
    Option(CanSwap(s, ax) /\ "kernel_install_dispatches_hooks" \in ax, Swap(s))

rollback(s, ax) ==
    Option(CanSwap(s, ax),
           Swap([s EXCEPT !.root_subvol = "Id259", !.default_subvol = "Id259"]))

\* What step k makes of s.
Stepped(k, s, ax) ==
    CASE k = 1  -> {step1_copy_boot(s)}
      [] k = 2  -> {step2_create_symlinks(s)}
      [] k = 3  -> {step3_set_default_subvol(s)}
      [] k = 4  -> {step4_switch_boot(s)}
      [] k = 5  -> step5_update_fstab(s, ax)
      [] k = 6  -> step6_rebuild_initramfs(s, ax)
      [] k = 7  -> step7_regen_grub_cfg(s, ax)
      [] k = 8  -> {step8_fix_grubenv(s)}
      [] k = 9  -> step9_update_esp(s, ax)
      [] k = 10 -> step10_separate_var(s, ax)

=============================================================================
