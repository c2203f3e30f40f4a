------------------------------- MODULE Migrate -------------------------------
(***************************************************************************)
(* setup and migrate: the steps that take a stock Fedora layout to the one *)
(* rollbacks work on, each tool call a step of its own, with the gate      *)
(* between them, tools that fail, kills, power losses and runs after them. *)
(* The volume has one kernel; a file written as x.new and exchanged with x *)
(* is one step, since each run writes x.new anew.                          *)
(***************************************************************************)
EXTENDS Integers, Sequences

CONSTANTS
    Commands,   \* the commands an instance runs: of "migrate" and "setup"
    Faults,     \* which of "io", "kill" and "power" may happen
    Others      \* what else happens: of "snapshot" and "rollback"

ASSUME MigrateAssumption ==
    /\ Commands \subseteq {"migrate", "setup"}
    /\ Faults \subseteq {"io", "kill", "power"}
    /\ Others \subseteq {"snapshot", "rollback"}

VARIABLES
    live,      \* the btrfs volume as the kernel sees it
    running,   \* the name of the subvolume that is mounted as /
    disk,      \* the btrfs volume as a power loss leaves it
    esp,       \* the file system the ESP's grub.cfg points GRUB to
    espDisk,   \* the same, as a power loss leaves it
    mounts,    \* what is mounted, the top level of the volume as "top"
    command,   \* the command that is running, or ran last
    pc         \* the step the command is at

vars == <<live, running, disk, esp, espDisk, mounts, command, pc>>

-----------------------------------------------------------------------------
(* The layout.                                                             *)

BootFiles == {"grub.cfg", "kernel"}   \* "kernel": with initramfs and BLS entry
VarContents == {"empty", "full"}      \* of /var: the system's data, or none

\* What is inside the subvolume mounted as /, /boot being a directory of it.
RootImages == [boot    : SUBSET BootFiles,
               rebuilt : SUBSET {"initramfs", "grub.cfg"},
               links   : BOOLEAN,
               fstab   : SUBSET {"/boot", "/var"},
               nocow   : BOOLEAN,
               hook    : {"none", "plain", "executable"},
               var     : VarContents]

Stock == [boot |-> {}, rebuilt |-> {}, links |-> FALSE, fstab |-> {"/boot"},
          nocow |-> FALSE, hook |-> "none", var |-> "full"]

\* The volume: the root, a snapshot of it (the stock root stands for none), the
\* subvolume var, the snapshot it is filled from, and the default subvolume.
VolumeStates == [root    : RootImages,
                 snap    : RootImages,
                 var     : VarContents \cup {"absent"},
                 aside   : VarContents \cup {"absent"},
                 default : {"toplevel", "root"}]

\* What an installation leaves: /var in the root, or (Cloud) apart from it.
Fresh == [root |-> Stock, snap |-> Stock, var |-> "absent",
          aside |-> "absent", default |-> "toplevel"]

Cloud == [Fresh EXCEPT !.root.fstab = @ \cup {"/var"}, !.root.var = "empty",
                       !.var = "full"]

\* What is mounted as /, and the volume with another content of it.
Here        == live[running]
WithHere(r) == [live EXCEPT ![running] = r]

VisibleBoot == IF "/boot" \in mounts THEN BootFiles ELSE Here.boot

Model == INSTANCE BootModel

\* The volume v, with an ESP that points to e, as the state of proof.rs.  The ext4
\* partition keeps its kernel and its grub.cfg, and step 1 puts its mount back.  Step 9
\* is the one that looks at its new file before the exchange.
ModelState(v, e) ==
    [esp_target_uuid |-> IF e = "btrfs" THEN "Btrfs" ELSE "Ext4",
     esp_has_btrfs_relative |-> e = "btrfs", esp_prefix_has_boot |-> e = "btrfs",
     grub_cfg_on_ext4 |-> TRUE, grub_cfg_on_btrfs |-> "grub.cfg" \in v.root.boot,
     kernel_on_ext4 |-> TRUE, kernel_on_btrfs |-> "kernel" \in v.root.boot,
     symlinks_exist |-> v.root.links,
     fstab_has_ext4_boot |-> "/boot" \in v.root.fstab,
     ext4_boot_mounted |-> \/ "/boot" \in mounts
                           \/ pc \in {"mountold", "copy", "umountold", "mountboot1"},
     var_is_subvol |-> "/var" \in v.root.fstab /\ v.var # "absent",
     fstab_has_var_mount |-> "/var" \in v.root.fstab,
     root_device_ref |-> "Uuid", root_compression |-> "Zstd",
     var_device_ref |-> "Uuid", var_compression |-> "Zstd",
     default_subvol |-> IF v.default = "root" THEN "Id256" ELSE "toplevel",
     root_subvol |-> "Id256",
     grubenv_nocow |-> v.root.nocow,
     artifact_verified |-> pc = "esp", durable |-> FALSE]

\* Would this volume boot with an ESP that points to e, as proof.rs has it, on Fedora,
\* where all of its axioms hold?
Boots(v, e) == Model!boots(ModelState(v, e), Model!AxiomNames)

\* Mutation of GatePasses: the mounts of fstab are not looked at.
GateWithoutFstab ==
    /\ "/boot/efi" \in mounts
    /\ BootFiles \subseteq VisibleBoot
    /\ esp = "btrfs" => Here.links /\ live.default = "root"

\* The gate, verify_bootable("/"), on what is visible on the running system.
GatePasses ==
    /\ "/boot/efi" \in mounts
    /\ BootFiles \subseteq VisibleBoot
    /\ esp = "btrfs" => Here.links /\ live.default = "root"
    /\ "/var" \in Here.fstab => live.var # "absent"

\* verify_snapshot_bootable() of the subvolume r.  It reads the ESP, takes the paths of the
\* boot entries as paths in r, and does not look at the attributes of grubenv.
SnapshotVerifies(r) ==
    /\ "/boot/efi" \in mounts
    /\ BootFiles \subseteq r.boot /\ r.links
    /\ "/var" \in r.fstab => live.var # "absent"

\* What a boot mounts.
FstabMounts(v) == v.root.fstab \cup {"/boot/efi"}

-----------------------------------------------------------------------------
(* The order of the steps.                                                 *)

\* Mutation of SeparateVar: the subvolume is filled after fstab names it.
FillLast == <<"look10", "top", "snap", "clean", "create", "varfstab", "fill",
              "drop", "untop", "mountvar", "gate10", "sync">>

\* Mutation of SeparateVar: fstab is written before the subvolume is there.
FstabFirst == <<"look10", "varfstab", "top", "snap", "clean", "create", "fill",
                "drop", "untop", "mountvar", "gate10", "sync">>

SeparateVar == <<"look10", "top", "snap", "clean", "create", "fill", "drop",
                 "untop", "varfstab", "mountvar", "gate10", "sync">>

SetupPlan == <<"gate0", "default", "gate3">> \o SeparateVar \o <<"done">>

\* Mutation of MigratePlan: the ESP is switched before grubenv is made readable.
EspBeforeGrubenv ==
    <<"gate0", "look1", "umountefi1", "umountboot1", "mountold", "copy",
      "umountold", "mountboot1", "mountefi1", "gate1", "links", "gate2", "default", "gate3",
      "look4", "umountefi4", "umountboot4", "mountefi4", "gate4",
      "fstab", "gate5", "initramfs", "gate6", "grubcfg", "gate7",
      "stub", "esp", "gate9", "grubenv", "gate8">>
    \o SeparateVar \o <<"hook", "chmod", "done">>

MigratePlan ==
    <<"gate0", "look1", "umountefi1", "umountboot1", "mountold", "copy",
      "umountold", "mountboot1", "mountefi1", "gate1", "links", "gate2", "default", "gate3",
      "look4", "umountefi4", "umountboot4", "mountefi4", "gate4",
      "fstab", "gate5", "initramfs", "gate6", "grubcfg", "gate7",
      "grubenv", "gate8", "stub", "esp", "gate9">>
    \o SeparateVar \o <<"hook", "chmod", "done">>

Plan == [migrate |-> MigratePlan, setup |-> SetupPlan]

Labels(c) == {Plan[c][i] : i \in DOMAIN Plan[c]}
Gates == {"gate0", "gate1", "gate2", "gate3", "gate4", "gate5", "gate6",
          "gate7", "gate8", "gate9", "gate10"}

Following ==
    [c \in DOMAIN Plan |->
        [l \in Labels(c) \ {"done"} |->
            Plan[c][1 + CHOOSE i \in DOMAIN Plan[c] : Plan[c][i] = l]]]

Onward  == pc' = Following[command][pc]
Fail    == pc' = "failed"
IOError == "io" \in Faults

\* A tool that succeeds with this change of the volume, or fails without one.
Changes(v) ==
    /\ \/ live' = v /\ Onward
       \/ IOError /\ Fail /\ UNCHANGED live
    /\ UNCHANGED <<disk, esp, espDisk, mounts>>

\* A mount or umount; busy: the tool can only fail.
Mounts(m, busy) ==
    /\ \/ ~busy /\ mounts' = m /\ Onward
       \/ (IOError \/ busy) /\ Fail /\ UNCHANGED mounts
    /\ UNCHANGED <<disk, esp, espDisk>>

-----------------------------------------------------------------------------
Start ==
    /\ pc = "idle"
    /\ pc' = "gate0"
    /\ command' \in Commands
    /\ UNCHANGED <<live, running, disk, esp, espDisk, mounts>>

Gate ==
    /\ pc \in Gates
    /\ \/ GatePasses /\ Onward
       \/ (IOError \/ ~GatePasses) /\ Fail
    /\ UNCHANGED <<live, disk, esp, espDisk, mounts>>

\* Mutation of LookAtBoot: step 1 cannot be repeated once step 4 was done.
LookOnlyOnce ==
    /\ \/ pc \in {"look1", "look4"} /\ "/boot" \in mounts /\ Onward
       \/ pc = "look1" /\ "/boot" \notin mounts /\ Fail
       \/ pc = "look4" /\ "/boot" \notin mounts /\ pc' = "gate4"
    /\ UNCHANGED <<live, disk, esp, espDisk, mounts>>

\* Steps 1 and 4 have nothing to do once /boot is no mount point any more.
LookAtBoot ==
    /\ \/ pc \in {"look1", "look4"} /\ "/boot" \in mounts /\ Onward
       \/ pc = "look1" /\ "/boot" \notin mounts /\ Here.boot # {} /\ pc' = "gate1"
       \/ pc = "look1" /\ "/boot" \notin mounts /\ Here.boot = {} /\ Fail
       \/ pc = "look4" /\ "/boot" \notin mounts /\ pc' = "gate4"
    /\ UNCHANGED <<live, disk, esp, espDisk, mounts>>

\* The failure of the first umount is ignored, the second then fails for it.
UmountBoot ==
    \/ /\ pc \in {"umountefi1", "umountefi4"}
       /\ \/ mounts' = mounts \ {"/boot/efi"}
          \/ IOError /\ UNCHANGED mounts
       /\ Onward
       /\ UNCHANGED <<live, disk, esp, espDisk>>
    \/ /\ pc \in {"umountboot1", "umountboot4"}
       /\ Mounts(mounts \ {"/boot"}, "/boot/efi" \in mounts)
       /\ UNCHANGED live

\* The partition is mounted apart, copied, and unmounted.  A ? on the copy or on the umount,
\* and a kill, leave it mounted there.
OldBoot ==
    /\ \/ /\ pc = "mountold"
          /\ Mounts(mounts \cup {"/mnt/old-boot"},
                    "/boot" \notin Here.fstab \/ "/mnt/old-boot" \in mounts)
       \/ pc = "umountold" /\ Mounts(mounts \ {"/mnt/old-boot"}, FALSE)
    /\ UNCHANGED live

\* Mutation of CopyBoot: the directory is copied, not what is in it.
CopyDirectory ==
    /\ pc = "copy"
    /\ Changes(WithHere([Here EXCEPT !.boot = @ \cup {"old-boot"}]))

\* rsync copies file after file, over those of an earlier run.
CopyBoot ==
    /\ pc = "copy"
    /\ \/ Changes(WithHere([Here EXCEPT !.boot = BootFiles, !.rebuilt = {}]))
       \/ /\ \E f \in BootFiles \ Here.boot :
                live' = WithHere([Here EXCEPT !.boot = @ \cup {f}, !.rebuilt = {}])
          /\ UNCHANGED <<disk, esp, espDisk, mounts, pc>>

MountBack ==
    /\ \/ /\ pc = "mountboot1"
          /\ Mounts(mounts \cup {"/boot"}, "/boot" \notin Here.fstab)
       \/ /\ pc \in {"mountefi1", "mountefi4"}
          /\ Mounts(mounts \cup {"/boot/efi"}, FALSE)
    /\ UNCHANGED live

CreateSymlinks   == pc = "links"   /\ Changes(WithHere([Here EXCEPT !.links = TRUE]))
SetDefaultSubvol == pc = "default" /\ Changes([live EXCEPT !.default = "root"])

UpdateFstab == pc = "fstab"   /\ Changes(WithHere([Here EXCEPT !.fstab = @ \ {"/boot"}]))
FixGrubenv  == pc = "grubenv" /\ Changes(WithHere([Here EXCEPT !.nocow = TRUE]))

\* dracut and grub2-mkconfig write the new file, which is then exchanged with
\* the old one; the gate that follows is the only check of it.
Regenerate ==
    \/ pc = "initramfs"
       /\ Changes(WithHere([Here EXCEPT !.rebuilt = @ \cup {"initramfs"}]))
    \/ pc = "grubcfg"
       /\ Changes(WithHere([Here EXCEPT !.rebuilt = @ \cup {"grub.cfg"}]))

\* The new stub is written and parsed before it takes the place of the old one.
UpdateEsp ==
    /\ pc \in {"stub", "esp"}
    /\ \/ pc = "stub" /\ Onward /\ UNCHANGED esp
       \/ pc = "esp" /\ esp' = "btrfs" /\ Onward
       \/ IOError /\ Fail /\ UNCHANGED esp
    /\ UNCHANGED <<live, disk, espDisk, mounts>>

\* Step 10.  Every ? between the mount of the top level and its umount returns
\* with the top level still mounted.
LookAtVar ==
    /\ pc = "look10"
    /\ IF "/var" \in mounts THEN pc' = "gate10" ELSE Onward
    /\ UNCHANGED <<live, disk, esp, espDisk, mounts>>

MountTop ==
    /\ \/ pc = "top"   /\ Mounts(mounts \cup {"top"}, "top" \in mounts)
       \/ pc = "untop" /\ Mounts(mounts \ {"top"}, FALSE)
    /\ UNCHANGED live

\* Making a snapshot commits the volume.  One left by an earlier run goes first.  It is of
\* the subvolume under the root's name, whichever is mounted as /.
SnapshotRoot ==
    /\ pc = "snap"
    /\ \/ /\ live' = [live EXCEPT !.aside = live.root.var]
          /\ disk' = live'
          /\ Onward
       \/ /\ IOError
          /\ live' \in {live, [live EXCEPT !.aside = "absent"]}
          /\ Fail
          /\ UNCHANGED disk
    /\ UNCHANGED <<esp, espDisk, mounts>>

\* A subvolume var that is there is taken for the rest of an earlier run.
FillVar ==
    \/ pc = "clean"  /\ Changes([live EXCEPT !.var = "absent"])
    \/ pc = "create" /\ Changes([live EXCEPT !.var = "empty"])
    \/ pc = "fill"   /\ Changes([live EXCEPT !.var = live.aside])
    \/ pc = "drop"   /\ Changes([live EXCEPT !.aside = "absent"])

AddVarToFstab ==
    pc = "varfstab" /\ Changes(WithHere([Here EXCEPT !.fstab = @ \cup {"/var"}]))

MountVar ==
    /\ pc = "mountvar"
    /\ Mounts(mounts \cup {"/var"}, FALSE)
    /\ UNCHANGED live

\* Mutation of SyncFilesystem: left out.
NoSync == pc = "sync" /\ Onward /\ UNCHANGED <<live, disk, esp, espDisk, mounts>>

\* syncfs("/") is about the btrfs volume, not about the ESP.
SyncFilesystem ==
    /\ pc = "sync"
    /\ \/ disk' = live /\ Onward
       \/ IOError /\ Fail /\ UNCHANGED disk
    /\ UNCHANGED <<live, esp, espDisk, mounts>>

\* ensure_hooks() leaves a hook that exists alone and ignores every error.
EnsureHooks ==
    /\ \/ /\ pc = "hook"
          /\ Here.hook = "none" /\ "/boot" \notin mounts
          /\ live' = WithHere([Here EXCEPT !.hook = "plain"])
          /\ Onward
       \/ /\ pc = "hook"
          /\ IOError \/ Here.hook # "none" \/ "/boot" \in mounts
          /\ pc' = "done"
          /\ UNCHANGED live
       \/ /\ pc = "chmod"
          /\ live' = WithHere([Here EXCEPT !.hook = "executable"])
          /\ Onward
       \/ pc = "chmod" /\ IOError /\ Onward /\ UNCHANGED live
    /\ UNCHANGED <<disk, esp, espDisk, mounts>>

Exit ==
    /\ pc \in {"done", "failed"}
    /\ pc' = "idle"
    /\ UNCHANGED <<live, disk, esp, espDisk, mounts>>

Step ==
    /\ \/ Gate \/ LookAtBoot \/ UmountBoot \/ OldBoot \/ CopyBoot \/ MountBack
       \/ CreateSymlinks \/ SetDefaultSubvol \/ UpdateFstab \/ Regenerate
       \/ FixGrubenv \/ UpdateEsp
       \/ LookAtVar \/ MountTop \/ SnapshotRoot \/ FillVar \/ AddVarToFstab
       \/ MountVar \/ SyncFilesystem \/ EnsureHooks \/ Exit
    /\ UNCHANGED <<command, running>>

-----------------------------------------------------------------------------
(* The rest of the system.                                                 *)

\* The command is killed; its mounts and the changes it made stay.
Kill ==
    /\ "kill" \in Faults
    /\ pc \notin {"idle", "done", "failed"}
    /\ pc' = "idle"
    /\ UNCHANGED <<live, running, disk, esp, espDisk, mounts, command>>

\* The kernel writes the two file systems back, neither ahead of the other.
Commit   == disk' = live /\ UNCHANGED <<live, running, esp, espDisk, mounts, command, pc>>
FlushEsp == espDisk' = esp /\ UNCHANGED <<live, running, disk, esp, mounts, command, pc>>

\* The machine starts from what is on the disk, when that boots; one that does not boot is
\* not followed any further.
Restart(v, e) ==
    /\ Boots(v, e)
    /\ live' = v /\ disk' = v /\ running' = "root"
    /\ esp' = e /\ espDisk' = e
    /\ mounts' = FstabMounts(v)
    /\ pc' = "idle"
    /\ UNCHANGED command

PowerLoss == "power" \in Faults /\ Restart(disk, espDisk)
Reboot    == pc = "idle" /\ Restart(live, esp)

\* Bound: one snapshot; while the system runs from the subvolume under its name there is
\* none to take the place of.
SnapshotFree == running = "root"

\* atomic-rollback snapshot.
TakeSnapshot ==
    /\ "snapshot" \in Others
    /\ "top" \notin mounts
    /\ SnapshotFree
    /\ live' = [live EXCEPT !.snap = live.root]
    /\ disk' = live'
    /\ UNCHANGED <<running, esp, espDisk, mounts, command, pc>>

\* atomic-rollback rollback, when it completes, up to the reboot it asks for: the system
\* goes on under the snapshot's name.  The exchange, set-default and the sync are one step,
\* as AtomicSwap has them for the rest of the machine.
RollBack ==
    /\ "rollback" \in Others
    /\ "top" \notin mounts
    /\ SnapshotVerifies(live.snap)
    /\ live' = [live EXCEPT !.root = live.snap, !.snap = live.root, !.default = "root"]
    /\ disk' = live'
    /\ running' = IF running = "root" THEN "snap" ELSE "root"
    /\ UNCHANGED <<esp, espDisk, mounts, command, pc>>

Next ==
    \/ Start \/ Step
    \/ Kill \/ Commit \/ FlushEsp \/ PowerLoss \/ Reboot
    \/ TakeSnapshot \/ RollBack

Init ==
    /\ live \in {Fresh, Cloud}
    /\ disk = live
    /\ running = "root"
    /\ esp = "ext4" /\ espDisk = "ext4"
    /\ mounts = FstabMounts(live)
    /\ command \in Commands
    /\ pc = "idle"

MigrateSpec == Init /\ [][Next]_vars

\* A process that is not killed goes on; whoever started the command starts it
\* again and restarts the machine.
RestartedMigrateSpec ==
    MigrateSpec /\ WF_vars(Step) /\ WF_vars(Start) /\ SF_vars(Reboot)

-----------------------------------------------------------------------------
(* Properties.                                                             *)

\* What the variables of setup and migrate range over.
MigrateTypeOK ==
    /\ live \in VolumeStates /\ disk \in VolumeStates
    /\ esp \in {"ext4", "btrfs"} /\ espDisk \in {"ext4", "btrfs"}
    /\ running \in {"root", "snap"}
    /\ mounts \subseteq {"/boot", "/boot/efi", "/var", "top", "/mnt/old-boot"}
    /\ command \in Commands
    /\ pc \in Labels(command) \cup {"idle", "failed"}

\* What the gate accepts boots: the checks of check.rs, made on the mounted system, imply
\* the boot chain of proof.rs for the volume as it is, grubenv included, at which they do not
\* look.  Between a rollback and the reboot what is mounted is not what boots next.
GateSound == running = "root" /\ GatePasses => Boots(live, esp)

\* Every state on the way has a way to boot up to the root file system, as long as the machine
\* is not cut off: no tool failure, kill or rerun, and no rollback that is taken back, leaves
\* GRUB without a grub.cfg, a kernel, a grubenv it reads or the default subvolume.
ChainToRoot == running = "root" => Boots([live EXCEPT !.root.fstab = {}], esp)

\* Until the vfat write of the new ESP reaches the disk, a power loss leaves a
\* volume that boots, whatever of the command was committed by then: the new
\* fstab is never on disk without the subvolume it mounts.
PowerLossBootsBeforeEsp == espDisk = "ext4" => Boots(disk, espDisk)

\* What fstab mounts as /var, now and after a power loss, is never a subvolume
\* that does not hold the system's data yet: the copy comes before the name.
VarIsFilled ==
    \A v \in {live, disk} : "/var" \in v.root.fstab => v.var = "full"

\* When the command says complete, the volume has the new layout, the disk has
\* the whole of it, it boots whichever of the two ESPs a power loss leaves, and what the
\* command or an interrupted one before it mounted for its own use is unmounted.
CompleteIsMigrated ==
    pc = "done" /\ running = "root" =>
      /\ Boots(disk, "ext4") /\ Boots(disk, esp)
      /\ "/var" \in mounts /\ "/var" \in disk.root.fstab
      /\ disk.default = "root"
      /\ mounts \cap {"top", "/mnt/old-boot"} = {}
      /\ command = "migrate" =>
            /\ esp = "btrfs" /\ "/boot" \notin mounts
            /\ "/boot" \notin disk.root.fstab
            /\ SnapshotVerifies(live.root)

\* What step k of proof.rs makes of the state a, whatever it says of the disk.  The
\* verification that steps 5, 6, 7, 9 and 10 ask for is granted, since the code has one before
\* the exchange of step 9 alone (ModelState): the other four do not meet their guards.
Chain(s)      == [s EXCEPT !.artifact_verified = TRUE, !.durable = FALSE]
Modelled(k, a) == {Chain(t) : t \in Model!Stepped(k, Chain(a), Model!AxiomNames)}

\* The steps of proof.rs that a command consists of, and those of them before step k.
StepsOf   == [migrate |-> 1..10, setup |-> {3, 10}]
Before(k) == {j \in StepsOf[command] : j < k}

\* What a tool call makes of the boot chain is one step of proof.rs or nothing of it, and that
\* step is made only when those before it in the order of proof.rs have been made and are still
\* in force, also in a run after a power loss.  Only the copy of /boot brings a grub.cfg along,
\* which proof.rs has in step 7 alone.  This is about what the steps do and when; that the code
\* verifies before it exchanges is not shown by it, nor true.
StepsAsModelled ==
    [][Step =>
         LET a == Chain(ModelState(live, esp))
             b == Chain(ModelState(live, esp)')
         IN  \/ b = a
             \/ \E k \in StepsOf[command] :
                   b \in Modelled(k, a) /\ \A j \in Before(k) : a \in Modelled(j, a)
             \/ pc = "copy" /\ \E t \in {a} \cup Modelled(1, a) : b \in Modelled(7, t)]_vars

\* A kill or a power loss stops a command before its result.
Interrupted == pc \notin {"idle", "done", "failed"} /\ pc' = "idle"

\* As long as the volume boots, a command that was interrupted and is started
\* again, on a machine that is restarted again and again, completes.
MigrationResumes ==
    []Boots(live, esp) /\ <>[][~Interrupted]_vars => <>(pc = "done")

-----------------------------------------------------------------------------
(* What the documentation says.                                            *)

\* README.md:86, "Every intermediate state during migration has a valid boot
\* chain", the mounts of fstab, the last link of it (README.md:112), included.
EveryStateBoots == Boots(live, esp)

=============================================================================
