----------------------------- MODULE KernelHook -----------------------------
(***************************************************************************)
(* Kernels come and go on a migrated system: kernel-install and its plugin *)
(* kernel_hook.rs, the hook file the plugin is reached through, crashes in *)
(* between, snapshots and rollbacks around them, and the removal of the    *)
(* package.  /boot is a directory of the root subvolume.                   *)
(***************************************************************************)
EXTENDS BootCheck

CONSTANTS
    NoKernel,   \* what runs on a machine that found no entry to boot
    Faults,     \* which of "io", "kill" and "power" may happen
    Others      \* what else happens: of "snapshot", "rollback" and "uninstall"

ASSUME KernelHookAssumption ==
    /\ NoKernel \notin Kernels
    /\ Faults \subseteq {"io", "kill", "power"}
    /\ Others \subseteq {"snapshot", "rollback", "uninstall"}

VARIABLES
    live,      \* the root subvolume: its boot directory and the hook file
    disk,      \* the same, as a power loss leaves it
    snap,      \* a snapshot of it
    running,   \* the kernel that was booted
    tool,      \* /usr/bin/atomic-rollback is installed
    kver,      \* the kernel that is being installed or removed, NoKernel if none is
    pc,        \* the step kernel-install, or its plugin, is at
    erred      \* a tool failed since kernel-install was started

vars == <<live, disk, snap, running, tool, kver, pc, erred>>

Roots == [boot : BootDirs, hook : {"none", "plain", "executable"}]

Both(k) == {k} \X Parts

\* A kernel that the migration, or an earlier installation, has left.
Installed(k) ==
    [files |-> Both(k), links |-> Both(k),
     entry |-> [j \in Kernels |-> IF j = k THEN "plain" ELSE "none"]]

\* No kernel-install and no ensure-hooks runs.
Idle == pc' = "idle" /\ kver' = NoKernel /\ erred' = FALSE

Busy == pc \notin {"idle", "ok", "done", "failed"}

IOError == "io" \in Faults

Keep == UNCHANGED <<disk, snap, running, tool, kver>>

\* A step that changes the boot directory to b, or fails.
Onto(b, next) ==
    \/ live' = [live EXCEPT !.boot = b] /\ pc' = next /\ UNCHANGED erred
    \/ IOError /\ pc' = "failed" /\ erred' = TRUE /\ UNCHANGED live

\* A step whose failure is ignored.
BestEffort(b, next) ==
    /\ \/ live' = [live EXCEPT !.boot = b]
       \/ IOError /\ UNCHANGED live
    /\ pc' = next
    /\ UNCHANGED erred

-----------------------------------------------------------------------------
(* kernel-install, without the plugin.                                     *)

\* dnf installs and removes kernels other than the one that runs.
KernelInstall ==
    /\ pc = "idle"
    /\ kver' \in Kernels \ {running}
    /\ \/ pc' = "kernel"
       \/ live.boot.files \cap Both(kver') # {} /\ pc' = "rmkernel"
    /\ erred' = FALSE
    /\ UNCHANGED <<live, disk, snap, running, tool>>

\* 20-grub.install copies the kernel and writes the entry, 50-dracut.install makes
\* the initramfs; a dracut that is switched off, or out of space, may leave none.
AddFiles ==
    /\ \/ /\ pc = "kernel"
          /\ Onto([live.boot EXCEPT !.files = @ \cup {<<kver, "vmlinuz">>}], "entry")
       \/ /\ pc = "entry"
          /\ Onto([live.boot EXCEPT !.entry[kver] = "prefixed"], "initramfs")
       \/ /\ pc = "initramfs"
          /\ Onto([live.boot EXCEPT !.files = @ \cup {<<kver, "initramfs">>}], "plugin")
       \/ /\ pc = "initramfs"
          /\ IOError
          /\ pc' = "plugin" /\ erred' = TRUE
          /\ UNCHANGED live
    /\ Keep

RemoveFiles ==
    /\ \/ /\ pc = "rmkernel"
          /\ Onto([live.boot EXCEPT !.files = @ \ {<<kver, "vmlinuz">>}], "rmentry")
       \/ /\ pc = "rmentry"
          /\ Onto([live.boot EXCEPT !.entry[kver] = "none"], "rminitramfs")
       \/ /\ pc = "rminitramfs"
          /\ Onto([live.boot EXCEPT !.files = @ \ {<<kver, "initramfs">>}], "rmplugin")
    /\ Keep

\* A plugin that is not executable is passed over.  The hook file is a script that
\* executes the program, and fails when the program is not there, or when handle
\* cannot tell what / is.
Dispatch ==
    /\ pc \in {"plugin", "rmplugin"}
    /\ \/ live.hook # "executable" /\ pc' = "done" /\ UNCHANGED erred
       \/ live.hook = "executable" /\ ~tool /\ pc' = "failed" /\ UNCHANGED erred
       \/ /\ live.hook = "executable" /\ tool
          /\ pc' = IF pc = "plugin" THEN "link1" ELSE "unlink1"
          /\ UNCHANGED erred
       \/ /\ live.hook = "executable" /\ tool /\ IOError
          /\ pc' = "failed" /\ erred' = TRUE
    /\ UNCHANGED live
    /\ Keep

-----------------------------------------------------------------------------
(* handle_add.                                                             *)

\* Mutation of CreateSymlink: target and link are passed the wrong way round.
LinkSwapped(part, next) ==
    LET f == <<kver, part>>
    IN  \/ /\ f \in live.boot.links \/ f \notin live.boot.files
           /\ pc' = next
           /\ UNCHANGED <<live, erred>>
        \/ /\ f \notin live.boot.links /\ f \in live.boot.files
           /\ Onto([live.boot EXCEPT !.links = @ \cup {<<part, kver>>}], next)

\* A link that is there stays, wherever it points; none is made to a file that is
\* not there.
CreateSymlink(part, next) ==
    LET f == <<kver, part>>
    IN  \/ /\ f \in live.boot.links \/ f \notin live.boot.files
           /\ pc' = next
           /\ UNCHANGED <<live, erred>>
        \/ /\ f \notin live.boot.links /\ f \in live.boot.files
           /\ Onto([live.boot EXCEPT !.links = @ \cup {f}], next)

\* Mutation of CreateSymlinks: the initramfs is forgotten.
LinkKernelOnly == pc = "link1" /\ CreateSymlink("vmlinuz", "read") /\ Keep

CreateSymlinks ==
    /\ \/ pc = "link1" /\ CreateSymlink("vmlinuz", "link2")
       \/ pc = "link2" /\ CreateSymlink("initramfs", "read")
    /\ Keep

\* fix_bls_paths: machine-id and entry are read; an entry that is good, or not
\* there, needs no fix.
ReadEntry ==
    /\ pc = "read"
    /\ \/ /\ pc' = IF live.boot.entry[kver] = "prefixed" THEN "write" ELSE "sync"
          /\ UNCHANGED erred
       \/ IOError /\ pc' = "failed" /\ erred' = TRUE
    /\ UNCHANGED live
    /\ Keep

\* The fixed entry is written beside the old one, as x.conf.new: whatever was there
\* is removed first, and neither GRUB nor check.rs reads a file of that name, so its
\* contents are not part of the state.
WriteEntry ==
    /\ pc = "write"
    /\ Onto(live.boot, "verify")
    /\ Keep

\* Mutation of VerifyPaths: the initramfs is not looked at.
VerifyKernelPath ==
    /\ pc = "verify"
    /\ \/ Resolves(live.boot, kver, "vmlinuz") /\ pc' = "swap"
       \/ ~Resolves(live.boot, kver, "vmlinuz") /\ pc' = "failed"
    /\ UNCHANGED <<live, erred>>
    /\ Keep

\* Both paths must resolve before the swap.
VerifyPaths ==
    /\ pc = "verify"
    /\ \/ /\ \A part \in Parts : Resolves(live.boot, kver, part)
          /\ pc' = "swap"
       \/ /\ \E part \in Parts : ~Resolves(live.boot, kver, part)
          /\ pc' = "failed"
    /\ UNCHANGED <<live, erred>>
    /\ Keep

\* RENAME_EXCHANGE of x.conf and x.conf.new; the old entry is removed, best effort.
SwapEntry ==
    /\ pc = "swap"
    /\ Onto([live.boot EXCEPT !.entry[kver] = "plain"], "sync")
    /\ Keep

\* Mutation of SyncFilesystem: left out.
NoSync == pc = "sync" /\ pc' = "ok" /\ UNCHANGED <<live, erred>> /\ Keep

\* What is left is verify_bootable, whose result is printed and not returned.
SyncFilesystem ==
    /\ pc = "sync"
    /\ \/ disk' = live /\ pc' = "ok" /\ UNCHANGED erred
       \/ IOError /\ pc' = "failed" /\ erred' = TRUE /\ UNCHANGED disk
    /\ UNCHANGED <<live, snap, running, tool, kver>>

HandleAdd ==
    \/ CreateSymlinks \/ ReadEntry \/ WriteEntry \/ VerifyPaths
    \/ SwapEntry \/ SyncFilesystem

-----------------------------------------------------------------------------
\* Mutation of HandleRemove: vmlinuz-k* is removed, whatever comes after k.
RemoveAllLinks ==
    /\ \/ pc = "unlink1" /\ BestEffort([live.boot EXCEPT !.links = {}], "unlink2")
       \/ pc = "unlink2" /\ BestEffort(live.boot, "done")
    /\ Keep

\* handle_remove: both links go, best effort, without a sync.
HandleRemove ==
    /\ \/ /\ pc = "unlink1"
          /\ BestEffort([live.boot EXCEPT !.links = @ \ {<<kver, "vmlinuz">>}], "unlink2")
       \/ /\ pc = "unlink2"
          /\ BestEffort([live.boot EXCEPT !.links = @ \ {<<kver, "initramfs">>}], "done")
    /\ Keep

\* ensure-hooks, from %posttrans or at the end of migrate: a hook that exists is
\* left alone, errors are printed, and the file is executable in a second step.
EnsureHooks ==
    /\ \/ /\ pc = "idle" /\ tool /\ live.hook = "none"
          /\ live' = [live EXCEPT !.hook = "plain"]
          /\ pc' = "chmod"
       \/ /\ pc = "chmod"
          /\ live' = [live EXCEPT !.hook = "executable"]
          /\ pc' = "idle"
       \/ /\ pc = "chmod"
          /\ IOError
          /\ pc' = "idle"
          /\ UNCHANGED live
    /\ UNCHANGED erred
    /\ Keep

Exit ==
    /\ pc \in {"ok", "done", "failed"}
    /\ Idle
    /\ UNCHANGED <<live, disk, snap, running, tool>>

Step ==
    \/ AddFiles \/ RemoveFiles \/ Dispatch \/ HandleAdd \/ HandleRemove
    \/ EnsureHooks \/ Exit

-----------------------------------------------------------------------------
(* The rest of the system.                                                 *)

Kill ==
    /\ "kill" \in Faults
    /\ Busy
    /\ Idle
    /\ UNCHANGED <<live, disk, snap, running, tool>>

Commit ==
    /\ disk # live
    /\ disk' = live
    /\ UNCHANGED <<live, snap, running, tool, kver, pc, erred>>

\* The machine starts from the root v, with an entry that boots if there is one.
Restart(v) ==
    /\ live' = v /\ disk' = v
    /\ running' \in IF Bootable(v.boot) = {} THEN {NoKernel} ELSE Bootable(v.boot)
    /\ Idle
    /\ UNCHANGED tool

PowerLoss == "power" \in Faults /\ Restart(disk) /\ UNCHANGED snap
Reboot    == pc = "idle" /\ Restart(live) /\ UNCHANGED snap

\* atomic-rollback snapshot; one in the middle of an installation holds what one
\* after a kill there holds.
TakeSnapshot ==
    /\ "snapshot" \in Others /\ tool
    /\ pc = "idle"
    /\ snap' = live /\ disk' = live
    /\ UNCHANGED <<live, running, tool, kver, pc, erred>>

\* atomic-rollback rollback and the reboot it asks for, with no installation in between.
\* That the rollback alone is one step is what RollbackExclusive_proofs shows.
RollBack ==
    /\ "rollback" \in Others /\ tool
    /\ pc = "idle"
    /\ Verify(snap.boot) # "Fail"
    /\ Restart(snap)
    /\ snap' = live

\* dnf remove atomic-rollback: the program goes, the hook file is not its file.
Uninstall ==
    /\ "uninstall" \in Others
    /\ pc = "idle" /\ tool
    /\ tool' = FALSE
    /\ UNCHANGED <<live, disk, snap, running, kver, pc, erred>>

Next ==
    \/ KernelInstall \/ Step
    \/ Kill \/ Commit \/ PowerLoss \/ Reboot
    \/ TakeSnapshot \/ RollBack \/ Uninstall

\* After a migration with one kernel, whose last step, the hook, may be missing.
Init ==
    /\ running \in Kernels
    /\ live \in {[boot |-> Installed(running), hook |-> h] : h \in {"none", "executable"}}
    /\ disk = live /\ snap = live
    /\ tool = TRUE
    /\ kver = NoKernel
    /\ pc = "idle"
    /\ erred = FALSE

KernelHookSpec == Init /\ [][Next]_vars

-----------------------------------------------------------------------------
(* Properties.                                                             *)

AddPC == {"kernel", "entry", "initramfs", "plugin", "link1", "link2", "read", "write",
          "verify", "swap", "sync", "ok"}
RemovePC == {"rmkernel", "rmentry", "rminitramfs", "rmplugin", "unlink1", "unlink2"}

\* What the variables of the kernel hook range over.
KernelHookTypeOK ==
    /\ live \in Roots /\ disk \in Roots /\ snap \in Roots
    /\ running \in Kernels \cup {NoKernel} /\ kver \in Kernels \cup {NoKernel}
    /\ tool \in BOOLEAN /\ erred \in BOOLEAN
    /\ pc \in AddPC \cup RemovePC \cup {"chmod", "idle", "done", "failed"}

\* Whatever is installed, removed, interrupted or rolled back, GRUB finds an entry
\* whose kernel and initramfs it can read, now and after a power loss.
SomeKernelBoots ==
    /\ running # NoKernel
    /\ Bootable(live.boot) # {} /\ Bootable(disk.boot) # {}

\* When the plugin reports success, the entry of the new kernel boots, now and
\* after a power loss, whatever an interrupted removal left of its last stay.
AddedKernelBoots ==
    pc = "ok" => BootsEntry(live.boot, kver) /\ BootsEntry(disk.boot, kver)

\* The hook replaces an entry only by one that boots.
SwapMakesBootable ==
    [][pc = "swap" /\ pc' = "sync" => BootsEntry(live'.boot, kver)]_vars

\* What interrupted and half-done installations and removals leave behind, links that
\* point nowhere included, never makes the hook refuse a kernel: it fails only when a
\* tool did, or the program is gone.
RefusesOnlyOnFailure == pc = "failed" => erred \/ ~tool

=============================================================================
