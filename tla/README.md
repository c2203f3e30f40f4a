# A verification project for atomic-rollback

atomic-rollback rolls a Fedora system back by exchanging two btrfs subvolume
names. This directory holds TLA+ models of it, the TLC configurations that check
them, and TLAPS proofs. Source references are to the repository; module paths are
short for `crates/atomic-rollback/src/`.

## 1. The system

| component | state it keeps | operations | hard behaviour |
|---|---|---|---|
| rollback (`rollback.rs`, `swap.rs`) | subvolume names, default subvolume | verify, swap, look up, set-default, undo, sync | a crash between two transactions; an undo that fails; the path checked is not the path swapped |
| snapshots (`snapshot.rs`) | subvolumes, their names and IDs | create, list, delete, rename-legacy | name looked up, ID used; a name taken; a pending rollback |
| retention (`snapshot.rs:54-86`) | automatic snapshots, MAX_SNAPSHOTS | evict the oldest | off by one; what counts as a snapshot after a swap |
| RPM plugin (`plugins/atomic_rollback.c`) | none | snapshot before a transaction, abort it on failure | which exit status lets a transaction go on |
| migrate, setup (`migrate.rs`) | /boot, fstab, grub.cfg, ESP, /var, default subvolume | ten steps with gates | kills, reruns, power loss over two file systems, programs writing to /var |
| boot check (`check.rs`, `grub.rs`) | none | verify a system or a snapshot, gate | what it sees is the mounted system, not the next boot |
| kernel hook (`kernel_hook.rs`) | hook file, symlinks, BLS entries | ensure, add, remove | written, then made executable; errors that only warn; what an interrupted installation leaves to the next one |
| tools, CLI (`tools.rs`, `main.rs`) | the shared mount point | mount, subvolume tools, sync | one mount point for every command; best-effort umount |
| parsers (`parse.rs`, the grammars in `tools.rs`) | none | read options, command lines, BLS entries, fstab, subvolume lists; rewrite BLS entries and mount options | a key that begins another; two readers of one file; separators inside a value |
| `proof.rs` | the repository's own model (Kani) | boots(), steps as functions | how far it is from the code |

The commands are processes without a lock. They meet in the btrfs volume, in
`/etc/fstab` of the running root and in one mount point,
`/mnt/atomic-rollback-toplevel`. A power loss takes the volume back to its last
commit; what commits is a snapshot, a `syncfs`, and the kernel on its own.

What would make each part correct:

* rollback: all or nothing for the running system; only verified snapshots become
  the root; the running root is never lost; "complete" means durable; it ends.
* snapshots, retention: a root always remains; a transaction that was let through
  can be taken back; the oldest automatic ones go, and only down to the limit.
* migrate, setup: every state on the way boots, before and after a power loss; a
  run that was interrupted can be completed; nothing of the user's is deleted.
* the boot check: what it accepts boots.
* the kernel hook: some kernel boots whatever is interrupted; an add that reports
  success made its kernel bootable and durable; leftovers never make it refuse.
* parsers: what is deleted, swapped, checked and rewritten is what the text says.
* `proof.rs`: its theorems hold for the sequences of steps that really happen, and
  its steps are those of the code.

## 2. Modules

| module | models | state |
|---|---|---|
| `Volume` | the volume in memory and on disk, the mount point, processes, crashes, boots | `mem`, `disk`, `up`, `toplevel`, `proc` |
| `Rollback` (extends Volume) | `rollback` | adds program counters `rb...` |
| `AtomicSwap` | what rollback promises, as one step | `names`, `default`, `bootable`, `critical` |
| `Snapshot` (extends Volume) | create, retention, delete, list, rename-legacy | adds `sn...`, `ev...`, `dl...`, `ls...`, `lg...` |
| `Lifecycle` (extends both) | all these commands and RPM transactions together | |
| `Migrate` | `migrate` and `setup` with their gates, tools, reruns | `live`, `running`, `disk`, `esp`, `espDisk`, `mounts`, `command`, `pc` |
| `BootModel` | the state, axioms, predicates and step functions of `proof.rs` | none |
| `SystemModel` (extends BootModel) | those functions as a state machine: commands in any order, stopped anywhere | `s`, `ax`, `step` |
| `BootCheck` | what `check.rs` concludes from boot entries, and what GRUB makes of them | none |
| `KernelHook` (extends BootCheck) | kernel-install with the plugin, ensure-hooks, snapshots and rollbacks around them | `live`, `disk`, `snap`, `running`, `tool`, `kver`, `pc`, `erred` |
| `Parse` | the parsers and rewriters, beside reference definitions | `alphabet`, `text` |
| `MCRollback`, `MCLifecycle`, `MCKernelHook`, `MCParse` | instances for TLC (`Migrate` is small enough to be its own) | |
| `Rollback_proofs`, `RollbackExclusive_proofs`, `Lifecycle_proofs`, `Migrate_proofs`, `KernelHook_proofs`, `SystemModel_proofs`, `Parse_proofs`, `ParseEntries_proofs` | theorems | |

How the state corresponds to the code:

* `mem` maps subvolume names to IDs, with the default subvolume, the next ID, and
  for each subvolume what the code looks at in it: whether its boot files verify
  (`rev`) and the `subvol=` names in its fstab (`mounts`). `disk` is the same after
  the last commit. `up` is what the last boot used: the root, the subvolume GRUB
  resolved its paths from, and what is mounted.
* `proc[p].pc` names the call the process makes next. Each tool (a program run by
  `run_stdout`/`run_ok`, or a system call) is one step that succeeds or, with
  `"io"` in `Faults`, fails. Each `?` is the failing disjunct, with the mount left
  as the code leaves it.
* `toplevel` counts the mounts on the shared mount point.
* In `Migrate` the volume is what `proof.rs` makes of it, split by where it lies:
  inside the root subvolume (a record that a snapshot copies), beside it (`var`,
  the default subvolume), on the ESP. `ModelState` is the state of `proof.rs` that a
  state of the code stands for; `Boots` is `boots()` of `BootModel` there with all axioms
  true, and `StepsAsModelled` relates each step of the code to a step function.
  `GatePasses` is what `verify_bootable("/")` checks, which sees only
  what is mounted. `Plan` is the order of the steps of each command. The
  contents of /var are only told apart as full or empty.
* A rollback there is the exchange, set-default and sync as one step, which `AtomicSwap`
  justifies, and looks at what `verify_snapshot_bootable` looks at and no more. Until the
  reboot it asks for, the system goes on under the snapshot's name: `running` is that name,
  `Here` what is mounted as /, and the steps that edit files edit those. What fails or crashes
  within a rollback is `Rollback`'s. A restart needs a volume that boots: a machine that does
  not come up does nothing more.
* `artifact_verified` of `proof.rs` stands for a check between the writing of a file and its
  exchange. Only step 9 has one, so it holds at `esp` and nowhere else. `StepsAsModelled`
  takes the verification as granted, and so says nothing of README.md:92 (divergences). What
  is left mounted by the error paths of step 1 (`/mnt/old-boot`) and of step 10 (`top`) is in
  `mounts`.
* In `BootModel` a state is the record of `proof.rs` without the fields that no step
  changes or no predicate reads, and an `Option` of a state is a set of at most one.
  `SubvolIds` has the top level besides the two IDs of `proof.rs`, whose initial state
  has the default subvolume set already; `Migrate` needs the state before step 3.
* In `KernelHook` a root subvolume is its boot directory (files, links at `/`, one entry
  per kernel) and the hook file; `pc` is the next file operation of kernel-install or of
  the plugin. `x.conf.new` is not state: it is removed before it is written
  (`kernel_hook.rs:168`), and neither GRUB nor `check.rs` reads a file of that name. 20-grub
  always writes an entry with `/boot/` in its paths there, so the exit for an entry that needs
  no rewriting (`kernel_hook.rs:158`) is not taken. `RollBack` is a rollback with the reboot
  after it.
* In `Parse` a text is a sequence of symbols: separators one by one, words in which
  nothing separates as one symbol. Every text is reached by writing it, so each operator
  meets each text; `FixBlsPaths` is the rewriting. Except in the
  escapes of fstab, a tab is taken for a space.

Definitions that begin with the comment "Mutation of" are not used by any
specification: each is a plausible slip in the definition it names, and shows
that the property listed with it in PROJECT.json notices that slip.

### What is assumed of the outside

* `snapshot` commits the volume; exchange, set-default, delete and rename do not
  (`tools.rs:100-104`, `proof.rs:47-52`). The kernel may commit at any time. The
  vfat ESP is written back independently. No tool that migrate runs is assumed to
  commit the volume, which a dracut or grub2-mkconfig that calls sync would do.
* Subvolume IDs grow and are not reused. The kernel refuses to delete a mounted or
  the default subvolume (README.md:56).
* Whether a second mount of the same subvolume on the same mount point is refused
  (EBUSY) or stacked depends on the versions of mount(8) and the kernel.
  `MountLimit = 1` is the first, more the second; `rollback_faults` checks, with 2,
  what does not depend on it. `Migrate` assumes a refusal.
* A boot starts GRUB from the default subvolume and the kernel from the subvolume
  named in `subvol=`, and mounts what fstab names, none of it `nofail`.
* kernel-install runs only plugins that are executable, in the order of their names:
  20-grub, 50-dracut, 90-atomic-rollback; dnf neither installs nor removes the version
  that is running. dracut may leave no initramfs. A commit takes file contents along
  with the names.

## 3. Runs

`pass` runs (every fault of the named kinds at every step):

| run | question | bounds |
|---|---|---|
| `rollback_faults` | is the running root kept, are names never lost or shared, is every mount backed? | 2 processes, mount limit 2, so that both really run and stack; 4 subvolumes: a root, /var, two snapshots of which one may not boot or may mount a /var that is not there; io, kill, power |
| `rollback_atomic` | is what is swapped in verified, is completion durable, is it an `AtomicSwap`, does it end? | 2 processes, mount limit 1; io |
| `lifecycle` | does a root survive everything; can transactions be taken back; who is evicted? | 1 process, 3 subvolume IDs, 2 automatic names, limit 1; io, kill, power; the automatic names are interchangeable |
| `lifecycle_retention` | is the limit kept, is nothing left mounted? | 1 process, the same volume; power |
| `lifecycle_two` | does the mount point serialise two commands? | 2 processes |
| `migrate` | is the gate sound, does GRUB always reach a kernel, is a complete run on disk and nothing left mounted? | both commands in any order, both start layouts; io, kill, power, snapshots, rollbacks |
| `migrate_resumes` | does a power loss at any step boot while the new ESP is not on disk, does fstab only name a filled /var, is every step the one of `proof.rs` whose turn it is, is an interrupted run completed in the end? | both commands; power |
| `kernel_hook` | does some kernel always boot, is a reported success true and durable, are leftovers harmless? | 2 kernels; io, kill, power; snapshots, rollbacks, removal of the package |
| `parsers` | do the parsers agree with reference definitions and with each other, is a field of fstab read as it is written, does rewriting change paths only? | every text of at most 7 symbols over each of nine alphabets, of which three are of escapes |

Why the bounds are enough: the code compares names for equality and IDs for order,
and every window is between two steps of one command and one step of another, so
two processes, one system subvolume beside the root, and two snapshots give each
comparison both outcomes. Retention with a limit of 1 has the cases below, at and
above the limit with a root and two automatic snapshots. `MaxId` only ends an
instance: a snapshot is not asked for when the IDs are used up. The hook works on one
version at a time and leaves the running one alone, so a kernel that runs and one that
comes and goes are all the cases there are, and a rollback changes which is which. Seven
symbols hold two lines of a BLS entry, two mount options or two tokens, with what stands
before, between and behind them, and an escape with three symbols around it. `Migrate` has
one snapshot, which is not taken anew while the system runs from the subvolume under its name.

`violation` runs each show one sentence of the documentation that the code does
not keep:

| run | sentence | what happens |
|---|---|---|
| `rollback_power_loss` | "never in between" (README.md:5) | commit, then power loss, between swap and set-default |
| `lifecycle_delete_race` | "No operation in the tool deletes root" (README.md:128) | name to ID, rollback, delete by ID |
| `migrate_states_boot` | "Every intermediate state ... has a valid boot chain" (README.md:86) | a rerun deletes the /var that fstab names |

### Divergences without a run

Met while modelling; each follows from the lines named, and none of them is
checked by a run.

* "Each transaction creates a new timestamped snapshot" (README.md:40). When the
  name is taken (two transactions in one second, local time set back),
  `snapshot()` reports that it exists with exit status 0 (`snapshot.rs:141`), and
  the plugin lets the transaction go on.
* "A snapshot of the current system state" (README.md:50). The source is the
  subvolume under the root name (`snapshot.rs:144`); between a rollback and the
  reboot that is the root of the next boot, not the running one.
* "The previous (broken) state is preserved and can be inspected or deleted"
  (README.md:58). It has the name of the snapshot it was swapped with; if that is
  an automatic name, it has the lowest ID of them and, after the reboot, retention
  deletes it first (`snapshot.rs:76-81`).
* "If power is lost at any point, the system boots" (README.md:86). Step 9
  (`migrate.rs:293`) switches the ESP without a `syncfs` of the volume before it;
  the vfat write may reach the disk first. `PowerLossBootsBeforeEsp` is the part
  of the sentence that holds.
* "No RENAME_EXCHANGE anywhere in the tool proceeds without prior artifact verification"
  (README.md:92, :125, a guard in `proof.rs:314`). Steps 5, 6, 7 and 10 exchange fstab,
  initramfs and grub.cfg with nothing in between that looks at the new file
  (`migrate.rs:202`, `:214`, `:241`, `:366`) and run the gate after it; step 9 parses its
  file first, as the sentence says.
* "Rollback preserves boot chain validity" (README.md:119). `verify_snapshot_bootable` leaves
  the ESP and grubenv out (`check.rs:76-111`): a snapshot taken between steps 2 and 8 of a
  migration passes, and after a rollback to it, behind step 9, the volume is not `boots()`
  of `proof.rs`, since its grubenv is not NOCOW.
* Between a rollback and its reboot the names and what runs differ. The gate looks at the
  root that is mounted, not at the one that boots next, so `GateSound`, `ChainToRoot` and
  `CompleteIsMigrated` say nothing of that time (`running = "root"`). A migrate started
  then works on the old root, but step 10 snapshots the subvolume under the root's name
  (`migrate.rs:330`) and fills the old root's /var with what is in the new one.
* "The migration can be interrupted and resumed" (README.md:88). After a kill in
  step 1 with /boot and /boot/efi unmounted (`migrate.rs:93-112`), gate 0 refuses
  to start until they are mounted again, which a restart does. `MigrationResumes` is about
  interruptions that restart the machine.
* "Every exit point ... is durable" (README.md:127). The last `syncfs`
  (`migrate.rs:80`) does not cover the ESP, and the hook is written after it.
* Setup "enables root snapshots and rollback. Works on the stock Fedora partition
  layout" (README.md:46, :129). There /boot is another file system, a snapshot of the
  root has an empty /boot, and `verify_snapshot_bootable` refuses it for want of
  grub.cfg and boot entries (`check.rs:93-107`).
* Removing the tool "does not leave future kernel installs with unbootable BLS entries"
  (CHANGELOG.md:26). The hook outlives the package, but it executes
  `/usr/bin/atomic-rollback` (`kernel_hook.rs:10-14`), which does not: in `KernelHook`,
  after `Uninstall`, an installed kernel keeps the entry that does not boot.
* "Every exit point (... kernel hook) has a valid boot chain AND is durable"
  (README.md:127). `handle_remove` does not sync (`kernel_hook.rs:110-116`), and
  `handle_add` returns its errors before the sync (`kernel_hook.rs:76-89`).
* "Don't return Err; that would abort kernel-install and leave worse state"
  (`kernel_hook.rs:98`) is said of the gate; the four `?` before it return errors.
* Step 10 derives the options of /var by replacing the text `subvol=<root>` wherever it
  stands (`migrate.rs:360`). A `subvolid=` of the root stays in them, and the mount of /var
  fails after fstab was exchanged. `VarOptionsNameVar` compares the options subvol and
  subvolid and no others: of another option that holds the text, that part is replaced as
  well (`subvol=id,idsubvol=id` becomes `subvol=var,idsubvol=var`). It is about a subvolid
  that is a number; one with `subvol=<root>` in it would lose it (nine symbols show that).
* "BLS root= parameter check accepts all kernel device formats" (CHANGELOG.md:92), but
  `check_root_mountable` takes the UUID from the first entry of the directory, in the
  order of `read_dir` (`check.rs:524-535`): whether a system with one `root=PARTUUID=`
  entry among others verifies depends on that order.
* `BlsLine::raw` is "Lossless for all variants" (`tools.rs:570`): a field is trimmed
  before it is taken apart, so its leading and trailing blanks are gone, and so is the
  newline at the end of a rewritten file. `FixRewritesPathsOnly` compares keys and values.
* "initrd may appear multiple times" (`kernel_hook.rs:148`): all of them are rewritten to
  the one path of the initramfs. `FixRewritesPathsOnly` says that too. A line `linux`
  without a value would get the path joined to its key, which the property excludes
  (`WellFormed`). It also excludes a carriage return within a line (`ReturnsEndLines`), as
  `ReadersAgree` does: in `linux \r/boot/...` the value begins with it for
  `bls_field_all` (`parse.rs:264`) and behind it for `parse_bls` (`tools.rs:591`).
  Without that hypothesis TLC finds such a line, and the property is false.
* `fstab_decode` works "Per getmntent(3)" (`tools.rs:451`), but takes three characters
  along after any backslash, also after one that begins no escape, so that an escape that
  begins among them is left as it stands. What is escaped as fstab(5) says is read back
  (`EscapedFieldIsRead`), and so is a field in which no backslash begins an escape
  (`UnescapedFieldStays`); a field with both is outside of the two.
* A hook that was written but not made executable (`kernel_hook.rs:43-51`) is
  never repaired, since a hook that exists is left alone (`kernel_hook.rs:32`).
* "User data is never lost" (README.md:128). What a program writes to /var
  between the snapshot of step 10 (`migrate.rs:330`) and the mount of the new
  /var (`migrate.rs:370`) is in neither, and the mount hides it.
* "No operation in the tool deletes ... /var" (README.md:128). After a rollback to
  a root from before the fstab swap of step 10, /var is inside the root again, and
  a new `migrate` deletes the subvolume `var` as the rest of an earlier attempt
  (`migrate.rs:338`).

Fairness: a process that is not killed takes its next step (`WF` on the steps of
each command): tools return, with an error or without. Starting a command, crashes
and the environment are not fair in `Rollback`, and `Lifecycle` states no liveness. In
`migrate_resumes` the user starts a command again (`WF` on `Start`) and restarts
the machine (`SF` on `Reboot`), interruptions stop eventually, and the volume
boots throughout, which `migrate_states_boot` shows is a real condition.
`CHECK_DEADLOCK` is left on.

## 4. Proofs

Rollback: for any sets of names, processes, start volumes and revisions, and any
`MaxId`, under the named assumptions of `Volume`.

* `Rollback_proofs`, every fault, any mount limit: `RollbackTyping`,
  `RootAlwaysBound`, `RunningRootNeverLost`, and for finitely many processes
  `MountsBacked`. The invariant is `BaseInv`: types; in
  `mem` and `disk` names are injective and the root is bound; and `disk` and `up`
  are permutations of the names of `mem`, which is why neither the root nor the
  running subvolume can be dropped by an exchange or by going back to the disk.
  `RootBound` alone is not inductive: an exchange needs both names bound, a power
  loss needs to know the disk. `MountsBacked` counts: a mount adds a holder and a
  mount, an umount takes one of each, a failed umount and a kill leave a mount behind.
* `RollbackExclusive_proofs`, `MountLimit = 1`: `VerifiedBeforeSwapped` and
  `CompleteIsDurable`. `FullInv` adds `Alone` (one holder of the mount point),
  `Backed` (each holder has its mount) and for each process what it knows at its
  program counter: after the verification that the named snapshot verifies, after
  the swap that the root does, after set-default that the default is the ID it
  holds. Without the mount limit another rollback falsifies that knowledge.
* There as well, with no crashes (`Faults` within `{"io"}`): `RollbackIsAtomic`, that `RollbackSpec` implements `AtomicSwap`. The
  mapping undoes the exchange of the process that is between swap and set-default,
  so the swap is invisible, set-default is the abstract step, an undo is invisible
  again, and an undo that fails is the half-done step on record.

All commands: for any sets of names, processes, commands and revisions, any number of
automatic names and any limit of retention.

* `Lifecycle_proofs`, every fault. `LifecycleTyping` needs besides the types that a process
  in the middle of its deletions has an entry left, or the entry it works on is none.
  `MountPointIsALock`, for finitely many processes and any mount limit, counts those at
  work below the mount point as `MountsBacked` does.
* `RootAlwaysSurvives` assumes that commands run one at a time (`lifecycle_delete_race`
  shows that they must) and that the root of a start volume mounts / in its own fstab.
  `RootInv` says the same of `mem` and `disk` at all times, that the running subvolume has a
  name and is mounted, and for the process what its last look at the volume still tells it:
  the snapshot of a rollback mounts / as well, a deletion is not about the root. Without the
  fstabs a deletion would not find the root name protected after the next boot.
* `WindowsArePrivate` assumes finitely many processes, `MountLimit = 1`, and that nothing is
  deleted (no `delete`, `MaxSnapshots = 0`), since a deletion does not mount and so is not
  held off; kills and power losses may happen. `WindowInv` adds to the count of
  `MountPointIsALock` that no process is at a deletion, and that what a rollback has looked
  up is still the root.
* `RetentionTakesTheOldest` and `TransactionsCanBeTakenBack` assume what
  `RootAlwaysSurvives` does; the first also that there are finitely many names, the second
  that no fstab of a start volume mounts an automatic snapshot. `RetainInv` adds that every
  entry on the list of a retention is still there, with more than `MaxSnapshots` automatic
  snapshots from its ID on (deleting the oldest of the list first keeps that of the rest),
  and that from the creation to the last eviction the disk has every name that memory has,
  without which a power loss could take a name away as well. `KeepInv` adds that the new
  snapshot is the newest subvolume, which is why retention leaves it, that it equals the
  root, and that it is on disk.
* `RetentionLeavesTheLimit` assumes the same, finitely many names, and that tools do not
  fail (a deletion that fails is skipped, and its snapshot is left over). `LimitInv` adds to
  `RetainInv` that what could be deleted and is not on the list any more is within the
  limit: the choice of the list makes it so, by a count over IDs, and each deletion takes
  the entry off the list and off the volume at once.
* `NothingStaysMounted` (one command at a time) and `NothingStaysMountedTogether` (any
  number, `MountLimit = 1`, nothing deleted) assume that tools do not fail and commands are
  not killed, since an umount that fails, and a killed command, leave the mount. `Held`
  says that at most one command holds the mount point, and that there is one mount if it
  does and none otherwise. It is not inductive: the exit of `rollback()` after a swap that
  fails has no umount (`rollback.rs:58`, where `?` returns), so that exit must be out of
  reach. Alone, `RootInv` says that the name rollback verified is still bound; together,
  `TogetherInv` says it of every rollback, because only the holder of the mount unbinds
  names.

The proofs take a step of a command apart once, into what it does to its own record
(`Becomes`), to the volume (`Changes`) and to the mount point (`Mounts`); the invariants
are kept by each of these alone.

Migration: for any commands, faults and programs around them, in any number of runs.

* `Migrate_proofs`, every fault, snapshots and rollbacks: `MigrateTyped`,
  `MigrateGateSound`, `MigrateChainToRoot`, `MigrateComplete`. `MigrateInv` is about what is
  mounted as /, under whichever name that is: `BootMade` and `VarMade` say what the steps
  before each step of the plan have made there and none takes back, and a rollback, which
  exchanges the names, leaves it (`Here' = Here`). `BtrfsReady` says that once the ESP points
  to btrfs, grub.cfg, kernel, links, grubenv and default are in order in it. Nothing is
  assumed of the root that a rollback puts under the name; it counts when the machine has come
  up from it. `GateSound` is not inductive, nor does it follow from the gate alone: the gate
  does not look at grubenv, nor below the mount of /boot.
* That a complete run leaves nothing mounted needs `OldBootMade`: what an interrupted step 1
  leaves at /mnt/old-boot is there only while /boot/efi is not mounted, and then no command
  gets past its first gate.
* `Faults` within `{"power"}` and no rollbacks: `MigratePowerLossBoots`,
  `MigrateVarIsFilled`, `MigrateStepsAsModelled`. `NamedInv` adds that what fstab names is
  mounted, so no run begins step 10 again on a /var in use; `FoundInv` that it is there, on
  both volumes; `FillInv` that it has the data; `KeptInv` that what steps 1 and 4 unmount
  can be mounted again. With kills, a run begins again on the live system:
  `migrate_states_boot` shows what happens then, and TLC refutes each of the three with
  kills let in, and with rollbacks.
* `MigrateStepsAsModelled` goes through the tool calls one by one, each against the step
  function of `proof.rs` it belongs to, and then shows that at each of them the steps before
  it, in the order of `proof.rs`, are in force: their functions would change nothing.

Kernel hook: for any kernels, faults and surroundings.

* `KernelHook_proofs`: `KernelHookTyping`, `SomeKernelAlwaysBoots`,
  `SuccessfulAddBoots`, `LeftoversAreHarmless`, `ExchangeMakesBootable`. `HookInv` adds
  to the types `RunningBoots`, that the running kernel boots from memory and from disk
  and is not the one worked on, and that the snapshot has one that boots; and `Phases`,
  what the steps so far have made at each program counter, where only a failure leaves
  an initramfs out. `SomeKernelBoots` alone is not inductive: the kernel that boots
  might be the one being removed.

`proof.rs`: for any axioms, of which the properties name those they need.

* `SystemModel_proofs`: `EveryStateOfTheModelBoots`, `VarAlwaysConsistent`,
  `CompleteIsRebootSafe`. The Kani proofs of `proof.rs` run one fixed sequence each; here
  setup, migrate, rollbacks and kernel installations follow each other in any number and
  order, and stop anywhere. `ModelInv` adds `Sane`, what every step keeps (the ext4 side
  stays, root and default agree, a /var in fstab is there and mounted like the root, an
  ESP that points to btrfs finds everything), and `Ready(k)`, what the steps before step k
  have made and no step takes back. It says that steps 1, 2, 7 and 8 must come before 9.

Texts: of any length, over any symbols.

* `Parse_proofs`: `OptionIsRead`, `UuidIsRead`, `ListedPathIsRead`, `EscapedIsReadBack`,
  `VarOptionsAreRenamed`.
  A loop of the code is a function from positions that goes on at a later position.
  `GoesOnExists` shows once, by going down from the end of the text (`FromTheEnd`), that
  such a function exists, so each loop has the value its body says. `SearchFindsFirst`
  shows that a search which stops at a hit and goes on behind its item finds the first hit
  of the reference definition; `FindOptionReads` and `FindRootUuidReads` fit the two loops
  to it, for every key. For the escapes, from every position at which the rest of the
  encoded field is the encoding of the rest of the text, decoding gives that rest.
* For the options of /var, replacing and finding are two loops over the same text that stop
  at different places. `ItemByItem` says what relates them: what is replaced has no comma,
  so every item is replaced within itself. `HeadsStay` says that no new `subvol=` or
  `subvolid=` arises at the head of an item, `OptionIsReplaced` and `LongerOptionStays` what
  becomes of the two options, the second under the hypothesis on subvolid. From the last
  item to the first (`OptionsAreRenamed`), the search then finds what it found, or `var`.
* `TextInvHolds` is the invariant they need: a text stays a sequence of known symbols,
  which takes following `FixedEntry` through lines, fields and joining.
* `ParseEntries_proofs`: `ReadersAlwaysAgree`, `RewritingIsExact`, about whole boot entries.
  One reader searches through the text for a line with the key, the other divides the text
  into lines first. `ReadersAgreeOn` relates them at every position where a line begins, from
  the last line to the first: what `bls_field_all` finds from there is the choice, among
  the lines from there, of the values of those with the key (`Chosen`), and a line gives both
  readers the same value (`LineIsRead`), which is where `ReturnsEndLines` is needed.
* `RewritingIsExact` needs what happens when the rewritten lines are joined and read again.
  They are divided again where they were joined, and only an empty line at the end is lost
  (`JoinedLines`), since no line holds a newline or ends in a carriage return: a comment or
  a blank line is written as `str::lines` gave it, any other line is trimmed. Each line
  then reads as it was written (`LineBecomes`): one for the kernel or the initrd as its key
  with the new path, any other field as before, a comment or a blank line as none. So the
  values are those the property names, the kept lines are the same, and the search that
  `NeedsFix` makes finds no path with `/boot/`.

`SystemModel` is proved and has no run of its own; TLC evaluates the operators of
`BootModel` in the runs of `Migrate`. The other way round, only model-checked:

* liveness (`RollbackEnds`, `MigrationResumes`), which this prover does not do;
* the runs that expect a violation, whose properties are false.

## 5. Not modelled

Device resolution and probe mounts (`get_mount_point`); the grammar of the ESP stub; of
the boot check, the groups for the ESP, grub.cfg and the root file system beyond whether
their files are there; `nofail` and swap entries; nested subvolumes; the contents of
generated artifacts; writes of other programs to /var; the two directory writes of an
exchange on vfat; the output of `check`, `list` and the help; plugin test transactions;
the changelog crates, packaging and documents.

## 6. Plan

Done, in this order: `Volume`, `Rollback` and its proofs, `AtomicSwap` and its
refinement, `Snapshot`, `Lifecycle`, `Migrate`, `BootCheck` for boot entries, `KernelHook`
and its proofs, `Parse`, `BootModel` and the comparison of `Migrate` with it,
`SystemModel` and its proofs, the proofs of `Lifecycle`, of `Migrate` and of `Parse`.

Left:

1. The rest of `BootCheck`: the groups of `verify_bootable` over the files they read, the
   mount that `get_mount_point` probes, `nofail`; a reference definition of booting beside
   them.
2. `Artifacts`: what a bad file does once steps 5 to 7 have exchanged it and the gate has
   refused it (that nothing looks at it before is among the divergences).
3. The ESP stub and its round trip; fstab lines as a whole; the version ordering of the
   changelog generator.
4. Proofs about these, as they are written.
