------------------------------- MODULE Volume -------------------------------
(***************************************************************************)
(* The machine the commands of atomic-rollback run on: one btrfs volume,   *)
(* as the running kernel sees it (mem) and as it would be found after a    *)
(* power loss (disk), what was booted from it (up), the mount point every  *)
(* command shares (toplevel), and the command processes themselves (proc). *)
(*                                                                         *)
(* The system modelled is a migrated one: every subvolume that holds a     *)
(* root file system carries its own /boot, and GRUB resolves its paths     *)
(* from the default subvolume.                                             *)
(***************************************************************************)
EXTENDS Naturals, FiniteSets

CONSTANTS
    Names,         \* names of subvolumes at the top level of the volume
    Root,          \* the subvol= name of / in every fstab ("root" on Fedora)
    MaxId,         \* bound: the highest subvolume ID an instance hands out
    MountLimit,    \* 1: mount(8) refuses a second mount on the mount point;
                   \* more: mounts on the same mount point stack up
    Revs,          \* contents a root file system goes through
    GoodRevs,      \* the revisions whose own boot files verify
    NoRev,         \* the content of a subvolume that holds no root file system
    StartVolumes,  \* the volumes a behaviour may start from
    Procs,         \* command processes that may run at the same time
    Faults         \* which of "io", "kill" and "power" may happen

VARIABLES mem, disk, up, toplevel, proc

vars == <<mem, disk, up, toplevel, proc>>

NoId == 0
Ids  == 1..MaxId

\* What the commands look at inside a subvolume: the revision of the system it
\* holds and the subvol= names in its /etc/fstab.
Images == [rev : Revs, mounts : SUBSET Names]
NoImage == [rev |-> NoRev, mounts |-> {}]

Volumes == [names   : [Names -> Ids \cup {NoId}],
            default : Ids \cup {NoId},
            next    : 1..(MaxId + 1),
            image   : [Ids -> Images]]

Bound(v, n)  == v.names[n] # NoId
Holds(v, id) == \E n \in Names : Bound(v, n) /\ v.names[n] = id
Entries(v)   == {n \in Names : Bound(v, n)}

OneNamePerSubvolume(v) ==
    \A m, n \in Names : Bound(v, m) /\ v.names[m] = v.names[n] => m = n

FreshNext(v) == \A n \in Names : v.names[n] < v.next

\* A volume as the migration leaves it and a boot finds it.
WellFormed(v) ==
    /\ v \in Volumes
    /\ OneNamePerSubvolume(v)
    /\ FreshNext(v)
    /\ Bound(v, Root)
    /\ v.default = v.names[Root]
    /\ \A n \in v.image[v.names[Root]].mounts : Bound(v, n)

ASSUME VolumeAssumption ==
    /\ Root \in Names
    /\ MaxId \in Nat \ {0}
    /\ MountLimit \in Nat \ {0}
    /\ GoodRevs \subseteq Revs
    /\ NoRev \in Revs \ GoodRevs
    /\ Faults \subseteq {"io", "kill", "power"}
    /\ \A v \in StartVolumes : WellFormed(v)

-----------------------------------------------------------------------------
(* What btrfs-progs and the kernel do to a volume.                         *)

\* Mutations of Exchange: a plain rename, and an exchange that stops half way.
RenameOver(v, a, b) == [v EXCEPT !.names = [@ EXCEPT ![a] = v.names[b], ![b] = NoId]]
HalfExchange(v, a, b) == [v EXCEPT !.names = [@ EXCEPT ![a] = v.names[b]]]

\* renameat2(RENAME_EXCHANGE) of two top-level names, the step swap.rs makes.
Exchange(v, a, b) ==
    [v EXCEPT !.names = [@ EXCEPT ![a] = v.names[b], ![b] = v.names[a]]]

\* btrfs subvolume set-default.
SetDefault(v, id) == [v EXCEPT !.default = id]

\* btrfs subvolume snapshot: a new subvolume with the content of another.
CanSnapshot(v, src, dst) == Bound(v, src) /\ ~Bound(v, dst) /\ v.next \in Ids
TakeSnapshot(v, src, dst) ==
    [v EXCEPT !.names = [@ EXCEPT ![dst] = v.next],
              !.next  = v.next + 1,
              !.image = [@ EXCEPT ![v.next] = v.image[v.names[src]]]]

\* btrfs subvolume delete --subvolid: refused for the default subvolume and for
\* a mounted one, whatever its name.
CanDelete(v, id) == Holds(v, id) /\ id # v.default /\ id \notin up.mounted
DeleteSubvol(v, id) ==
    [v EXCEPT !.names = [n \in Names |-> IF v.names[n] = id THEN NoId ELSE v.names[n]],
              !.image = [@ EXCEPT ![id] = NoImage]]

\* rename(2) of a subvolume to a name that is free.
Renamed(v, a, b) == [v EXCEPT !.names = [@ EXCEPT ![a] = NoId, ![b] = v.names[a]]]

\* Running commands: their program counter, the snapshot name they work on,
\* the subvolume ID they looked up and the work they still have to do.
Idle == [pc |-> "idle", name |-> Root, id |-> NoId, todo |-> {}]

At(p, pc)   == proc[p].pc = pc
Goto(p, pc) == proc' = [proc EXCEPT ![p].pc = pc]

\* /etc/fstab of the running system, re-read by every command that needs it.
Protected == mem.image[up.root].mounts

\* A tool the command runs, or a system call it makes, may fail.
IOError == "io" \in Faults

\* Mutation of Mount: what is mounted already is not looked at.
MountAnyway(p, ok, failed) == toplevel' = toplevel + 1 /\ Goto(p, ok)

\* mount -o subvolid=5 on the shared mount point.  Failing, it leaves nothing
\* mounted by this process.
Mount(p, ok, failed) ==
    \/ /\ toplevel < MountLimit
       /\ toplevel' = toplevel + 1
       /\ Goto(p, ok)
    \/ /\ IOError \/ toplevel = MountLimit
       /\ Goto(p, failed)
       /\ UNCHANGED toplevel

\* Mutation of Unmount: everything on the mount point goes.
UnmountAll(p, next) == toplevel' = 0 /\ Goto(p, next)

\* umount of the shared mount point.  When it fails the mount stays behind.
Unmount(p, next) ==
    /\ \/ toplevel > 0 /\ toplevel' = toplevel - 1
       \/ (IOError \/ toplevel = 0) /\ UNCHANGED toplevel
    /\ Goto(p, next)

-----------------------------------------------------------------------------
(* The environment: the periodic btrfs commit, the end of a process, a     *)
(* power loss, a reboot.                                                   *)

\* GRUB follows the default subvolume, the kernel mounts the subvolume named
\* Root, systemd mounts what the fstab it finds there names.
Boot(v) ==
    [root    |-> v.names[Root],
     grub    |-> v.default,
     mounted |-> {v.names[Root]} \cup
                 {id \in Ids : \E n \in v.image[v.names[Root]].mounts : v.names[n] = id}]

\* btrfs writes its running transaction out on its own (every 30 s).
Commit ==
    /\ disk # mem
    /\ disk' = mem
    /\ UNCHANGED <<mem, up, toplevel, proc>>

\* Ctrl-C or a kill: no command handles signals, so nothing is cleaned up.
Kill(p) ==
    /\ "kill" \in Faults
    /\ ~At(p, "idle")
    /\ proc' = [proc EXCEPT ![p] = Idle]
    /\ UNCHANGED <<mem, disk, up, toplevel>>

PowerLoss ==
    /\ "power" \in Faults
    /\ Bound(disk, Root)
    /\ mem' = disk
    /\ up' = Boot(disk)
    /\ toplevel' = 0
    /\ proc' = [p \in Procs |-> Idle]
    /\ UNCHANGED disk

\* An orderly reboot: nothing is running, the volume is synced and unmounted.
Reboot ==
    /\ \A p \in Procs : At(p, "idle")
    /\ Bound(mem, Root)
    /\ disk' = mem
    /\ up' = Boot(mem)
    /\ toplevel' = 0
    /\ UNCHANGED <<mem, proc>>

Environment ==
    \/ Commit
    \/ \E p \in Procs : Kill(p)
    \/ PowerLoss
    \/ Reboot

Init ==
    /\ mem \in StartVolumes
    /\ disk = mem
    /\ up = Boot(mem)
    /\ toplevel = 0
    /\ proc = [p \in Procs |-> Idle]

=============================================================================
