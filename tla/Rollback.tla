------------------------------ MODULE Rollback ------------------------------
(***************************************************************************)
(* The rollback command: main.rs resolves its argument to a name, and      *)
(* rollback() verifies the snapshot, exchanges the names of the root and   *)
(* of the snapshot, and makes the new root the default subvolume.  Every   *)
(* tool it runs is a step of its own: the periodic commit, another         *)
(* command, a kill or a power loss may come between any two of them.       *)
(***************************************************************************)
EXTENDS Volume

\* The program counter names what the process does next.  rbWreck is rbAbort
\* after the swap could not be undone.
RollbackPC == {"rbMount", "rbVerify", "rbSwap", "rbLookup", "rbSetDefault",
               "rbUndo", "rbSync", "rbRelease", "rbAbort", "rbWreck",
               "rbDone", "rbFailed", "rbCritical"}

\* Between the swap and set-default.
InWindow(p) == proc[p].pc \in {"rbLookup", "rbSetDefault", "rbUndo"}

\* The process has mounted the top level and not given it back yet.
RollbackHolds(p) ==
    proc[p].pc \in {"rbVerify", "rbSwap", "rbLookup", "rbSetDefault", "rbUndo",
                    "rbSync", "rbRelease", "rbAbort", "rbWreck"}

-----------------------------------------------------------------------------
\* The argument may mean any subvolume of the list, by ID or by name, the
\* system ones included; without one it is the subvolume with the highest ID that
\* fstab does not mount, which is one of them.  Only the name is kept.
ResolveArgument(p, n) ==
    /\ At(p, "idle")
    /\ n \in Entries(mem)
    /\ proc' = [proc EXCEPT ![p] = [Idle EXCEPT !.pc = "rbMount", !.name = n]]
    /\ UNCHANGED <<mem, disk, up, toplevel>>

\* Mutation of MountToplevel: a mount that is refused is taken for one that is
\* there.
MountIfNeeded(p) ==
    /\ At(p, "rbMount")
    /\ Mount(p, "rbVerify", "rbVerify")
    /\ UNCHANGED <<mem, disk, up>>

\* Without a subvol= for / in the running fstab the command stops here.
MountToplevel(p) ==
    /\ At(p, "rbMount")
    /\ IF Root \in Protected
         THEN Mount(p, "rbVerify", "rbFailed")
         ELSE Goto(p, "rbFailed") /\ UNCHANGED toplevel
    /\ UNCHANGED <<mem, disk, up>>

\* verify_snapshot_bootable(): the snapshot's own boot files, a subvol= for /
\* in its fstab, and every subvolume its fstab mounts.
VerifySnapshotBootable(v, id) ==
    /\ v.image[id].rev \in GoodRevs
    /\ Root \in v.image[id].mounts
    /\ \A n \in v.image[id].mounts : Bound(v, n)

\* Mutation of VerifySnapshot: the snapshot only has to exist.
VerifyExists(p) ==
    /\ At(p, "rbVerify")
    /\ Goto(p, IF Bound(mem, proc[p].name) THEN "rbSwap" ELSE "rbAbort")
    /\ UNCHANGED <<mem, disk, up, toplevel>>

VerifySnapshot(p) ==
    LET n == proc[p].name
        verifies == Bound(mem, n) /\ VerifySnapshotBootable(mem, mem.names[n])
    IN  /\ At(p, "rbVerify")
        /\ \/ verifies /\ Goto(p, "rbSwap")
           \/ /\ IOError \/ ~verifies
              /\ Goto(p, "rbAbort")
        /\ UNCHANGED <<mem, disk, up, toplevel>>

CanExchange(n) == Bound(mem, Root) /\ Bound(mem, n)

\* The ? on rename_exchange() returns with the top level still mounted.
SwapNames(p) ==
    LET n == proc[p].name
    IN  /\ At(p, "rbSwap")
        /\ \/ /\ CanExchange(n)
              /\ mem' = Exchange(mem, Root, n)
              /\ Goto(p, "rbLookup")
           \/ /\ IOError \/ ~CanExchange(n)
              /\ Goto(p, "rbFailed")
              /\ UNCHANGED mem
        /\ UNCHANGED <<disk, up, toplevel>>

LookUpNewRoot(p) ==
    /\ At(p, "rbLookup")
    /\ \/ /\ Bound(mem, Root)
          /\ proc' = [proc EXCEPT ![p].pc = "rbSetDefault",
                                  ![p].id = mem.names[Root]]
       \/ /\ IOError \/ ~Bound(mem, Root)
          /\ Goto(p, "rbUndo")
    /\ UNCHANGED <<mem, disk, up, toplevel>>

SetDefaultSubvol(p) ==
    /\ At(p, "rbSetDefault")
    /\ \/ /\ Holds(mem, proc[p].id)
          /\ mem' = SetDefault(mem, proc[p].id)
          /\ Goto(p, "rbSync")
       \/ /\ IOError \/ ~Holds(mem, proc[p].id)
          /\ Goto(p, "rbUndo")
          /\ UNCHANGED mem
    /\ UNCHANGED <<disk, up, toplevel>>

\* Mutations of UndoSwap: none, and one that tries set-default again.
GiveUp(p) ==
    /\ At(p, "rbUndo")
    /\ Goto(p, "rbAbort")
    /\ UNCHANGED <<mem, disk, up, toplevel>>
TryAgain(p) ==
    /\ At(p, "rbUndo")
    /\ Goto(p, "rbLookup")
    /\ UNCHANGED <<mem, disk, up, toplevel>>

\* A failed undo is reported as CRITICAL and the command goes on to fail.
UndoSwap(p) ==
    LET n == proc[p].name
    IN  /\ At(p, "rbUndo")
        /\ \/ /\ CanExchange(n)
              /\ mem' = Exchange(mem, Root, n)
              /\ Goto(p, "rbAbort")
           \/ /\ IOError \/ ~CanExchange(n)
              /\ Goto(p, "rbWreck")
              /\ UNCHANGED mem
        /\ UNCHANGED <<disk, up, toplevel>>

\* Mutation of SyncFilesystem: left to the periodic commit.
NoSync(p) ==
    /\ At(p, "rbSync")
    /\ Goto(p, "rbRelease")
    /\ UNCHANGED <<mem, disk, up, toplevel>>

\* The ? on sync_filesystem() also returns with the top level still mounted.
SyncFilesystem(p) ==
    /\ At(p, "rbSync")
    /\ \/ disk' = mem /\ Goto(p, "rbRelease")
       \/ IOError /\ Goto(p, "rbFailed") /\ UNCHANGED disk
    /\ UNCHANGED <<mem, up, toplevel>>

\* The umount is best effort after a success, and on the error paths its own
\* failure only changes the message of an error already decided on.
UnmountToplevel(p) ==
    /\ \/ At(p, "rbRelease") /\ Unmount(p, "rbDone")
       \/ At(p, "rbAbort")   /\ Unmount(p, "rbFailed")
       \/ At(p, "rbWreck")   /\ Unmount(p, "rbCritical")
    /\ UNCHANGED <<mem, disk, up>>

\* main.rs prints the result and the process ends.
RollbackExit(p) ==
    /\ proc[p].pc \in {"rbDone", "rbFailed", "rbCritical"}
    /\ proc' = [proc EXCEPT ![p] = Idle]
    /\ UNCHANGED <<mem, disk, up, toplevel>>

\* What a rollback does once it has been started.
RollbackStep(p) ==
    \/ MountToplevel(p)
    \/ VerifySnapshot(p)
    \/ SwapNames(p)
    \/ LookUpNewRoot(p)
    \/ SetDefaultSubvol(p)
    \/ UndoSwap(p)
    \/ SyncFilesystem(p)
    \/ UnmountToplevel(p)
    \/ RollbackExit(p)

RollbackStart(p) == \E n \in Names : ResolveArgument(p, n)

RollbackNext ==
    \/ \E p \in Procs : RollbackStart(p) \/ RollbackStep(p)
    \/ Environment

RollbackSpec == Init /\ [][RollbackNext]_vars

\* Every tool a command runs returns, and the process goes on.
FairRollbackSpec ==
    RollbackSpec /\ \A p \in Procs : WF_vars(RollbackStep(p))

-----------------------------------------------------------------------------
(* Properties.                                                             *)

\* The types of the variables.
RollbackTypeOK ==
    /\ mem \in Volumes
    /\ disk \in Volumes
    /\ up \in [root : Ids, grub : Ids \cup {NoId}, mounted : SUBSET Ids]
    /\ toplevel \in 0..MountLimit
    /\ proc \in [Procs -> [pc   : RollbackPC \cup {"idle"},
                           name : Names,
                           id   : Ids \cup {NoId},
                           todo : {{}}]]

\* Whatever interrupts a rollback, and whatever was committed by then, both the
\* running kernel and the next boot find a subvolume under the root name, and
\* no two names share a subvolume: a swap never drops one of the two.
RootBound ==
    \A v \in {mem, disk} : Bound(v, Root) /\ OneNamePerSubvolume(v)

\* The subvolume the system runs from keeps a name on the running volume and on
\* disk: "the previous (broken) state is preserved".
RunningRootKept == Holds(mem, up.root) /\ Holds(disk, up.root)

\* Holders of the mount point are counted: no process works through a mount
\* point that another one has unmounted under it.
MountBacked ==
    Cardinality({p \in Procs : RollbackHolds(p)}) <= toplevel

\* What is swapped in is what was verified, even though the check and the
\* swap name the snapshot by a path: from the swap until set-default has been
\* called, the subvolume under the root name passes the verification.
SwappedInIsVerified ==
    \A p \in Procs :
        proc[p].pc \in {"rbLookup", "rbSetDefault", "rbSync"} =>
            VerifySnapshotBootable(mem, mem.names[Root])

\* "Rollback complete" is only printed when a power loss can no longer undo it:
\* at that step GRUB and the kernel agree on disk, on the subvolume the process
\* made the default.
SuccessIsDurable ==
    [][\A p \in Procs :
          ~At(p, "rbDone") /\ proc'[p].pc = "rbDone" =>
              /\ disk'.names[Root] = proc[p].id
              /\ disk'.default = proc[p].id
              /\ VerifySnapshotBootable(disk', proc[p].id)]_vars

\* A rollback that was started ends, with one of the three results.
RollbackEnds == \A p \in Procs : ~At(p, "idle") ~> At(p, "idle")

-----------------------------------------------------------------------------
\* The rollback the README promises: one step, or none.  Seen from the running
\* kernel, a swap still waiting for set-default has not happened yet.
Pending == CHOOSE p \in Procs : InWindow(p)

VisibleNames ==
    IF \E p \in Procs : InWindow(p)
      THEN Exchange(mem, Root, proc[Pending].name).names
      ELSE mem.names

Atomic == INSTANCE AtomicSwap WITH
    names    <- VisibleNames,
    default  <- mem.default,
    bootable <- {id \in Ids : VerifySnapshotBootable(mem, id)},
    critical <- {p \in Procs : proc[p].pc \in {"rbWreck", "rbCritical"}}

\* Every rollback step is invisible or the one step of the abstract rollback.
AtomicToTheRunningSystem == Atomic!Spec

\* "Either in the old state or the new state, never in between": GRUB and the
\* kernel come from the same subvolume at every boot.
NeverInBetween == up.grub = up.root

=============================================================================
