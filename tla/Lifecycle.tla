----------------------------- MODULE Lifecycle -----------------------------
(***************************************************************************)
(* Snapshots, retention, deletions, RPM transactions, rollbacks, reboots   *)
(* and crashes on one system, in any order and, when Procs has more than   *)
(* one member, at the same time.                                           *)
(***************************************************************************)
EXTENDS Rollback, Snapshot

CONSTANT Commands  \* the commands an instance runs

ASSUME LifecycleAssumption ==
    Commands \subseteq {"rollback", "create", "delete", "list", "legacy"}

-----------------------------------------------------------------------------
\* The RPM plugin lets the transaction go on when the snapshot command exits
\* with 0, and aborts it otherwise.  The transaction then changes the running
\* root, for better or worse.
Transaction(p, r) ==
    /\ proc[p].pc \in {"snDone", "snExisted", "snNotBtrfs"}
    /\ proc[p].name \in AutoNames
    /\ mem' = [mem EXCEPT !.image = [@ EXCEPT ![up.root].rev = r]]
    /\ proc' = [proc EXCEPT ![p] = Idle]
    /\ UNCHANGED <<disk, up, toplevel>>

\* main.rs: one process, one command.
CommandStart(p) ==
    \/ "rollback" \in Commands /\ RollbackStart(p)
    \/ "create"   \in Commands /\ CreateStart(p)
    \/ "delete"   \in Commands /\ DeleteStart(p)
    \/ "list"     \in Commands /\ ListStart(p)
    \/ "legacy"   \in Commands /\ LegacyStart(p)

CommandStep(p) ==
    \/ RollbackStep(p)
    \/ SnapshotStep(p)
    \/ \E r \in Revs \ {NoRev} : Transaction(p, r)

LifecycleNext ==
    \/ \E p \in Procs : CommandStart(p) \/ CommandStep(p)
    \/ Environment

LifecycleSpec == Init /\ [][LifecycleNext]_vars

-----------------------------------------------------------------------------
(* Properties.                                                             *)

\* The types of the variables.
LifecycleTypeOK ==
    /\ mem \in Volumes
    /\ disk \in Volumes
    /\ up \in [root : Ids, grub : Ids \cup {NoId}, mounted : SUBSET Ids]
    /\ toplevel \in 0..MountLimit
    /\ proc \in [Procs -> [pc   : RollbackPC \cup SnapshotPC \cup {"idle"},
                           name : Names,
                           id   : Ids \cup {NoId},
                           todo : SUBSET [id : Ids, name : Names]]]

\* After every step of every command, and after every crash, there is a root to
\* boot, and the running one still has a name: deletions and evictions never
\* take the subvolume a swap has just made, or is about to make, the root.
RootSurvives ==
    /\ Bound(mem, Root) /\ Bound(disk, Root)
    /\ Holds(mem, up.root)

\* A transaction that the plugin let through after creating a snapshot can be
\* taken back: what it is about to change is held by another subvolume, on
\* disk, unless a rollback is waiting for its reboot.
TransactionCanBeTakenBack ==
    [][\A p \in Procs :
          /\ At(p, "snDone")
          /\ mem'.image[up.root] # mem.image[up.root]
          /\ mem.names[Root] = up.root
          => \E n \in Entries(disk) :
                /\ n \notin Protected
                /\ disk.names[n] # up.root
                /\ disk.image[disk.names[n]] = mem.image[up.root]]_vars

\* After retention no automatic snapshot that could be deleted is above the
\* limit, and the newest ones are those kept.
Deletable(v) == {e \in AutoEntries(v) : CanDelete(v, e.id)}
RetentionKeepsTheLimit ==
    [][\A p \in Procs :
          proc[p].pc \in {"evList", "evDelete", "evLookup"} /\ proc'[p].pc = "snDone"
             => Cardinality(Deletable(mem')) <= MaxSnapshots]_vars

\* Retention removes automatic snapshots only, and only when at least
\* MaxSnapshots automatic snapshots newer than the one removed remain.
RetentionEvictsOldestAuto ==
    [][\A p \in Procs, n \in Names :
          At(p, "evDelete") /\ Bound(mem, n) /\ mem'.names[n] = NoId
             => /\ n \in AutoNames
                /\ Cardinality({e \in AutoEntries(mem') : e.id > mem.names[n]})
                      >= MaxSnapshots]_vars

\* Nothing is left mounted by a command that ended by itself.
NothingLeftMounted == (\A p \in Procs : At(p, "idle")) => toplevel = 0

\* The mount point is a lock nobody wrote: while mount(8) refuses a second
\* mount, at most one command works below it, and none works through a mount
\* point that another one has unmounted.
MountIsALock ==
    LET holders == {p \in Procs : RollbackHolds(p) \/ SnapshotHolds(p)}
    IN  Cardinality(holders) <= toplevel

\* Two commands never have their swap, or their snapshot, in the way of the
\* other's: a rollback waiting for set-default still finds under the root name
\* what it put there.
WindowIsPrivate ==
    \A p \in Procs :
        /\ InWindow(p) => ~\E q \in Procs \ {p} : InWindow(q) \/ At(q, "snCreate")
        /\ At(p, "rbSetDefault") => proc[p].id = mem.names[Root]

=============================================================================
