-------------------------- MODULE Lifecycle_proofs --------------------------
(***************************************************************************)
(* Proofs about Lifecycle for every set of names, of processes, of faults  *)
(* and of commands, and for every start.                                   *)
(***************************************************************************)
EXTENDS Lifecycle, Rollback_proofs, WellFoundedInduction

-----------------------------------------------------------------------------
(* Typing.                                                                 *)

EntryType == [id : Ids, name : Names]

CommandType == [pc   : RollbackPC \cup SnapshotPC \cup {"idle"},
                name : Names,
                id   : Ids \cup {NoId},
                todo : SUBSET EntryType]

\* At these steps a process works on the first entry of its list.
ListPC == {"evLookup", "evDelete", "dlLookup", "dlDelete"}

Listed == \A p \in Procs : proc[p].pc \in ListPC => proc[p].todo # {}

TypeInv == LifecycleTypeOK /\ Listed

\* A set of natural numbers that is not empty has a least member.
LEMMA LeastNat ==
    ASSUME NEW T, T \subseteq Nat, T # {}
    PROVE  \E x \in T : \A y \in T : x <= y
  <1> DEFINE Less == {ss \in Nat \X Nat : ss[1] < ss[2]}
  <1>1. IsWellFoundedOn(Less, Nat)
    BY NatLessThanWellFounded DEF OpToRel
  <1>2. PICK x \in T : \A y \in T : ~(<<y, x>> \in Less)
    <2> HIDE DEF Less
    <2> QED
      BY <1>1, WFMin, Zenon
  <1>3. ASSUME NEW y \in T PROVE x <= y
    <2>1. ~(<<y, x>> \in Less)
      BY <1>2
    <2>2. ~(y < x)
      BY <2>1
    <2> QED
      BY <2>2
  <1> QED
    BY <1>3

\* The entry a process works on is one of its list.
LEMMA CurrentListed ==
    ASSUME NEW p \in Procs, proc[p] \in CommandType, proc[p].todo # {}
    PROVE  Current(p) \in proc[p].todo /\ Current(p) \in EntryType
  <1> DEFINE T == {e.id : e \in proc[p].todo}
  <1>1. proc[p].todo \subseteq EntryType
    BY DEF CommandType
  <1>2. T \subseteq Nat /\ T # {}
    BY <1>1, VolumeAssumption DEF EntryType, Ids
  <1>3. PICK x \in T : \A y \in T : x <= y
    BY <1>2, LeastNat
  <1>4. \E e \in proc[p].todo : \A f \in proc[p].todo : e.id <= f.id
    BY <1>3
  <1> QED
    BY <1>1, <1>4 DEF Current

\* A step of the record of p alone, to a record r.
Becomes(p, r) ==
    /\ proc' = [proc EXCEPT ![p] = r]
    /\ r \in CommandType
    /\ r.pc \in ListPC => r.todo # {}

\* A step that moves on to a program counter without a list.
LEMMA GotoBecomes ==
    ASSUME proc \in [Procs -> CommandType], NEW p \in Procs,
           NEW pc \in (RollbackPC \cup SnapshotPC \cup {"idle"}) \ ListPC, Goto(p, pc)
    PROVE  Becomes(p, [proc[p] EXCEPT !.pc = pc])
  BY DEF Goto, Becomes, CommandType

\* The end of a command.
LEMMA IdleBecomes ==
    ASSUME NEW p \in Procs, proc' = [proc EXCEPT ![p] = Idle]
    PROVE  Becomes(p, Idle)
  BY VolumeAssumption DEF Becomes, Idle, CommandType, ListPC

\* The start of a command.
LEMMA StartBecomes ==
    ASSUME NEW p \in Procs, NEW n \in Names,
           NEW pc \in (RollbackPC \cup SnapshotPC) \ ListPC,
           proc' = [proc EXCEPT ![p] = [Idle EXCEPT !.pc = pc, !.name = n]]
    PROVE  Becomes(p, [Idle EXCEPT !.pc = pc, !.name = n])
  BY VolumeAssumption DEF Becomes, Idle, CommandType

\* What every step of a command does to its record keeps the records typed.
LEMMA BecomesTyped ==
    ASSUME proc \in [Procs -> CommandType], Listed,
           NEW p \in Procs, NEW r, Becomes(p, r)
    PROVE  /\ proc' \in [Procs -> CommandType] /\ Listed'
           /\ proc'[p] = r
           /\ \A q \in Procs \ {p} : proc'[q] = proc[q]
  BY DEF Becomes, Listed

\* After an entry of a list.
LEMMA FinishBecomes ==
    ASSUME proc \in [Procs -> CommandType], NEW p \in Procs,
           NEW outcome \in {"dlDone", "dlFailed"}, Finish(p, outcome)
    PROVE  \E r : Becomes(p, r) /\ r.pc \in {outcome, "snDone", "evLookup"}
  <1> DEFINE rest == proc[p].todo \ {Current(p)}
             pc   == IF At(p, "dlLookup") \/ At(p, "dlDelete") THEN outcome
                     ELSE IF rest = {} THEN "snDone" ELSE "evLookup"
             r    == [proc[p] EXCEPT !.todo = rest, !.id = NoId, !.pc = pc]
  <1>1. pc \in {outcome, "snDone", "evLookup"} /\ (pc \in ListPC => rest # {})
    BY DEF ListPC
  <1>2. r \in CommandType /\ r.pc = pc /\ r.todo = rest
    BY <1>1 DEF CommandType, SnapshotPC
  <1>3. proc' = [proc EXCEPT ![p] = r]
    BY DEF Finish
  <1>4. Becomes(p, r) /\ r.pc \in {outcome, "snDone", "evLookup"}
    BY <1>1, <1>2, <1>3 DEF Becomes
  <1> QED
    BY <1>4

\* Every step of a command is a step of its process's record alone.
LEMMA RollbackMoves ==
    ASSUME TypeInv, NEW p \in Procs, RollbackStart(p) \/ RollbackStep(p)
    PROVE  \E r : Becomes(p, r)
  <1>0. proc \in [Procs -> CommandType] /\ mem \in Volumes
    BY DEF TypeInv, LifecycleTypeOK, CommandType, EntryType
  <1>1. CASE RollbackStart(p)
    BY <1>1, StartBecomes DEF RollbackStart, ResolveArgument, RollbackPC, ListPC
  <1>2. CASE RollbackExit(p)
    BY <1>2, IdleBecomes DEF RollbackExit
  <1>3. CASE LookUpNewRoot(p)
    <2>1. CASE Goto(p, "rbUndo")
      BY <1>0, <2>1, GotoBecomes DEF RollbackPC, ListPC
    <2>2. CASE proc' = [proc EXCEPT ![p].pc = "rbSetDefault", ![p].id = mem.names[Root]]
      <3>1. mem.names[Root] \in Ids \cup {NoId}
        BY <1>0, VolumeAssumption DEF Volumes
      <3> DEFINE r == [proc[p] EXCEPT !.pc = "rbSetDefault", !.id = mem.names[Root]]
      <3>2. r \in CommandType /\ r.pc \notin ListPC
        BY <1>0, <3>1 DEF CommandType, RollbackPC, ListPC
      <3>3. proc' = [proc EXCEPT ![p] = r]
        BY <2>2
      <3>4. Becomes(p, r)
        BY <3>2, <3>3 DEF Becomes
      <3> QED
        BY <3>4
    <2> QED
      BY <1>3, <2>1, <2>2 DEF LookUpNewRoot
  <1>4. CASE \/ MountToplevel(p) \/ VerifySnapshot(p) \/ SwapNames(p) \/ SetDefaultSubvol(p)
             \/ UndoSwap(p) \/ SyncFilesystem(p) \/ UnmountToplevel(p)
    <2>1. PICK pc \in RollbackPC : Goto(p, pc)
      BY <1>4 DEF MountToplevel, Mount, VerifySnapshot, SwapNames, SetDefaultSubvol,
         UndoSwap, SyncFilesystem, UnmountToplevel, Unmount, RollbackPC
    <2>2. pc \notin ListPC
      BY DEF RollbackPC, ListPC
    <2> QED
      BY <1>0, <2>1, <2>2, GotoBecomes
  <1> QED
    BY <1>1, <1>2, <1>3, <1>4 DEF RollbackStep

\* So is every step of the other commands.
LEMMA SnapshotMoves ==
    ASSUME TypeInv, NEW p \in Procs,
           \/ CreateStart(p) \/ DeleteStart(p) \/ ListStart(p) \/ LegacyStart(p)
           \/ SnapshotStep(p) \/ \E r \in Revs : Transaction(p, r)
    PROVE  \E r : Becomes(p, r)
  <1>0. /\ proc \in [Procs -> CommandType] /\ mem \in Volumes
        /\ \A n \in Names : mem.names[n] \in Ids \cup {NoId}
    BY DEF TypeInv, LifecycleTypeOK, CommandType, EntryType, Volumes
  <1>1. CASE CreateStart(p)
    BY <1>1, StartBecomes DEF CreateStart, SnapshotCreate, Start, SnapshotPC, ListPC
  <1>2. CASE ListStart(p) \/ LegacyStart(p)
    BY <1>2, StartBecomes, VolumeAssumption, SnapshotAssumption
       DEF ListStart, LegacyStart, Start, SnapshotPC, ListPC
  <1>3. CASE DeleteStart(p)
    <2>1. PICK n \in Names : DeleteArgument(p, n)
      BY <1>3 DEF DeleteStart
    <2> DEFINE e == [id |-> mem.names[n], name |-> n]
               r == [Idle EXCEPT !.pc = "dlLookup", !.name = n, !.todo = {e}]
    <2>2. e \in EntryType
      BY <1>0, <2>1 DEF DeleteArgument, Entries, Bound, EntryType
    <2>3. r \in CommandType /\ r.todo # {}
      BY <2>2 DEF Idle, CommandType, SnapshotPC
    <2>4. proc' = [proc EXCEPT ![p] = r]
      BY <2>1 DEF DeleteArgument
    <2>5. Becomes(p, r)
      BY <2>3, <2>4 DEF Becomes
    <2> QED
      BY <2>5
  <1>4. CASE SnapshotExit(p) \/ \E r \in Revs : Transaction(p, r)
    BY <1>4, IdleBecomes DEF SnapshotExit, Transaction
  <1>5. CASE RetainList(p)
    <2>1. CASE Goto(p, "snDone")
      BY <1>0, <2>1, GotoBecomes DEF SnapshotPC, ListPC
    <2> DEFINE evict == Oldest(AutoEntries(mem))
    <2>2. CASE evict # {} /\ proc' = [proc EXCEPT ![p].pc = "evLookup", ![p].todo = evict]
      <3>1. AutoEntries(mem) \subseteq EntryType
        BY <1>0 DEF AutoEntries, Entries, Bound, EntryType
      <3>2. evict \subseteq EntryType
        BY <3>1 DEF Oldest
      <3> HIDE DEF evict
      <3> DEFINE r == [proc[p] EXCEPT !.pc = "evLookup", !.todo = evict]
      <3>3. r \in CommandType /\ r.todo = evict
        BY <1>0, <3>2 DEF CommandType, SnapshotPC
      <3>4. proc' = [proc EXCEPT ![p] = r]
        BY <2>2
      <3>5. Becomes(p, r)
        BY <2>2, <3>3, <3>4 DEF Becomes
      <3> QED
        BY <3>5
    <2> QED
      BY <1>5, <2>1, <2>2 DEF RetainList
  <1>6. CASE DeleteLookup(p)
    <2>1. proc[p].todo # {}
      BY <1>6 DEF DeleteLookup, TypeInv, Listed, At, ListPC
    <2>2. Current(p).name \in Names
      BY <1>0, <2>1, CurrentListed DEF EntryType
    <2>3. CASE Finish(p, "dlFailed")
      BY <1>0, <2>3, FinishBecomes
    <2> DEFINE pc == IF At(p, "evLookup") THEN "evDelete" ELSE "dlDelete"
               id == mem.names[Current(p).name]
    <2>4. CASE proc' = [proc EXCEPT ![p].id = id, ![p].pc = pc]
      <3>1. id \in Ids \cup {NoId} /\ pc \in SnapshotPC
        BY <1>0, <2>2 DEF SnapshotPC
      <3> HIDE DEF id, pc
      <3> DEFINE r == [proc[p] EXCEPT !.id = id, !.pc = pc]
      <3>2. r \in CommandType /\ r.todo # {}
        BY <1>0, <2>1, <3>1 DEF CommandType
      <3>3. proc' = [proc EXCEPT ![p] = r]
        BY <2>4
      <3>4. Becomes(p, r)
        BY <3>2, <3>3 DEF Becomes
      <3> QED
        BY <3>4
    <2> QED
      BY <1>6, <2>3, <2>4 DEF DeleteLookup
  <1>7. CASE DeleteById(p)
    BY <1>0, <1>7, FinishBecomes DEF DeleteById
  <1>8. CASE \/ SnapshotMount(p) \/ TakeOrKeep(p) \/ SnapshotRelease(p) \/ SnapshotList(p)
             \/ RenameLegacy(p)
    <2>1. PICK pc \in SnapshotPC \ ListPC : Goto(p, pc)
      BY <1>8 DEF SnapshotMount, Mount, TakeOrKeep, SnapshotRelease, SnapshotList,
         RenameLegacy, Unmount, SnapshotPC, ListPC
    <2> QED
      BY <1>0, <2>1, GotoBecomes
  <1>9. CASE SnapshotLookup(p)
    <2>1. \E pc \in {"evList", "snDone", "snExisted", "snFailed"} : Goto(p, pc)
      BY <1>9 DEF SnapshotLookup
    <2> QED
      BY <1>0, <2>1, GotoBecomes DEF SnapshotPC, ListPC
  <1> QED
    BY <1>1, <1>2, <1>3, <1>4, <1>5, <1>6, <1>7, <1>8, <1>9 DEF SnapshotStep

\* What a step of a command does to the volume: nothing, or one operation of one
\* tool, and what it commits is what is in memory after it.
Changes(p) ==
    \/ mem' = mem
    \/ /\ proc[p].pc \in {"rbSwap", "rbUndo"} /\ CanExchange(proc[p].name)
       /\ mem' = Exchange(mem, Root, proc[p].name)
    \/ At(p, "rbSetDefault") /\ mem' = SetDefault(mem, proc[p].id)
    \/ CanSnapshot(mem, Root, proc[p].name) /\ mem' = TakeSnapshot(mem, Root, proc[p].name)
    \/ /\ proc[p].pc \in {"evDelete", "dlDelete"} /\ CanDelete(mem, proc[p].id)
       /\ mem' = DeleteSubvol(mem, proc[p].id)
    \/ /\ At(p, "lgRename")
       /\ \E n \in AutoNames : /\ Bound(mem, Legacy) /\ ~Bound(mem, n)
                               /\ mem' = Renamed(mem, Legacy, n)
    \/ \E r \in Revs : mem' = [mem EXCEPT !.image = [@ EXCEPT ![up.root].rev = r]]

\* Every step of a command changes the volume in one of these ways.
LEMMA CommandChanges ==
    ASSUME NEW p \in Procs, CommandStart(p) \/ CommandStep(p)
    PROVE  up' = up /\ (disk' = disk \/ disk' = mem') /\ Changes(p)
  <1>1. CASE CommandStart(p)
    BY <1>1 DEF CommandStart, RollbackStart, ResolveArgument, CreateStart, SnapshotCreate,
       Start, DeleteStart, DeleteArgument, ListStart, LegacyStart, Changes
  <1>2. CASE RollbackStep(p)
    BY <1>2 DEF RollbackStep, MountToplevel, VerifySnapshot, SwapNames, LookUpNewRoot,
       SetDefaultSubvol, UndoSwap, SyncFilesystem, UnmountToplevel, RollbackExit, At, Changes
  <1>3. CASE SnapshotStep(p)
    BY <1>3 DEF SnapshotStep, SnapshotMount, TakeOrKeep, SnapshotRelease, SnapshotLookup,
       RetainList, DeleteLookup, DeleteById, SnapshotList, RenameLegacy, SnapshotExit, At, Changes
  <1>4. CASE \E r \in Revs \ {NoRev} : Transaction(p, r)
    BY <1>4 DEF Transaction, Changes
  <1> QED
    BY <1>1, <1>2, <1>3, <1>4 DEF CommandStep

\* The operations of the tools make volumes of volumes.
LEMMA ChangesTyped ==
    ASSUME TypeInv, NEW p \in Procs, Changes(p)
    PROVE  mem' \in Volumes
  <1>0. /\ mem \in Volumes /\ proc[p] \in CommandType
        /\ proc[p].name \in Names /\ proc[p].id \in Ids \cup {NoId}
        /\ up.root \in Ids /\ Root \in Names /\ Legacy \in Names
        /\ NoImage \in Images
    BY VolumeAssumption, SnapshotAssumption
       DEF TypeInv, LifecycleTypeOK, CommandType, EntryType, NoImage, Images
  <1>1. CASE mem' = Exchange(mem, Root, proc[p].name)
    BY <1>0, <1>1, ExchangeFacts
  <1>2. CASE mem' = SetDefault(mem, proc[p].id)
    BY <1>0, <1>2, SetDefaultFacts
  <1>3. CASE CanSnapshot(mem, Root, proc[p].name) /\ mem' = TakeSnapshot(mem, Root, proc[p].name)
    <2>1. /\ mem.next \in Ids /\ mem.next + 1 \in 1..(MaxId + 1)
          /\ mem.names[Root] \in Ids
      BY <1>0, <1>3, VolumeAssumption DEF CanSnapshot, Bound, Ids, Volumes
    <2>2. mem.image[mem.names[Root]] \in Images
      BY <1>0, <2>1 DEF Volumes
    <2> QED
      BY <1>0, <1>3, <2>1, <2>2 DEF TakeSnapshot, Volumes
  <1>4. CASE mem' = DeleteSubvol(mem, proc[p].id)
    BY <1>0, <1>4 DEF DeleteSubvol, Volumes
  <1>5. CASE \E n \in AutoNames : mem' = Renamed(mem, Legacy, n)
    BY <1>0, <1>5, SnapshotAssumption DEF Renamed, Volumes
  <1>6. CASE \E r \in Revs : mem' = [mem EXCEPT !.image = [@ EXCEPT ![up.root].rev = r]]
    <2>1. PICK r \in Revs : mem' = [mem EXCEPT !.image = [@ EXCEPT ![up.root].rev = r]]
      BY <1>6
    <2>2. [mem.image[up.root] EXCEPT !.rev = r] \in Images
      BY <1>0 DEF Volumes, Images
    <2>3. [mem.image EXCEPT ![up.root].rev = r] \in [Ids -> Images]
      BY <1>0, <2>2 DEF Volumes
    <2> QED
      BY <1>0, <2>1, <2>3 DEF Volumes
  <1> QED
    BY <1>0, <1>1, <1>2, <1>3, <1>4, <1>5, <1>6 DEF Changes

-----------------------------------------------------------------------------
(* The mount point: what a step of a command does to the count of mounts,  *)
(* and to who works below it.                                              *)

HoldPC == {"rbVerify", "rbSwap", "rbLookup", "rbSetDefault", "rbUndo", "rbSync", "rbRelease",
           "rbAbort", "rbWreck",
           "snCreate", "snReleaseNew", "snReleaseOld", "snReleaseFailed",
           "lsRelease", "lgRename", "lgRelease"}

HoldsMount(p) == proc[p].pc \in HoldPC

\* These are the holders that MountIsALock counts.
LEMMA HoldersAgree ==
    ASSUME NEW p \in Procs
    PROVE  HoldsMount(p) <=> RollbackHolds(p) \/ SnapshotHolds(p)
  BY DEF HoldsMount, HoldPC, RollbackHolds, SnapshotHolds

Mounts(p) ==
    \/ toplevel' = toplevel /\ (HoldsMount(p)' => HoldsMount(p))
    \/ toplevel < MountLimit /\ toplevel' = toplevel + 1
    \/ toplevel > 0 /\ toplevel' = toplevel - 1 /\ HoldsMount(p) /\ ~HoldsMount(p)'

\* A step to another program counter.
LEMMA GotoMounts ==
    ASSUME proc \in [Procs -> CommandType], NEW p \in Procs, NEW pc, Goto(p, pc),
           toplevel' = toplevel, pc \in HoldPC => HoldsMount(p)
    PROVE  Mounts(p)
  BY DEF Goto, Mounts, HoldsMount, CommandType

\* A mount, which fails or makes the process a holder.
LEMMA MountMounts ==
    ASSUME proc \in [Procs -> CommandType], NEW p \in Procs, NEW ok, NEW failed,
           Mount(p, ok, failed), failed \notin HoldPC
    PROVE  Mounts(p)
  BY GotoMounts DEF Mount, Mounts

\* An umount, after which the process is no holder, even if it fails.
LEMMA UnmountMounts ==
    ASSUME proc \in [Procs -> CommandType], NEW p \in Procs, NEW next, Unmount(p, next),
           next \notin HoldPC, HoldsMount(p)
    PROVE  Mounts(p)
  <1>1. ~HoldsMount(p)'
    BY DEF Unmount, Goto, HoldsMount, CommandType
  <1> QED
    BY <1>1 DEF Unmount, Mounts

\* Every step of a command is one of these.
LEMMA CommandMounts ==
    ASSUME TypeInv, NEW p \in Procs, CommandStart(p) \/ CommandStep(p)
    PROVE  Mounts(p)
  <1>0. proc \in [Procs -> CommandType]
    BY DEF TypeInv, LifecycleTypeOK, CommandType, EntryType
  <1>1. CASE CommandStart(p)
    <2>1. /\ toplevel' = toplevel
          /\ proc'[p].pc \in {"rbMount", "snMount", "snNotBtrfs", "dlLookup", "lsMount", "lgMount"}
      BY <1>0, <1>1 DEF CommandStart, RollbackStart, ResolveArgument, CreateStart,
         SnapshotCreate, Start, DeleteStart, DeleteArgument, ListStart, LegacyStart, Idle
    <2> QED
      BY <2>1 DEF Mounts, HoldsMount, HoldPC
  <1>2. CASE RollbackExit(p) \/ SnapshotExit(p) \/ \E r \in Revs : Transaction(p, r)
    <2>1. toplevel' = toplevel /\ proc' = [proc EXCEPT ![p] = Idle]
      BY <1>2 DEF RollbackExit, SnapshotExit, Transaction
    <2>2. proc'[p].pc = "idle"
      BY <1>0, <2>1 DEF Idle
    <2> QED
      BY <2>1, <2>2 DEF Mounts, HoldsMount, HoldPC
  <1>3. CASE MountToplevel(p)
    BY <1>0, <1>3, MountMounts, GotoMounts DEF MountToplevel, HoldPC
  <1>4. CASE \/ VerifySnapshot(p) \/ SwapNames(p) \/ SetDefaultSubvol(p) \/ UndoSwap(p)
             \/ SyncFilesystem(p)
    <2>1. toplevel' = toplevel /\ HoldsMount(p) /\ \E pc \in RollbackPC : Goto(p, pc)
      BY <1>4 DEF VerifySnapshot, SwapNames, SetDefaultSubvol, UndoSwap, SyncFilesystem,
         At, HoldsMount, HoldPC, RollbackPC
    <2> QED
      BY <1>0, <2>1, GotoMounts
  <1>5. CASE LookUpNewRoot(p)
    <2>1. toplevel' = toplevel /\ HoldsMount(p)
      BY <1>5 DEF LookUpNewRoot, At, HoldsMount, HoldPC
    <2> QED
      BY <2>1 DEF Mounts
  <1>6. CASE UnmountToplevel(p)
    BY <1>0, <1>6, UnmountMounts DEF UnmountToplevel, At, HoldsMount, HoldPC
  <1>7. CASE SnapshotMount(p)
    BY <1>0, <1>7, MountMounts DEF SnapshotMount, HoldPC
  <1>8. CASE TakeOrKeep(p)
    <2>1. /\ toplevel' = toplevel /\ HoldsMount(p)
      BY <1>8 DEF TakeOrKeep, At, HoldsMount, HoldPC
    <2> QED
      BY <2>1 DEF Mounts
  <1>9. CASE SnapshotRelease(p)
    BY <1>0, <1>9, UnmountMounts DEF SnapshotRelease, At, HoldsMount, HoldPC
  <1>10. CASE SnapshotLookup(p)
    <2>1. /\ toplevel' = toplevel
          /\ \E pc \in {"evList", "snDone", "snExisted", "snFailed"} : Goto(p, pc)
      BY <1>10 DEF SnapshotLookup
    <2> QED
      BY <1>0, <2>1, GotoMounts DEF HoldPC
  <1>11. CASE RetainList(p) \/ DeleteLookup(p) \/ DeleteById(p)
    <2>1. /\ toplevel' = toplevel
          /\ proc'[p].pc \in {"evLookup", "snDone", "evDelete", "dlDelete", "dlFailed", "dlDone"}
      BY <1>0, <1>11 DEF RetainList, DeleteLookup, DeleteById, Finish, Goto, CommandType
    <2> QED
      BY <2>1 DEF Mounts, HoldsMount, HoldPC
  <1>12. CASE SnapshotList(p)
    BY <1>0, <1>12, MountMounts, UnmountMounts DEF SnapshotList, At, HoldsMount, HoldPC
  <1>13. CASE RenameLegacy(p)
    <2>1. CASE At(p, "lgRename")
      BY <1>0, <1>13, <2>1, GotoMounts DEF RenameLegacy, At, HoldsMount, HoldPC
    <2>2. CASE ~At(p, "lgRename")
      BY <1>0, <1>13, <2>2, MountMounts, UnmountMounts
         DEF RenameLegacy, At, HoldsMount, HoldPC
    <2> QED
      BY <2>1, <2>2
  <1> QED
    BY <1>1, <1>2, <1>3, <1>4, <1>5, <1>6, <1>7, <1>8, <1>9, <1>10, <1>11, <1>12, <1>13
       DEF CommandStep, RollbackStep, SnapshotStep

-----------------------------------------------------------------------------
\* The initial states are typed.
LEMMA TypeInit == Init => TypeInv
  <1> SUFFICES ASSUME Init PROVE TypeInv
    OBVIOUS
  <1>1. mem \in Volumes /\ disk \in Volumes /\ up \in UpType
    BY BootTyped, VolumeAssumption DEF Init, WellFormed
  <1>2. Idle \in CommandType /\ Idle.pc \notin ListPC
    BY VolumeAssumption DEF Idle, CommandType, ListPC
  <1>3. proc \in [Procs -> CommandType] /\ Listed
    BY <1>2 DEF Init, Listed
  <1> QED
    BY <1>1, <1>3, VolumeAssumption
       DEF Init, TypeInv, LifecycleTypeOK, UpType, CommandType, EntryType

\* What a step of the environment does to the processes.
LEMMA EnvironmentMoves ==
    ASSUME TypeInv, Environment \/ UNCHANGED vars
    PROVE  /\ proc' \in [Procs -> CommandType] /\ Listed'
           /\ \A p \in Procs : proc'[p] \in {proc[p], Idle}
  <1>0. proc \in [Procs -> CommandType] /\ Listed
    BY DEF TypeInv, LifecycleTypeOK, CommandType, EntryType
  <1>1. Idle \in CommandType /\ Idle.pc \notin ListPC
    BY VolumeAssumption DEF Idle, CommandType, ListPC
  <1>2. CASE UNCHANGED proc
    BY <1>0, <1>2 DEF Listed
  <1>3. CASE \E p \in Procs : proc' = [proc EXCEPT ![p] = Idle]
    BY <1>0, <1>1, <1>3 DEF Listed
  <1>4. CASE proc' = [p \in Procs |-> Idle]
    BY <1>1, <1>4 DEF Listed
  <1> QED
    BY <1>2, <1>3, <1>4 DEF Environment, Commit, Kill, PowerLoss, Reboot, vars

\* Every step keeps the variables typed.
LEMMA TypeStep ==
    ASSUME TypeInv, [LifecycleNext]_vars
    PROVE  TypeInv'
  <1>0. /\ proc \in [Procs -> CommandType] /\ Listed
        /\ mem \in Volumes /\ disk \in Volumes /\ up \in UpType /\ toplevel \in 0..MountLimit
    BY DEF TypeInv, LifecycleTypeOK, UpType, CommandType, EntryType
  <1>1. SUFFICES /\ proc' \in [Procs -> CommandType] /\ Listed'
                 /\ mem' \in Volumes /\ disk' \in Volumes /\ up' \in UpType
                 /\ toplevel' \in 0..MountLimit
    BY DEF TypeInv, LifecycleTypeOK, UpType, CommandType, EntryType
  <1>2. ASSUME NEW p \in Procs, CommandStart(p) \/ CommandStep(p)
        PROVE  /\ proc' \in [Procs -> CommandType] /\ Listed'
               /\ mem' \in Volumes /\ disk' \in Volumes /\ up' \in UpType
               /\ toplevel' \in 0..MountLimit
    <2>1. \E r : Becomes(p, r)
      BY <1>2, RollbackMoves, SnapshotMoves DEF CommandStart, CommandStep
    <2>2. mem' \in Volumes /\ disk' \in Volumes /\ up' \in UpType
      BY <1>0, <1>2, CommandChanges, ChangesTyped
    <2>3. toplevel' \in 0..MountLimit
      BY <1>0, <1>2, CommandMounts, VolumeAssumption DEF Mounts
    <2> QED
      BY <1>0, <2>1, <2>2, <2>3, BecomesTyped
  <1>3. CASE Environment \/ UNCHANGED vars
    <2>1. mem' \in Volumes /\ disk' \in Volumes /\ toplevel' \in 0..MountLimit
      BY <1>0, <1>3, VolumeAssumption
         DEF Environment, Commit, Kill, PowerLoss, Reboot, vars
    <2>2. up' \in UpType
      BY <1>0, <1>3, BootTyped DEF Environment, Commit, Kill, PowerLoss, Reboot, vars
    <2> QED
      BY <1>3, <2>1, <2>2, EnvironmentMoves
  <1> QED
    BY <1>2, <1>3 DEF LifecycleNext

\* Every variable keeps its type, whatever commands, processes and faults there
\* are.
THEOREM LifecycleTyping == LifecycleSpec => []LifecycleTypeOK
  <1>1. TypeInv => LifecycleTypeOK
    BY DEF TypeInv
  <1>2. TypeInv /\ [LifecycleNext]_vars => TypeInv'
    BY TypeStep
  <1> QED
    BY <1>1, <1>2, TypeInit, PTL DEF LifecycleSpec

-----------------------------------------------------------------------------
(* The mount point is a lock.                                              *)

Working == {p \in Procs : HoldsMount(p)}

\* A count that goes up with one more member at most, and down only with the
\* member that leaves.
LEMMA CountAfter ==
    ASSUME NEW S, IsFiniteSet(S), NEW T, NEW e, NEW m \in Nat, NEW n \in Nat,
           Cardinality(S) <= m,
           \/ T \subseteq S /\ n = m
           \/ T \subseteq S \cup {e} /\ n = m + 1
           \/ e \in S /\ T \subseteq S \ {e} /\ n = m - 1
    PROVE  Cardinality(T) <= n
  <1>0. Cardinality(S) \in Nat
    BY FS_CardinalityType
  <1>1. CASE T \subseteq S /\ n = m
    <2>1. IsFiniteSet(T) /\ Cardinality(T) <= Cardinality(S)
      BY <1>1, FS_Subset
    <2>2. Cardinality(T) \in Nat
      BY <2>1, FS_CardinalityType
    <2> QED
      BY <1>0, <1>1, <2>1, <2>2
  <1>2. CASE T \subseteq S \cup {e} /\ n = m + 1
    <2>1. /\ IsFiniteSet(S \cup {e})
          /\ \/ Cardinality(S \cup {e}) = Cardinality(S)
             \/ Cardinality(S \cup {e}) = Cardinality(S) + 1
      BY FS_AddElement, Zenon
    <2>2. IsFiniteSet(T) /\ Cardinality(T) <= Cardinality(S \cup {e})
      BY <1>2, <2>1, FS_Subset
    <2>3. Cardinality(T) \in Nat
      BY <2>2, FS_CardinalityType
    <2> QED
      BY <1>0, <1>2, <2>1, <2>2, <2>3
  <1>3. CASE e \in S /\ T \subseteq S \ {e} /\ n = m - 1
    <2>1. IsFiniteSet(S \ {e}) /\ Cardinality(S \ {e}) = Cardinality(S) - 1
      BY <1>3, FS_RemoveElement
    <2>2. IsFiniteSet(T) /\ Cardinality(T) <= Cardinality(S \ {e})
      BY <1>3, <2>1, FS_Subset
    <2>3. Cardinality(T) \in Nat
      BY <2>2, FS_CardinalityType
    <2> QED
      BY <1>0, <1>3, <2>1, <2>2, <2>3
  <1> QED
    BY <1>1, <1>2, <1>3

\* Every step keeps the count of those at work below the count of mounts.
LEMMA LockStep ==
    ASSUME IsFiniteSet(Procs), TypeInv, Cardinality(Working) <= toplevel,
           [LifecycleNext]_vars
    PROVE  Cardinality(Working') <= toplevel'
  <1>0. /\ toplevel \in Nat /\ toplevel' \in Nat
        /\ proc \in [Procs -> CommandType] /\ Listed
    BY TypeStep, VolumeAssumption DEF TypeInv, LifecycleTypeOK, CommandType, EntryType
  <1>1. IsFiniteSet(Working)
    BY FS_Subset DEF Working
  <1>2. ASSUME NEW p \in Procs, CommandStart(p) \/ CommandStep(p)
        PROVE  Cardinality(Working') <= toplevel'
    <2>1. \E r : Becomes(p, r)
      BY <1>2, RollbackMoves, SnapshotMoves DEF CommandStart, CommandStep
    <2>2. \A q \in Procs \ {p} : HoldsMount(q)' <=> HoldsMount(q)
      BY <1>0, <2>1, BecomesTyped DEF HoldsMount
    <2>3. /\ Working' \subseteq Working \cup {p}
          /\ (HoldsMount(p)' => HoldsMount(p)) => Working' \subseteq Working
          /\ HoldsMount(p) => p \in Working
          /\ ~HoldsMount(p)' => Working' \subseteq Working \ {p}
      BY <2>2 DEF Working
    <2>4. \/ Working' \subseteq Working /\ toplevel' = toplevel
          \/ Working' \subseteq Working \cup {p} /\ toplevel' = toplevel + 1
          \/ p \in Working /\ Working' \subseteq Working \ {p} /\ toplevel' = toplevel - 1
      BY <1>2, <2>3, CommandMounts DEF Mounts
    <2> QED
      BY <1>0, <1>1, <2>4, CountAfter
  <1>3. CASE PowerLoss \/ Reboot
    <2>1. toplevel' = 0 /\ \A p \in Procs : proc'[p].pc = "idle"
      BY <1>0, <1>3 DEF PowerLoss, Reboot, At, Idle
    <2>2. Working' = {}
      BY <2>1 DEF Working, HoldsMount, HoldPC
    <2> QED
      BY <2>1, <2>2, FS_EmptySet
  <1>4. CASE Commit \/ (\E p \in Procs : Kill(p)) \/ UNCHANGED vars
    <2>1. toplevel' = toplevel /\ \A p \in Procs : proc'[p] \in {proc[p], Idle}
      BY <1>4, EnvironmentMoves DEF Environment, Commit, Kill, vars
    <2>2. Working' \subseteq Working
      BY <2>1 DEF Working, HoldsMount, HoldPC, Idle
    <2> QED
      BY <1>0, <1>1, <2>1, <2>2, CountAfter
  <1> QED
    BY <1>2, <1>3, <1>4 DEF LifecycleNext, Environment

\* However many mounts stack up, and whatever commands run, never do more
\* commands work below the mount point than have mounted it: with the one mount
\* that mount(8) allows, they are at most one.
THEOREM MountPointIsALock ==
    ASSUME IsFiniteSet(Procs)
    PROVE  LifecycleSpec => []MountIsALock
  <1> DEFINE Inv == TypeInv /\ Cardinality(Working) <= toplevel
  <1>1. Init => Inv
    <2> SUFFICES ASSUME Init PROVE Inv
      OBVIOUS
    <2>1. Working = {} /\ toplevel = 0
      BY DEF Init, Idle, Working, HoldsMount, HoldPC
    <2> QED
      BY <2>1, TypeInit, FS_EmptySet
  <1>2. Inv /\ [LifecycleNext]_vars => Inv'
    BY TypeStep, LockStep
  <1>3. Inv => MountIsALock
    <2>1. Working = {p \in Procs : RollbackHolds(p) \/ SnapshotHolds(p)}
      BY HoldersAgree DEF Working
    <2> QED
      BY <2>1 DEF MountIsALock
  <1> HIDE DEF Inv
  <1> QED
    BY <1>1, <1>2, <1>3, PTL DEF LifecycleSpec

-----------------------------------------------------------------------------
(* One command at a time: the root survives.                               *)

\* A volume with a root that its own fstab mounts, and no subvolume named twice.
Sound(v) ==
    /\ Bound(v, Root)
    /\ OneNamePerSubvolume(v)
    /\ FreshNext(v)
    /\ Root \in v.image[v.names[Root]].mounts

\* What the running system rests on.
Running(v) == Holds(v, up.root) /\ Root \in v.image[up.root].mounts

\* The subvolume under the name a rollback works on has a fstab that mounts /.
Swappable(p) ==
    /\ Bound(mem, proc[p].name)
    /\ Root \in mem.image[mem.names[proc[p].name]].mounts

Poised(p) ==
    /\ proc[p].pc \in {"rbSwap", "rbLookup", "rbSetDefault", "rbUndo"} => Swappable(p)
    /\ proc[p].pc \in {"evDelete", "dlDelete"} => proc[p].id # mem.names[Root]

RootInv ==
    /\ TypeInv
    /\ Sound(mem) /\ Sound(disk) /\ Running(mem)
    /\ up.root \in up.mounted
    /\ \A p \in Procs : Poised(p)

\* The facts about the volume and about a process that the proofs below use.
LEMMA RootInvTypes ==
    ASSUME RootInv, NEW p \in Procs
    PROVE  /\ mem \in Volumes /\ disk \in Volumes /\ up \in UpType
           /\ mem.names[Root] \in Ids /\ up.root \in Ids
           /\ proc \in [Procs -> CommandType]
           /\ proc[p].name \in Names /\ proc[p].id \in Ids \cup {NoId}
           /\ Root \in Names /\ Legacy \in Names
  BY VolumeAssumption, SnapshotAssumption
     DEF RootInv, TypeInv, LifecycleTypeOK, UpType, CommandType, EntryType, Sound, Bound,
         Volumes

\* Whatever a command does to the volume, the root and the running subvolume
\* keep their names and their fstab.
LEMMA ChangesKeepRoot ==
    ASSUME RootInv, NEW p \in Procs, Changes(p), up' = up
    PROVE  Sound(mem') /\ Running(mem')
  <1>0. /\ mem \in Volumes /\ mem.names[Root] \in Ids /\ up.root \in Ids
        /\ proc[p].name \in Names /\ Root \in Names /\ Legacy \in Names
        /\ mem.names \in [Names -> Ids \cup {NoId}] /\ mem.image \in [Ids -> Images]
        /\ mem.next \in 1..(MaxId + 1)
    BY RootInvTypes DEF Volumes
  <1>1. Sound(mem) /\ Running(mem) /\ Poised(p) /\ up.root \in up.mounted
    BY DEF RootInv
  <1>2. PICK k \in Names : mem.names[k] = up.root
    BY <1>1 DEF Running, Holds
  <1>3. CASE /\ proc[p].pc \in {"rbSwap", "rbUndo"} /\ CanExchange(proc[p].name)
             /\ mem' = Exchange(mem, Root, proc[p].name)
    <2>1. Swappable(p)
      BY <1>1, <1>3 DEF Poised
    <2>2. /\ mem' = [mem EXCEPT !.names = mem'.names]
          /\ mem'.names = [mem.names EXCEPT ![Root] = mem.names[proc[p].name],
                                            ![proc[p].name] = mem.names[Root]]
          /\ mem'.image = mem.image /\ mem'.next = mem.next
      BY <1>0, <1>3 DEF Exchange, Volumes
    <2>3. \A n \in Names :
             mem'.names[n] = IF n = proc[p].name THEN mem.names[Root]
                             ELSE IF n = Root THEN mem.names[proc[p].name]
                             ELSE mem.names[n]
      BY <1>0, <2>2
    <2>4. mem'.names[Root] = mem.names[proc[p].name]
      BY <1>0, <2>3
    <2>5. Bound(mem', Root) /\ Root \in mem'.image[mem'.names[Root]].mounts
      BY <2>1, <2>2, <2>4 DEF Swappable, Bound
    <2>6. OneNamePerSubvolume(mem')
      BY <1>0, <1>1, <2>3 DEF Sound, OneNamePerSubvolume, Bound
    <2>7. FreshNext(mem')
      BY <1>0, <1>1, <2>2, <2>3 DEF Sound, FreshNext
    <2>8. \E n \in Names : mem'.names[n] = up.root
      BY <1>0, <1>2, <2>3
    <2>9. Running(mem')
      BY <1>0, <1>1, <2>2, <2>8 DEF Running, Holds, Bound, NoId, Ids
    <2> QED
      BY <2>5, <2>6, <2>7, <2>9 DEF Sound
  <1>4. CASE mem' = SetDefault(mem, proc[p].id) \/ mem' = mem
    <2>1. mem'.names = mem.names /\ mem'.image = mem.image /\ mem'.next = mem.next
      BY <1>0, <1>4 DEF SetDefault, Volumes
    <2> QED
      BY <1>1, <2>1 DEF Sound, Running, Bound, Holds, OneNamePerSubvolume, FreshNext
  <1>5. CASE CanSnapshot(mem, Root, proc[p].name) /\ mem' = TakeSnapshot(mem, Root, proc[p].name)
    <2> DEFINE m == proc[p].name
    <2>1. ~Bound(mem, m) /\ mem.next \in Ids /\ m # Root
      BY <1>5 DEF CanSnapshot
    <2>2. /\ mem'.names = [mem.names EXCEPT ![m] = mem.next]
          /\ mem'.next = mem.next + 1
          /\ mem'.image = [mem.image EXCEPT ![mem.next] = mem.image[mem.names[Root]]]
      BY <1>0, <1>5 DEF TakeSnapshot, Volumes
    <2>3. \A n \in Names : /\ mem'.names[n] = IF n = m THEN mem.next ELSE mem.names[n]
                           /\ mem.names[n] < mem.next
      BY <1>0, <1>1, <2>2 DEF Sound, FreshNext
    <2>4. \A id \in Ids : id # mem.next => mem'.image[id] = mem.image[id]
      BY <1>0, <2>2
    <2>5. /\ mem.next \in Nat /\ NoId \in Nat
          /\ \A n \in Names : mem.names[n] \in Nat /\ mem.names[n] # mem.next
      BY <1>0, <2>3, VolumeAssumption DEF Ids, NoId
    <2>6. Bound(mem', Root) /\ Root \in mem'.image[mem'.names[Root]].mounts
      BY <1>0, <1>1, <2>1, <2>3, <2>4, <2>5 DEF Sound, Bound
    <2>7. OneNamePerSubvolume(mem')
      BY <1>1, <2>3, <2>5 DEF Sound, OneNamePerSubvolume, Bound
    <2>8. FreshNext(mem')
      BY <2>2, <2>3, <2>5 DEF FreshNext
    <2>9. k # m /\ mem'.names[k] = up.root
      BY <1>0, <1>2, <2>1, <2>3 DEF Bound, NoId, Ids
    <2>10. up.root # mem.next
      BY <1>2, <2>5
    <2>11. Running(mem')
      BY <1>0, <1>1, <2>4, <2>9, <2>10 DEF Running, Holds, Bound, NoId, Ids
    <2> QED
      BY <2>6, <2>7, <2>8, <2>11 DEF Sound
  <1>6. CASE /\ proc[p].pc \in {"evDelete", "dlDelete"} /\ CanDelete(mem, proc[p].id)
             /\ mem' = DeleteSubvol(mem, proc[p].id)
    <2> DEFINE id == proc[p].id
    <2>1. id # mem.names[Root] /\ id # up.root
      BY <1>1, <1>6 DEF Poised, CanDelete
    <2>2. /\ mem'.names = [n \in Names |-> IF mem.names[n] = id THEN NoId ELSE mem.names[n]]
          /\ mem'.next = mem.next
          /\ mem'.image = [mem.image EXCEPT ![id] = NoImage]
      BY <1>0, <1>6 DEF DeleteSubvol, Volumes
    <2>3. \A n \in Names :
             mem'.names[n] = IF mem.names[n] = id THEN NoId ELSE mem.names[n]
      BY <2>2
    <2>4. /\ mem'.image[mem.names[Root]] = mem.image[mem.names[Root]]
          /\ mem'.image[up.root] = mem.image[up.root]
      BY <1>0, <2>1, <2>2
    <2>5. mem'.names[Root] = mem.names[Root] /\ mem'.names[k] = up.root
      BY <1>0, <1>2, <2>1, <2>3
    <2>6. OneNamePerSubvolume(mem')
      BY <1>1, <2>3 DEF Sound, OneNamePerSubvolume, Bound
    <2>7. FreshNext(mem')
      BY <1>0, <1>1, <2>2, <2>3, VolumeAssumption DEF Sound, FreshNext, NoId
    <2>8. Bound(mem', Root) /\ Root \in mem'.image[mem'.names[Root]].mounts
      BY <1>1, <2>4, <2>5 DEF Sound, Bound
    <2>9. Running(mem')
      BY <1>0, <1>1, <1>2, <2>4, <2>5 DEF Running, Holds, Bound, NoId, Ids
    <2> QED
      BY <2>6, <2>7, <2>8, <2>9 DEF Sound
  <1>7. CASE \E n \in AutoNames : /\ Bound(mem, Legacy) /\ ~Bound(mem, n)
                                  /\ mem' = Renamed(mem, Legacy, n)
    <2>1. PICK m \in AutoNames : /\ Bound(mem, Legacy) /\ ~Bound(mem, m)
                                 /\ mem' = Renamed(mem, Legacy, m)
      BY <1>7
    <2>2. m \in Names /\ m # Root /\ m # Legacy /\ Legacy # Root
      BY SnapshotAssumption
    <2>3. /\ mem'.names = [mem.names EXCEPT ![Legacy] = NoId, ![m] = mem.names[Legacy]]
          /\ mem'.next = mem.next /\ mem'.image = mem.image
      BY <1>0, <2>1 DEF Renamed, Volumes
    <2>4. \A n \in Names : mem'.names[n] = IF n = m THEN mem.names[Legacy]
                                           ELSE IF n = Legacy THEN NoId ELSE mem.names[n]
      BY <1>0, <2>2, <2>3
    <2>5. OneNamePerSubvolume(mem')
      BY <1>0, <1>1, <2>1, <2>4 DEF Sound, OneNamePerSubvolume, Bound
    <2>6. FreshNext(mem')
      BY <1>0, <1>1, <2>3, <2>4, VolumeAssumption DEF Sound, FreshNext, NoId
    <2>7. mem'.names[Root] = mem.names[Root]
      BY <1>0, <2>2, <2>4
    <2>8. \E n \in Names : mem'.names[n] = up.root
      BY <1>0, <1>2, <2>1, <2>2, <2>4 DEF Bound, NoId, Ids
    <2>9. Running(mem')
      BY <1>0, <1>1, <2>3, <2>8 DEF Running, Holds, Bound, NoId, Ids
    <2> QED
      BY <1>1, <2>3, <2>5, <2>6, <2>7, <2>9 DEF Sound, Bound
  <1>8. CASE \E r \in Revs : mem' = [mem EXCEPT !.image = [@ EXCEPT ![up.root].rev = r]]
    <2>1. PICK r \in Revs : mem' = [mem EXCEPT !.image = [@ EXCEPT ![up.root].rev = r]]
      BY <1>8
    <2>2. /\ mem'.names = mem.names /\ mem'.next = mem.next
          /\ mem'.image = [mem.image EXCEPT ![up.root].rev = r]
      BY <1>0, <2>1 DEF Volumes
    <2>3. \A id \in Ids : mem'.image[id].mounts = mem.image[id].mounts
      BY <1>0, <2>2 DEF Images
    <2> QED
      BY <1>0, <1>1, <2>2, <2>3
         DEF Sound, Running, Bound, Holds, OneNamePerSubvolume, FreshNext
  <1> QED
    BY <1>3, <1>4, <1>5, <1>6, <1>7, <1>8 DEF Changes

\* The snapshot a rollback swaps has been verified, and its name survives the
\* swap; what a deletion is about to delete is not the root.
LEMMA CommandPoises ==
    ASSUME RootInv, NEW p \in Procs, CommandStart(p) \/ CommandStep(p)
    PROVE  Poised(p)'
  <1>0. /\ mem \in Volumes /\ mem.names[Root] \in Ids /\ Root \in Names
        /\ proc \in [Procs -> CommandType]
        /\ proc[p].name \in Names /\ proc[p].id \in Ids \cup {NoId}
        /\ mem.names \in [Names -> Ids \cup {NoId}]
        /\ Sound(mem) /\ Running(mem) /\ Poised(p)
    BY RootInvTypes DEF Volumes, RootInv
  <1> DEFINE Careful == {"rbSwap", "rbLookup", "rbSetDefault", "rbUndo", "evDelete", "dlDelete"}
  <1>1. ASSUME proc'[p].pc \notin Careful
        PROVE  Poised(p)'
    BY <1>1 DEF Poised
  <1>2. ASSUME NEW pc, Goto(p, pc)
        PROVE  proc'[p].pc = pc /\ proc'[p].name = proc[p].name
    BY <1>0, <1>2 DEF Goto, CommandType
  <1>3. CASE CommandStart(p)
    <2>1. proc'[p].pc \in {"rbMount", "snMount", "snNotBtrfs", "dlLookup", "lsMount", "lgMount"}
      BY <1>0, <1>3 DEF CommandStart, RollbackStart, ResolveArgument, CreateStart,
         SnapshotCreate, Start, DeleteStart, DeleteArgument, ListStart, LegacyStart, Idle
    <2> QED
      BY <1>1, <2>1
  <1>4. CASE \/ RollbackExit(p) \/ SnapshotExit(p) \/ (\E r \in Revs : Transaction(p, r))
    <2>1. proc' = [proc EXCEPT ![p] = Idle]
      BY <1>4 DEF RollbackExit, SnapshotExit, Transaction
    <2>2. proc'[p].pc = "idle"
      BY <1>0, <2>1 DEF Idle
    <2> QED
      BY <1>1, <2>2
  <1>5. CASE VerifySnapshot(p)
    <2>1. CASE Swappable(p) /\ Goto(p, "rbSwap")
      <3>1. proc'[p].name = proc[p].name /\ proc'[p].pc = "rbSwap" /\ mem' = mem
        BY <1>2, <1>5, <2>1 DEF VerifySnapshot
      <3> QED
        BY <2>1, <3>1 DEF Poised, Swappable, Bound
    <2>2. CASE Goto(p, "rbAbort")
      <3>1. proc'[p].pc = "rbAbort"
        BY <1>2, <2>2
      <3> QED
        BY <1>1, <3>1
    <2> QED
      BY <1>5, <2>1, <2>2 DEF VerifySnapshot, VerifySnapshotBootable, Swappable
  <1>6. CASE SwapNames(p)
    <2>1. CASE /\ CanExchange(proc[p].name) /\ mem' = Exchange(mem, Root, proc[p].name)
               /\ Goto(p, "rbLookup")
      <3>1. proc'[p].name = proc[p].name /\ proc'[p].pc = "rbLookup"
        BY <1>2, <2>1
      <3>2. /\ mem'.image = mem.image
            /\ mem'.names = [mem.names EXCEPT ![Root] = mem.names[proc[p].name],
                                              ![proc[p].name] = mem.names[Root]]
        BY <1>0, <2>1 DEF Exchange, Volumes
      <3>3. mem'.names[proc[p].name] = mem.names[Root]
        BY <1>0, <3>2
      <3>4. Swappable(p)'
        BY <1>0, <3>1, <3>2, <3>3 DEF Swappable, Sound, Bound
      <3> QED
        BY <3>1, <3>4 DEF Poised
    <2>2. CASE Goto(p, "rbFailed")
      <3>1. proc'[p].pc = "rbFailed"
        BY <1>2, <2>2
      <3> QED
        BY <1>1, <3>1
    <2> QED
      BY <1>6, <2>1, <2>2 DEF SwapNames
  <1>7. CASE LookUpNewRoot(p)
    <2>1. /\ proc[p].pc = "rbLookup" /\ mem' = mem
          /\ proc'[p].name = proc[p].name /\ proc'[p].pc \in {"rbSetDefault", "rbUndo"}
      BY <1>0, <1>7 DEF LookUpNewRoot, Goto, At, CommandType
    <2> QED
      BY <1>0, <2>1 DEF Poised, Swappable, Bound
  <1>8. CASE SetDefaultSubvol(p)
    <2>1. CASE Goto(p, "rbSync")
      <3>1. proc'[p].pc = "rbSync"
        BY <1>2, <2>1
      <3> QED
        BY <1>1, <3>1
    <2>2. CASE Goto(p, "rbUndo") /\ mem' = mem
      <3>1. proc'[p].name = proc[p].name /\ proc'[p].pc = "rbUndo"
        BY <1>2, <2>2
      <3>2. proc[p].pc = "rbSetDefault"
        BY <1>8 DEF SetDefaultSubvol, At
      <3> QED
        BY <1>0, <2>2, <3>1, <3>2 DEF Poised, Swappable, Bound
    <2> QED
      BY <1>8, <2>1, <2>2 DEF SetDefaultSubvol
  <1>9. CASE \/ MountToplevel(p) \/ UndoSwap(p) \/ SyncFilesystem(p) \/ UnmountToplevel(p)
             \/ SnapshotMount(p) \/ TakeOrKeep(p) \/ SnapshotRelease(p) \/ SnapshotLookup(p)
             \/ SnapshotList(p) \/ RenameLegacy(p)
    <2>1. \E pc \in (RollbackPC \cup SnapshotPC) \ Careful : Goto(p, pc)
      <3>1. CASE \/ MountToplevel(p) \/ UndoSwap(p) \/ SyncFilesystem(p) \/ UnmountToplevel(p)
        <4>1. \/ Goto(p, "rbVerify") \/ Goto(p, "rbFailed") \/ Goto(p, "rbAbort")
              \/ Goto(p, "rbWreck") \/ Goto(p, "rbRelease") \/ Goto(p, "rbDone")
              \/ Goto(p, "rbCritical")
          BY <3>1 DEF MountToplevel, Mount, UndoSwap, SyncFilesystem, UnmountToplevel, Unmount
        <4> QED
          BY <4>1 DEF RollbackPC
      <3>2. CASE \/ SnapshotMount(p) \/ TakeOrKeep(p) \/ SnapshotRelease(p)
                 \/ SnapshotList(p) \/ RenameLegacy(p)
        <4>1. \/ Goto(p, "snCreate") \/ Goto(p, "snFailed") \/ Goto(p, "snReleaseOld")
              \/ Goto(p, "snReleaseNew") \/ Goto(p, "snReleaseFailed")
              \/ Goto(p, "snLookupNew") \/ Goto(p, "snLookupOld")
              \/ Goto(p, "lsRelease") \/ Goto(p, "lsDone")
              \/ Goto(p, "lgRename") \/ Goto(p, "lgRelease") \/ Goto(p, "lgDone")
          BY <3>2 DEF SnapshotMount, Mount, TakeOrKeep, SnapshotRelease, Unmount,
             SnapshotList, RenameLegacy
        <4> QED
          BY <4>1 DEF SnapshotPC
      <3>3. CASE SnapshotLookup(p)
        <4>1. \E pc \in {"evList", "snDone", "snExisted", "snFailed"} : Goto(p, pc)
          BY <3>3 DEF SnapshotLookup
        <4> QED
          BY <4>1 DEF SnapshotPC
      <3> QED
        BY <1>9, <3>1, <3>2, <3>3
    <2>2. PICK pc \in (RollbackPC \cup SnapshotPC) \ Careful : Goto(p, pc)
      BY <2>1
    <2>3. proc'[p].pc = pc
      BY <1>2, <2>2
    <2> QED
      BY <1>1, <2>2, <2>3
  <1>10. CASE RetainList(p) \/ DeleteById(p)
    <2>1. proc'[p].pc \in {"evLookup", "snDone", "dlDone", "dlFailed"}
      BY <1>0, <1>10 DEF RetainList, DeleteById, Finish, Goto, CommandType
    <2> QED
      BY <1>1, <2>1
  <1>11. CASE DeleteLookup(p)
    <2> DEFINE n == Current(p).name
    <2>0. n \in Names
      <3>1. proc[p].todo # {}
        BY <1>11 DEF DeleteLookup, RootInv, TypeInv, Listed, At, ListPC
      <3> QED
        BY <1>0, <3>1, CurrentListed DEF EntryType
    <2>1. CASE Finish(p, "dlFailed")
      <3>1. proc'[p].pc \in {"evLookup", "snDone", "dlFailed"}
        BY <1>0, <2>1 DEF Finish, CommandType
      <3> QED
        BY <1>1, <3>1
    <2>2. CASE /\ n \notin Protected /\ Bound(mem, n)
               /\ proc' = [proc EXCEPT
                     ![p].id = mem.names[n],
                     ![p].pc = IF At(p, "evLookup") THEN "evDelete" ELSE "dlDelete"]
      <3>1. n # Root
        BY <1>0, <2>2 DEF Running, Protected
      <3>2. mem.names[n] # mem.names[Root]
        BY <1>0, <2>0, <2>2, <3>1 DEF Sound, OneNamePerSubvolume
      <3>3. /\ proc'[p].id = mem.names[n] /\ proc'[p].pc \in {"evDelete", "dlDelete"}
            /\ mem' = mem
        BY <1>0, <1>11, <2>2 DEF DeleteLookup, CommandType
      <3> QED
        BY <3>2, <3>3 DEF Poised
    <2> QED
      BY <1>11, <2>1, <2>2 DEF DeleteLookup
  <1> QED
    BY <1>3, <1>4, <1>5, <1>6, <1>7, <1>8, <1>9, <1>10, <1>11
       DEF CommandStep, RollbackStep, SnapshotStep

\* A boot of a sound volume runs from its root.
LEMMA BootRuns ==
    ASSUME NEW v \in Volumes, Sound(v), up' = Boot(v)
    PROVE  /\ Holds(v, up'.root) /\ Root \in v.image[up'.root].mounts
           /\ up'.root \in up'.mounted
  BY VolumeAssumption DEF Boot, Sound, Holds, Bound

\* Every step of one command at a time keeps the invariant.
LEMMA RootStep ==
    ASSUME \A p, q \in Procs : p = q, RootInv, [LifecycleNext]_vars
    PROVE  RootInv'
  <1>0. TypeInv' /\ mem \in Volumes /\ disk \in Volumes /\ proc \in [Procs -> CommandType]
    BY TypeStep DEF RootInv, TypeInv, LifecycleTypeOK, CommandType, EntryType
  <1>1. ASSUME NEW p \in Procs, CommandStart(p) \/ CommandStep(p)
        PROVE  RootInv'
    <2>1. up' = up /\ (disk' = disk \/ disk' = mem') /\ Changes(p)
      BY <1>1, CommandChanges
    <2>2. Sound(mem') /\ Running(mem')
      BY <2>1, ChangesKeepRoot
    <2>3. Sound(disk')
      BY <2>1, <2>2 DEF RootInv
    <2>4. \A q \in Procs : Poised(q)'
      BY <1>1, CommandPoises
    <2> QED
      BY <1>0, <2>1, <2>2, <2>3, <2>4
         DEF RootInv, Sound, Running, Bound, Holds, OneNamePerSubvolume, FreshNext
  <1>2. CASE PowerLoss \/ Reboot
    <2>1. PICK v \in {mem, disk} : mem' = v /\ disk' = v /\ up' = Boot(v)
      BY <1>2 DEF PowerLoss, Reboot
    <2>2. Sound(v) /\ v \in Volumes
      BY <1>0, <2>1 DEF RootInv
    <2>3. \A p \in Procs : proc'[p].pc = "idle"
      BY <1>0, <1>2 DEF PowerLoss, Reboot, At, Idle
    <2>4. \A p \in Procs : Poised(p)'
      BY <2>3 DEF Poised
    <2>5. Sound(mem)' /\ Sound(disk)'
      BY <2>1, <2>2 DEF Sound, Bound, OneNamePerSubvolume, FreshNext
    <2>6. Running(mem)' /\ (up.root \in up.mounted)'
      BY <2>1, <2>2, BootRuns DEF Running, Holds, Bound
    <2> QED
      BY <1>0, <2>4, <2>5, <2>6 DEF RootInv
  <1>3. CASE Commit \/ (\E p \in Procs : Kill(p)) \/ UNCHANGED vars
    <2>1. mem' = mem /\ up' = up /\ disk' \in {mem, disk}
      BY <1>3 DEF Commit, Kill, vars
    <2>2. \A p \in Procs : proc'[p] \in {proc[p], Idle}
      BY <1>3, EnvironmentMoves DEF RootInv, Environment
    <2>3. \A p \in Procs : Poised(p)'
      BY <2>1, <2>2 DEF RootInv, Poised, Swappable, Bound, Idle
    <2>4. Sound(mem)' /\ Sound(disk)' /\ Running(mem)' /\ (up.root \in up.mounted)'
      BY <2>1 DEF RootInv, Sound, Running, Bound, Holds, OneNamePerSubvolume, FreshNext
    <2> QED
      BY <1>0, <2>3, <2>4 DEF RootInv
  <1> QED
    BY <1>1, <1>2, <1>3 DEF LifecycleNext, Environment

\* The initial states satisfy the invariant.
LEMMA RootInit ==
    ASSUME \A v \in StartVolumes : Root \in v.image[v.names[Root]].mounts
    PROVE  Init => RootInv
  <1> SUFFICES ASSUME Init PROVE RootInv
    OBVIOUS
  <1>1. mem \in Volumes /\ Sound(mem) /\ disk = mem /\ up = Boot(mem)
    BY VolumeAssumption DEF Init, WellFormed, Sound
  <1>2. Running(mem) /\ up.root \in up.mounted
    BY <1>1, VolumeAssumption DEF Boot, Sound, Running, Holds, Bound
  <1>3. \A p \in Procs : Poised(p)
    BY DEF Init, Poised, Idle
  <1> QED
    BY <1>1, <1>2, <1>3, TypeInit DEF RootInv

\* When commands run one at a time, on volumes whose root is mounted by its own
\* fstab, then, whatever they are, wherever they are killed and whenever the
\* power fails, there is a root to boot and the running one has a name.
THEOREM RootAlwaysSurvives ==
    ASSUME \A p, q \in Procs : p = q,
           \A v \in StartVolumes : Root \in v.image[v.names[Root]].mounts
    PROVE  LifecycleSpec => []RootSurvives
  <1>1. Init => RootInv
    BY RootInit
  <1>2. RootInv /\ [LifecycleNext]_vars => RootInv'
    BY RootStep
  <1>3. RootInv => RootSurvives
    BY DEF RootInv, Sound, Running, RootSurvives
  <1> QED
    BY <1>1, <1>2, <1>3, PTL DEF LifecycleSpec

-----------------------------------------------------------------------------
(* Without deletions, one mount is enough to keep commands apart.          *)

DeletePC == {"evList", "evLookup", "evDelete", "dlLookup", "dlDelete"}

NoDeletions ==
    /\ MountLimit = 1
    /\ "delete" \notin Commands
    /\ MaxSnapshots = 0

WindowInv ==
    /\ TypeInv
    /\ Cardinality(Working) <= toplevel
    /\ \A p \in Procs : /\ proc[p].pc \notin DeletePC
                        /\ At(p, "rbSetDefault") => proc[p].id = mem.names[Root]

\* One mount, one command at work.
LEMMA OneWorks ==
    ASSUME IsFiniteSet(Procs), MountLimit = 1, TypeInv, Cardinality(Working) <= toplevel,
           NEW p \in Procs, HoldsMount(p), NEW q \in Procs, HoldsMount(q)
    PROVE  p = q
  <1>1. SUFFICES ASSUME p # q PROVE FALSE
    OBVIOUS
  <1>2. IsFiniteSet(Working) /\ {p, q} \subseteq Working
    BY FS_Subset DEF Working
  <1>3. Cardinality({p, q}) <= Cardinality(Working) /\ Cardinality(Working) \in Nat
    BY <1>2, FS_Subset, FS_CardinalityType
  <1>4. Cardinality({p, q}) = 2
    <2>1. IsFiniteSet({p}) /\ Cardinality({p}) = 1
      BY FS_Singleton
    <2>2. q \notin {p} /\ {p} \cup {q} = {p, q}
      BY <1>1
    <2>3. Cardinality({p} \cup {q}) = Cardinality({p}) + 1
      BY <2>1, <2>2, FS_AddElement, Zenon
    <2> QED
      BY <2>1, <2>2, <2>3
  <1> QED
    BY <1>3, <1>4 DEF TypeInv, LifecycleTypeOK

\* Only a command at work below the mount point, or a deletion, gives the root
\* name to another subvolume.
LEMMA RootNameMoves ==
    ASSUME TypeInv, NEW p \in Procs, Changes(p), proc[p].pc \notin DeletePC,
           ~HoldsMount(p)
    PROVE  mem'.names[Root] = mem.names[Root]
  <1>0. mem \in Volumes /\ Root \in Names /\ Legacy # Root /\ Root \notin AutoNames
    BY VolumeAssumption, SnapshotAssumption DEF TypeInv, LifecycleTypeOK
  <1>1. CASE CanSnapshot(mem, Root, proc[p].name) /\ mem' = TakeSnapshot(mem, Root, proc[p].name)
    <2>1. proc[p].name # Root
      BY <1>1 DEF CanSnapshot
    <2>2. mem'.names = [mem.names EXCEPT ![proc[p].name] = mem.next]
      BY <1>0, <1>1 DEF TakeSnapshot, Volumes
    <2> QED
      BY <1>0, <2>1, <2>2 DEF Volumes
  <1>2. CASE \E n \in AutoNames : mem' = Renamed(mem, Legacy, n)
    <2>1. PICK n \in AutoNames : mem' = Renamed(mem, Legacy, n)
      BY <1>2
    <2>2. mem'.names = [mem.names EXCEPT ![Legacy] = NoId, ![n] = mem.names[Legacy]]
      BY <1>0, <2>1 DEF Renamed, Volumes
    <2> QED
      BY <1>0, <2>1, <2>2 DEF Volumes
  <1>3. CASE \/ mem' = mem \/ mem' = SetDefault(mem, proc[p].id)
             \/ \E r \in Revs : mem' = [mem EXCEPT !.image = [@ EXCEPT ![up.root].rev = r]]
    BY <1>0, <1>3 DEF SetDefault, Volumes
  <1> QED
    BY <1>1, <1>2, <1>3 DEF Changes, HoldsMount, HoldPC, DeletePC

\* What a step of a command leads to when there are no deletions.
LEMMA NoDeletionStarts ==
    ASSUME NoDeletions, TypeInv, NEW p \in Procs, proc[p].pc \notin DeletePC,
           CommandStart(p) \/ CommandStep(p)
    PROVE  /\ proc'[p].pc \notin DeletePC
           /\ At(p, "rbSetDefault")' => mem' = mem /\ proc'[p].id = mem.names[Root]
  <1>0. proc \in [Procs -> CommandType]
    BY DEF TypeInv, LifecycleTypeOK, CommandType, EntryType
  <1>1. ASSUME NEW pc, Goto(p, pc)
        PROVE  proc'[p].pc = pc
    BY <1>0, <1>1 DEF Goto, CommandType
  <1>2. CASE CommandStart(p)
    <2>1. proc'[p].pc \in {"rbMount", "snMount", "snNotBtrfs", "lsMount", "lgMount"}
      BY <1>0, <1>2 DEF NoDeletions, CommandStart, RollbackStart, ResolveArgument,
         CreateStart, SnapshotCreate, Start, ListStart, LegacyStart, Idle
    <2> QED
      BY <2>1 DEF DeletePC, At
  <1>3. CASE \/ RollbackExit(p) \/ SnapshotExit(p) \/ (\E r \in Revs : Transaction(p, r))
    <2>1. proc' = [proc EXCEPT ![p] = Idle]
      BY <1>3 DEF RollbackExit, SnapshotExit, Transaction
    <2>2. proc'[p].pc = "idle"
      BY <1>0, <2>1 DEF Idle
    <2> QED
      BY <2>2 DEF DeletePC, At
  <1>4. CASE LookUpNewRoot(p)
    <2>1. CASE Goto(p, "rbUndo")
      BY <1>1, <2>1 DEF DeletePC, At
    <2>2. CASE proc' = [proc EXCEPT ![p].pc = "rbSetDefault", ![p].id = mem.names[Root]]
      BY <1>0, <1>4, <2>2 DEF LookUpNewRoot, DeletePC, At, CommandType
    <2> QED
      BY <1>4, <2>1, <2>2 DEF LookUpNewRoot
  <1>5. CASE \/ MountToplevel(p) \/ VerifySnapshot(p) \/ SwapNames(p) \/ SetDefaultSubvol(p)
             \/ UndoSwap(p) \/ SyncFilesystem(p) \/ UnmountToplevel(p)
    <2>1. PICK pc \in RollbackPC \ {"rbSetDefault"} : Goto(p, pc)
      BY <1>5 DEF MountToplevel, Mount, VerifySnapshot, SwapNames, SetDefaultSubvol,
         UndoSwap, SyncFilesystem, UnmountToplevel, Unmount, RollbackPC
    <2>2. proc'[p].pc = pc
      BY <1>1, <2>1
    <2> QED
      BY <2>1, <2>2 DEF RollbackPC, DeletePC, At
  <1>6. CASE \/ SnapshotMount(p) \/ TakeOrKeep(p) \/ SnapshotRelease(p) \/ SnapshotList(p)
             \/ RenameLegacy(p)
    <2>1. PICK pc \in SnapshotPC \ DeletePC : Goto(p, pc)
      BY <1>6 DEF SnapshotMount, Mount, TakeOrKeep, SnapshotRelease, SnapshotList,
         RenameLegacy, Unmount, SnapshotPC, DeletePC
    <2>2. proc'[p].pc = pc
      BY <1>1, <2>1
    <2> QED
      BY <2>1, <2>2 DEF SnapshotPC, DeletePC, At
  <1>7. CASE SnapshotLookup(p)
    <2>1. PICK pc \in {"snDone", "snExisted", "snFailed"} : Goto(p, pc)
      BY <1>7 DEF SnapshotLookup, NoDeletions
    <2>2. proc'[p].pc = pc
      BY <1>1, <2>1
    <2> QED
      BY <2>1, <2>2 DEF DeletePC, At
  <1>8. ~RetainList(p) /\ ~DeleteLookup(p) /\ ~DeleteById(p)
    BY DEF RetainList, DeleteLookup, DeleteById, At, DeletePC
  <1> QED
    BY <1>2, <1>3, <1>4, <1>5, <1>6, <1>7, <1>8 DEF CommandStep, RollbackStep, SnapshotStep

\* Every step keeps the invariant.
LEMMA WindowStep ==
    ASSUME IsFiniteSet(Procs), NoDeletions, WindowInv, [LifecycleNext]_vars
    PROVE  WindowInv'
  <1>0. /\ TypeInv /\ TypeInv' /\ Cardinality(Working') <= toplevel'
        /\ proc \in [Procs -> CommandType] /\ Listed
    BY TypeStep, LockStep
       DEF WindowInv, TypeInv, LifecycleTypeOK, CommandType, EntryType
  <1>1. ASSUME NEW p \in Procs, CommandStart(p) \/ CommandStep(p), NEW q \in Procs
        PROVE  /\ proc'[q].pc \notin DeletePC
               /\ At(q, "rbSetDefault")' => proc'[q].id = mem'.names[Root]
    <2>1. CASE q = p
      BY <1>0, <1>1, <2>1, NoDeletionStarts DEF WindowInv
    <2>2. CASE q # p
      <3>1. \E r : Becomes(p, r)
        BY <1>0, <1>1, RollbackMoves, SnapshotMoves DEF CommandStart, CommandStep
      <3>2. proc'[q] = proc[q]
        BY <1>0, <2>2, <3>1, BecomesTyped
      <3>3. ASSUME At(q, "rbSetDefault")
            PROVE  mem'.names[Root] = mem.names[Root]
        <4>1. HoldsMount(q)
          BY <3>3 DEF At, HoldsMount, HoldPC
        <4>2. ~HoldsMount(p)
          BY <2>2, <4>1, OneWorks DEF WindowInv, NoDeletions
        <4> QED
          BY <1>0, <1>1, <4>2, CommandChanges, RootNameMoves DEF WindowInv
      <3> QED
        BY <3>2, <3>3 DEF WindowInv, At
    <2> QED
      BY <2>1, <2>2
  <1>2. ASSUME Environment \/ UNCHANGED vars, NEW q \in Procs
        PROVE  /\ proc'[q].pc \notin DeletePC
               /\ At(q, "rbSetDefault")' => proc'[q].id = mem'.names[Root]
    <2>1. proc'[q] \in {proc[q], Idle}
      BY <1>0, <1>2, EnvironmentMoves
    <2>2. CASE proc'[q] = Idle
      BY <2>2 DEF Idle, DeletePC, At
    <2>3. CASE proc'[q] = proc[q] /\ mem' = mem
      BY <2>3 DEF WindowInv, At
    <2>4. CASE PowerLoss
      BY <2>2, <2>4 DEF PowerLoss
    <2>5. mem' = mem \/ PowerLoss
      BY <1>2 DEF Environment, Commit, Kill, Reboot, vars
    <2> QED
      BY <2>1, <2>2, <2>3, <2>4, <2>5
  <1> QED
    BY <1>0, <1>1, <1>2 DEF WindowInv, LifecycleNext

\* As long as nothing is deleted, and a second mount is refused, no command, and
\* no crash of one, gets between the swap of a rollback and its set-default.
THEOREM WindowsArePrivate ==
    ASSUME IsFiniteSet(Procs), MountLimit = 1, "delete" \notin Commands, MaxSnapshots = 0
    PROVE  LifecycleSpec => []WindowIsPrivate
  <1>1. Init => WindowInv
    <2> SUFFICES ASSUME Init PROVE WindowInv
      OBVIOUS
    <2>1. Working = {} /\ toplevel = 0 /\ \A p \in Procs : proc[p].pc = "idle"
      BY DEF Init, Idle, Working, HoldsMount, HoldPC
    <2> QED
      BY <2>1, TypeInit, FS_EmptySet DEF WindowInv, At, DeletePC
  <1>2. WindowInv /\ [LifecycleNext]_vars => WindowInv'
    BY WindowStep DEF NoDeletions
  <1>3. WindowInv => WindowIsPrivate
    <2>1. SUFFICES ASSUME WindowInv, NEW p \in Procs, InWindow(p),
                          NEW q \in Procs \ {p}, InWindow(q) \/ At(q, "snCreate")
                   PROVE  FALSE
      BY DEF WindowInv, WindowIsPrivate
    <2>2. HoldsMount(p) /\ HoldsMount(q)
      BY <2>1 DEF InWindow, At, HoldsMount, HoldPC
    <2> QED
      BY <2>1, <2>2, OneWorks DEF WindowInv
  <1> QED
    BY <1>1, <1>2, <1>3, PTL DEF LifecycleSpec

-----------------------------------------------------------------------------
(* Tools that work leave nothing mounted.                                  *)

\* One command at work, with the one mount it has made; or none, and no mount.
Held ==
    /\ \A p, q \in Procs : HoldsMount(p) /\ HoldsMount(q) => p = q
    /\ (\E p \in Procs : HoldsMount(p)) => toplevel = 1
    /\ (\A p \in Procs : ~HoldsMount(p)) => toplevel = 0

\* No swap is refused.
SwapsWork == \A p \in Procs : At(p, "rbSwap") => CanExchange(proc[p].name)

\* A step of a command that works below the mount point before it if and only if it has
\* mounted it after it.
Balances(p) ==
    \/ toplevel' = toplevel /\ (HoldsMount(p)' <=> HoldsMount(p))
    \/ /\ toplevel < MountLimit /\ toplevel' = toplevel + 1
       /\ ~HoldsMount(p) /\ HoldsMount(p)'
    \/ /\ toplevel > 0 /\ toplevel' = toplevel - 1
       /\ HoldsMount(p) /\ ~HoldsMount(p)'

\* A step to another program counter.
LEMMA GotoBalances ==
    ASSUME proc \in [Procs -> CommandType], NEW p \in Procs, NEW pc, Goto(p, pc),
           toplevel' = toplevel, pc \in HoldPC <=> HoldsMount(p)
    PROVE  Balances(p)
  BY DEF Goto, Balances, HoldsMount, CommandType

\* A mount.
LEMMA MountBalances ==
    ASSUME proc \in [Procs -> CommandType], NEW p \in Procs, NEW ok, NEW failed,
           Mount(p, ok, failed), ok \in HoldPC, failed \notin HoldPC, ~HoldsMount(p)
    PROVE  Balances(p)
  <1>1. CASE Goto(p, failed) /\ toplevel' = toplevel
    BY <1>1, GotoBalances
  <1>2. CASE Goto(p, ok) /\ toplevel < MountLimit /\ toplevel' = toplevel + 1
    <2>1. HoldsMount(p)'
      BY <1>2 DEF Goto, HoldsMount, CommandType
    <2> QED
      BY <1>2, <2>1 DEF Balances
  <1> QED
    BY <1>1, <1>2 DEF Mount

\* An umount of what is mounted, when umount(8) works.
LEMMA UnmountBalances ==
    ASSUME proc \in [Procs -> CommandType], NEW p \in Procs, NEW next, Unmount(p, next),
           next \notin HoldPC, HoldsMount(p), "io" \notin Faults, toplevel # 0
    PROVE  Balances(p)
  <1>1. ~HoldsMount(p)'
    BY DEF Unmount, Goto, HoldsMount, CommandType
  <1> QED
    BY <1>1 DEF Unmount, Balances, IOError

\* Every step of a command balances, when its tools work and its swap is not refused.
LEMMA CommandBalances ==
    ASSUME TypeInv, "io" \notin Faults, Held, SwapsWork,
           NEW p \in Procs, CommandStart(p) \/ CommandStep(p)
    PROVE  Balances(p)
  <1>0. /\ proc \in [Procs -> CommandType]
        /\ HoldsMount(p) => toplevel # 0
    BY DEF TypeInv, LifecycleTypeOK, CommandType, EntryType, Held
  <1>1. CASE CommandStart(p)
    <2>1. /\ toplevel' = toplevel /\ proc[p].pc = "idle"
          /\ proc'[p].pc \in {"rbMount", "snMount", "snNotBtrfs", "dlLookup", "lsMount", "lgMount"}
      BY <1>0, <1>1 DEF CommandStart, RollbackStart, ResolveArgument, CreateStart,
         SnapshotCreate, Start, DeleteStart, DeleteArgument, ListStart, LegacyStart, Idle, At
    <2> QED
      BY <2>1 DEF Balances, HoldsMount, HoldPC
  <1>2. CASE RollbackExit(p) \/ SnapshotExit(p) \/ \E r \in Revs : Transaction(p, r)
    <2>1. toplevel' = toplevel /\ proc' = [proc EXCEPT ![p] = Idle] /\ ~HoldsMount(p)
      BY <1>2 DEF RollbackExit, SnapshotExit, Transaction, HoldsMount, HoldPC
    <2>2. proc'[p].pc = "idle"
      BY <1>0, <2>1 DEF Idle
    <2> QED
      BY <2>1, <2>2 DEF Balances, HoldsMount, HoldPC
  <1>3. CASE MountToplevel(p)
    <2>1. ~HoldsMount(p)
      BY <1>3 DEF MountToplevel, At, HoldsMount, HoldPC
    <2> QED
      BY <1>0, <1>3, <2>1, MountBalances, GotoBalances DEF MountToplevel, HoldPC
  <1>4. CASE \/ VerifySnapshot(p) \/ SwapNames(p) \/ SetDefaultSubvol(p) \/ UndoSwap(p)
             \/ SyncFilesystem(p) \/ TakeOrKeep(p)
    <2>1. toplevel' = toplevel /\ HoldsMount(p) /\ \E pc \in HoldPC : Goto(p, pc)
      BY <1>4 DEF VerifySnapshot, SwapNames, SetDefaultSubvol, UndoSwap, SyncFilesystem,
         TakeOrKeep, At, HoldsMount, HoldPC, SwapsWork, IOError
    <2> QED
      BY <1>0, <2>1, GotoBalances
  <1>5. CASE LookUpNewRoot(p)
    <2>1. toplevel' = toplevel /\ HoldsMount(p) /\ proc'[p].pc \in {"rbSetDefault", "rbUndo"}
      BY <1>0, <1>5 DEF LookUpNewRoot, Goto, At, HoldsMount, HoldPC, CommandType
    <2> QED
      BY <2>1 DEF Balances, HoldsMount, HoldPC
  <1>6. CASE UnmountToplevel(p)
    BY <1>0, <1>6, UnmountBalances DEF UnmountToplevel, At, HoldsMount, HoldPC
  <1>7. CASE SnapshotMount(p)
    <2>1. ~HoldsMount(p)
      BY <1>7 DEF SnapshotMount, At, HoldsMount, HoldPC
    <2> QED
      BY <1>0, <1>7, <2>1, MountBalances DEF SnapshotMount, HoldPC
  <1>8. CASE SnapshotRelease(p)
    BY <1>0, <1>8, UnmountBalances DEF SnapshotRelease, At, HoldsMount, HoldPC
  <1>9. CASE SnapshotLookup(p)
    <2>1. /\ toplevel' = toplevel /\ ~HoldsMount(p)
          /\ \E pc \in {"evList", "snDone", "snExisted", "snFailed"} : Goto(p, pc)
      BY <1>9 DEF SnapshotLookup, At, HoldsMount, HoldPC
    <2> QED
      BY <1>0, <2>1, GotoBalances DEF HoldPC
  <1>10. CASE RetainList(p) \/ DeleteLookup(p) \/ DeleteById(p)
    <2>1. /\ toplevel' = toplevel
          /\ proc[p].pc \in {"evList", "evLookup", "dlLookup", "evDelete", "dlDelete"}
          /\ proc'[p].pc \in {"evLookup", "snDone", "evDelete", "dlDelete", "dlFailed", "dlDone"}
      BY <1>0, <1>10 DEF RetainList, DeleteLookup, DeleteById, Finish, Goto, At, CommandType
    <2> QED
      BY <2>1 DEF Balances, HoldsMount, HoldPC
  <1>11. CASE SnapshotList(p)
    <2>1. At(p, "lsMount") => ~HoldsMount(p)
      BY DEF At, HoldsMount, HoldPC
    <2> QED
      BY <1>0, <1>11, <2>1, MountBalances, UnmountBalances
         DEF SnapshotList, At, HoldsMount, HoldPC
  <1>12. CASE RenameLegacy(p)
    <2>1. CASE At(p, "lgRename")
      <3>1. toplevel' = toplevel /\ HoldsMount(p) /\ Goto(p, "lgRelease")
        BY <1>12, <2>1 DEF RenameLegacy, At, HoldsMount, HoldPC
      <3> QED
        BY <1>0, <3>1, GotoBalances DEF HoldPC
    <2>2. CASE At(p, "lgMount")
      <3>1. ~HoldsMount(p) /\ Mount(p, "lgRename", "lgDone")
        BY <1>12, <2>2 DEF RenameLegacy, At, HoldsMount, HoldPC
      <3> QED
        BY <1>0, <3>1, MountBalances DEF HoldPC
    <2>3. CASE At(p, "lgRelease")
      <3>1. HoldsMount(p) /\ Unmount(p, "lgDone")
        BY <1>12, <2>3 DEF RenameLegacy, At, HoldsMount, HoldPC
      <3> QED
        BY <1>0, <3>1, UnmountBalances DEF HoldPC
    <2> QED
      BY <1>12, <2>1, <2>2, <2>3 DEF RenameLegacy
  <1> QED
    BY <1>1, <1>2, <1>3, <1>4, <1>5, <1>6, <1>7, <1>8, <1>9, <1>10, <1>11, <1>12
       DEF CommandStep, RollbackStep, SnapshotStep

\* With that, every step of one command, or of commands that share one mount, keeps the
\* count of mounts.
LEMMA HeldStep ==
    ASSUME (\A p, q \in Procs : p = q) \/ MountLimit = 1,
           "io" \notin Faults, "kill" \notin Faults,
           TypeInv, Held, SwapsWork, [LifecycleNext]_vars
    PROVE  Held'
  <1>0. /\ toplevel \in 0..MountLimit /\ MountLimit \in Nat
        /\ proc \in [Procs -> CommandType] /\ Listed
    BY VolumeAssumption DEF TypeInv, LifecycleTypeOK, CommandType, EntryType
  <1>1. ASSUME NEW p \in Procs, CommandStart(p) \/ CommandStep(p)
        PROVE  Held'
    <2>1. \E r : Becomes(p, r)
      BY <1>1, RollbackMoves, SnapshotMoves DEF CommandStart, CommandStep
    <2>2. \A q \in Procs \ {p} : HoldsMount(q)' <=> HoldsMount(q)
      BY <1>0, <2>1, BecomesTyped DEF HoldsMount
    <2>3. Balances(p)
      BY <1>1, CommandBalances
    <2>4. CASE toplevel' = toplevel /\ (HoldsMount(p)' <=> HoldsMount(p))
      BY <2>2, <2>4 DEF Held
    <2>5. CASE /\ toplevel < MountLimit /\ toplevel' = toplevel + 1
               /\ ~HoldsMount(p) /\ HoldsMount(p)'
      <3>1. \A q \in Procs \ {p} : ~HoldsMount(q)
        BY <1>0, <2>5 DEF Held
      <3> QED
        BY <2>2, <2>5, <3>1 DEF Held
    <2>6. CASE /\ toplevel > 0 /\ toplevel' = toplevel - 1
               /\ HoldsMount(p) /\ ~HoldsMount(p)'
      <3>1. \A q \in Procs \ {p} : ~HoldsMount(q)
        BY <2>6 DEF Held
      <3> QED
        BY <2>2, <2>6, <3>1 DEF Held
    <2> QED
      BY <2>3, <2>4, <2>5, <2>6 DEF Balances
  <1>2. CASE PowerLoss \/ Reboot
    <2>1. toplevel' = 0 /\ \A p \in Procs : proc'[p].pc = "idle"
      BY <1>0, <1>2 DEF PowerLoss, Reboot, At, Idle
    <2> QED
      BY <2>1 DEF Held, HoldsMount, HoldPC
  <1>3. CASE Commit \/ UNCHANGED vars
    BY <1>3 DEF Commit, vars, Held, HoldsMount
  <1> QED
    BY <1>1, <1>2, <1>3 DEF LifecycleNext, Environment, Kill

\* At the start nothing is mounted.
LEMMA HeldInit == Init => Held
  BY DEF Init, Held, Idle, HoldsMount, HoldPC

\* What it says when all commands have ended.
LEMMA HeldMeans == Held => NothingLeftMounted
  BY DEF Held, NothingLeftMounted, At, HoldsMount, HoldPC

\* When commands run one at a time and their tools work, a command that ends leaves nothing
\* mounted, also after the swaps it undoes and the snapshots it cannot make.  A verified
\* snapshot can be exchanged: the exit of rollback() that forgets the umount is not taken.
THEOREM NothingStaysMounted ==
    ASSUME \A p, q \in Procs : p = q,
           \A v \in StartVolumes : Root \in v.image[v.names[Root]].mounts,
           "io" \notin Faults, "kill" \notin Faults
    PROVE  LifecycleSpec => []NothingLeftMounted
  <1>1. Init => RootInv /\ Held
    BY RootInit, HeldInit
  <1>2. RootInv => SwapsWork
    BY DEF RootInv, Sound, Poised, Swappable, SwapsWork, CanExchange, At
  <1>3. RootInv /\ Held /\ [LifecycleNext]_vars => (RootInv /\ Held)'
    <2> SUFFICES ASSUME RootInv, Held, [LifecycleNext]_vars PROVE (RootInv /\ Held)'
      OBVIOUS
    <2>1. RootInv'
      BY RootStep
    <2>2. Held'
      BY <1>2, HeldStep DEF RootInv
    <2> QED
      BY <2>1, <2>2
  <1> QED
    BY <1>1, <1>3, HeldMeans, PTL DEF LifecycleSpec

\* The same for commands at once, none of which deletes: the name a rollback has verified
\* is there, and so is the root.
TogetherInv ==
    /\ TypeInv /\ Held
    /\ Bound(mem, Root) /\ Bound(disk, Root)
    /\ \A p \in Procs : /\ proc[p].pc \notin DeletePC
                        /\ At(p, "rbSwap") => Bound(mem, proc[p].name)

\* Without deletions the root name always stands for a subvolume, and a command that does
\* not work below the mount point unbinds no name.
LEMMA NamesStay ==
    ASSUME TypeInv, NEW p \in Procs, Changes(p), proc[p].pc \notin DeletePC,
           Bound(mem, Root)
    PROVE  /\ Bound(mem', Root)
           /\ ~HoldsMount(p) => \A n \in Names : Bound(mem, n) => Bound(mem', n)
  <1>0. /\ mem \in Volumes /\ mem.names \in [Names -> Ids \cup {NoId}]
        /\ proc[p].name \in Names
        /\ Root \in Names /\ Legacy \in Names /\ Legacy # Root
        /\ Root \notin AutoNames /\ Legacy \notin AutoNames /\ AutoNames \subseteq Names
    BY VolumeAssumption, SnapshotAssumption
       DEF TypeInv, LifecycleTypeOK, CommandType, EntryType, Volumes
  <1>1. CASE CanExchange(proc[p].name) /\ mem' = Exchange(mem, Root, proc[p].name)
             /\ proc[p].pc \in {"rbSwap", "rbUndo"}
    <2>1. mem'.names = [mem.names EXCEPT ![Root] = mem.names[proc[p].name],
                                         ![proc[p].name] = mem.names[Root]]
      BY <1>0, <1>1 DEF Exchange, Volumes
    <2> QED
      BY <1>0, <1>1, <2>1 DEF CanExchange, Bound, HoldsMount, HoldPC
  <1>2. CASE CanSnapshot(mem, Root, proc[p].name) /\ mem' = TakeSnapshot(mem, Root, proc[p].name)
    <2>1. mem'.names = [mem.names EXCEPT ![proc[p].name] = mem.next] /\ mem.next # NoId
      BY <1>0, <1>2, VolumeAssumption DEF TakeSnapshot, CanSnapshot, Volumes, Ids, NoId
    <2> QED
      BY <1>0, <2>1 DEF Bound
  <1>3. CASE /\ At(p, "lgRename")
             /\ \E n \in AutoNames : /\ Bound(mem, Legacy) /\ ~Bound(mem, n)
                                     /\ mem' = Renamed(mem, Legacy, n)
    <2>1. PICK n \in AutoNames : Bound(mem, Legacy) /\ mem' = Renamed(mem, Legacy, n)
      BY <1>3
    <2>2. mem'.names = [mem.names EXCEPT ![Legacy] = NoId, ![n] = mem.names[Legacy]]
      BY <1>0, <2>1 DEF Renamed, Volumes
    <2>3. Bound(mem', Root)
      BY <1>0, <2>2 DEF Bound
    <2>4. HoldsMount(p)
      BY <1>3 DEF At, HoldsMount, HoldPC
    <2> QED
      BY <2>3, <2>4
  <1>4. CASE \/ mem' = mem \/ mem' = SetDefault(mem, proc[p].id)
             \/ \E r \in Revs : mem' = [mem EXCEPT !.image = [@ EXCEPT ![up.root].rev = r]]
    <2>1. mem'.names = mem.names
      BY <1>0, <1>4 DEF SetDefault, Volumes
    <2> QED
      BY <2>1 DEF Bound
  <1> QED
    BY <1>1, <1>2, <1>3, <1>4 DEF Changes, DeletePC

\* A rollback only goes on to its swap with a name it has found.
LEMMA VerifiedIsBound ==
    ASSUME TypeInv, NEW p \in Procs, CommandStart(p) \/ CommandStep(p), At(p, "rbSwap")'
    PROVE  Bound(mem', proc'[p].name)
  <1>0. proc \in [Procs -> CommandType]
    BY DEF TypeInv, LifecycleTypeOK, CommandType, EntryType
  <1>1. ASSUME NEW pc, Goto(p, pc)
        PROVE  proc'[p].pc = pc /\ proc'[p].name = proc[p].name
    BY <1>0, <1>1 DEF Goto, CommandType
  <1>2. VerifySnapshot(p)
    <2>1. ~CommandStart(p)
      BY <1>0 DEF CommandStart, RollbackStart, ResolveArgument, CreateStart,
         SnapshotCreate, Start, DeleteStart, DeleteArgument, ListStart, LegacyStart, Idle, At
    <2>2. ~RollbackExit(p) /\ ~SnapshotExit(p) /\ ~\E r \in Revs : Transaction(p, r)
      <3>1. SUFFICES ASSUME proc' = [proc EXCEPT ![p] = Idle] PROVE FALSE
        BY DEF RollbackExit, SnapshotExit, Transaction
      <3>2. proc'[p].pc = "idle"
        BY <1>0, <3>1 DEF Idle
      <3> QED
        BY <3>2 DEF At
    <2>3. ~LookUpNewRoot(p)
      BY <1>0 DEF LookUpNewRoot, Goto, At, CommandType
    <2>4. ~MountToplevel(p) /\ ~SwapNames(p) /\ ~SetDefaultSubvol(p) /\ ~UndoSwap(p)
          /\ ~SyncFilesystem(p) /\ ~UnmountToplevel(p)
      BY <1>1 DEF MountToplevel, Mount, SwapNames, SetDefaultSubvol, UndoSwap, SyncFilesystem,
         UnmountToplevel, Unmount, At
    <2>5. ~SnapshotMount(p) /\ ~TakeOrKeep(p) /\ ~SnapshotRelease(p) /\ ~SnapshotLookup(p)
          /\ ~SnapshotList(p) /\ ~RenameLegacy(p)
      BY <1>1 DEF SnapshotMount, Mount, TakeOrKeep, SnapshotRelease, SnapshotLookup,
         SnapshotList, RenameLegacy, Unmount, At
    <2>6. ~RetainList(p) /\ ~DeleteLookup(p) /\ ~DeleteById(p)
      BY <1>0 DEF RetainList, DeleteLookup, DeleteById, Finish, Goto, At, CommandType
    <2> QED
      BY <2>1, <2>2, <2>3, <2>4, <2>5, <2>6 DEF CommandStep, RollbackStep, SnapshotStep
  <1>3. Goto(p, "rbSwap") => Bound(mem, proc[p].name)
    BY <1>1, <1>2 DEF VerifySnapshot, At
  <1>4. ~Goto(p, "rbAbort")
    BY <1>1 DEF At
  <1> QED
    BY <1>1, <1>2, <1>3, <1>4 DEF VerifySnapshot, Bound

\* Without deletions every step keeps that.
LEMMA TogetherStep ==
    ASSUME NoDeletions, "io" \notin Faults, "kill" \notin Faults,
           TogetherInv, [LifecycleNext]_vars
    PROVE  TogetherInv'
  <1>0. /\ TypeInv /\ TypeInv' /\ proc \in [Procs -> CommandType] /\ Listed
    BY TypeStep DEF TogetherInv, TypeInv, LifecycleTypeOK, CommandType, EntryType
  <1>1. Held'
    <2>1. SwapsWork
      BY DEF TogetherInv, SwapsWork, CanExchange
    <2> QED
      BY <2>1, HeldStep DEF TogetherInv, NoDeletions
  <1>2. ASSUME NEW p \in Procs, CommandStart(p) \/ CommandStep(p)
        PROVE  TogetherInv'
    <2>1. /\ Bound(mem', Root)
          /\ ~HoldsMount(p) => \A n \in Names : Bound(mem, n) => Bound(mem', n)
          /\ disk' = disk \/ disk' = mem'
      BY <1>0, <1>2, CommandChanges, NamesStay DEF TogetherInv
    <2>2. Bound(mem', Root) /\ Bound(disk', Root)
      BY <2>1 DEF TogetherInv
    <2>3. PICK r : Becomes(p, r)
      BY <1>0, <1>2, RollbackMoves, SnapshotMoves DEF CommandStart, CommandStep
    <2>4. ASSUME NEW q \in Procs
          PROVE  /\ proc'[q].pc \notin DeletePC
                 /\ At(q, "rbSwap")' => Bound(mem', proc'[q].name)
      <3>1. CASE q = p
        BY <1>0, <1>2, <3>1, NoDeletionStarts, VerifiedIsBound DEF TogetherInv
      <3>2. CASE q # p
        <4>1. proc'[q] = proc[q] /\ proc[q].name \in Names
          BY <1>0, <2>3, <3>2, BecomesTyped DEF CommandType
        <4>2. At(q, "rbSwap") => ~HoldsMount(p)
          BY <3>2 DEF TogetherInv, Held, At, HoldsMount, HoldPC
        <4> QED
          BY <2>1, <4>1, <4>2 DEF TogetherInv, At
      <3> QED
        BY <3>1, <3>2
    <2> QED
      BY <1>0, <1>1, <2>2, <2>4 DEF TogetherInv, Bound
  <1>3. CASE PowerLoss \/ Reboot
    <2>1. Bound(mem', Root) /\ Bound(disk', Root)
      BY <1>3 DEF PowerLoss, Reboot, TogetherInv
    <2>2. \A p \in Procs : proc'[p].pc = "idle"
      BY <1>0, <1>3 DEF PowerLoss, Reboot, At, Idle
    <2> QED
      BY <1>0, <1>1, <2>1, <2>2 DEF TogetherInv, Bound, DeletePC, At
  <1>4. CASE Commit \/ UNCHANGED vars
    BY <1>0, <1>1, <1>4 DEF Commit, vars, TogetherInv, Bound, At
  <1> QED
    BY <1>2, <1>3, <1>4 DEF LifecycleNext, Environment, Kill

\* The same when commands run at once, as long as mount(8) refuses a second mount and
\* nothing is deleted: the mount point keeps every other command away from the name that
\* a rollback has verified.
THEOREM NothingStaysMountedTogether ==
    ASSUME MountLimit = 1, "delete" \notin Commands, MaxSnapshots = 0,
           "io" \notin Faults, "kill" \notin Faults
    PROVE  LifecycleSpec => []NothingLeftMounted
  <1>1. Init => TogetherInv
    <2> SUFFICES ASSUME Init PROVE TogetherInv
      OBVIOUS
    <2>1. Bound(mem, Root) /\ disk = mem
      BY VolumeAssumption DEF Init, WellFormed
    <2>2. \A p \in Procs : proc[p].pc = "idle"
      BY DEF Init, Idle
    <2> QED
      BY <2>1, <2>2, TypeInit, HeldInit DEF TogetherInv, DeletePC, At
  <1>2. TogetherInv /\ [LifecycleNext]_vars => TogetherInv'
    BY TogetherStep DEF NoDeletions
  <1>3. TogetherInv => NothingLeftMounted
    BY HeldMeans DEF TogetherInv
  <1> QED
    BY <1>1, <1>2, <1>3, PTL DEF LifecycleSpec

-----------------------------------------------------------------------------
(* Retention, with one command at a time.                                  *)

\* A volume without the names that were unbound since another one was committed.
NothingNew == \A n \in Names : Bound(mem, n) => disk.names[n] = mem.names[n]

AtLeast(v, id) == {f \in AutoEntries(v) : f.id >= id}

\* Everything on the list of a retention is still there to be evicted, and with
\* it there are too many automatic snapshots from its ID on.
Overdue(p) ==
    \A e \in proc[p].todo :
        e \in AutoEntries(mem) /\ Cardinality(AtLeast(mem, e.id)) > MaxSnapshots

Retaining(p) ==
    /\ proc[p].pc \in {"snReleaseNew", "snLookupNew", "evList", "evLookup", "evDelete"} =>
          NothingNew
    /\ proc[p].pc \in {"evLookup", "evDelete"} => Overdue(p)
    /\ proc[p].pc = "evDelete" => proc[p].todo # {} /\ proc[p].id = Current(p).id

RetainInv == RootInv /\ \A p \in Procs : Retaining(p)

\* What a deletion by retention does: the one entry it is about is gone, and
\* nothing else.
LEMMA EvictedAlone ==
    ASSUME RetainInv, NEW p \in Procs, At(p, "evDelete"), CanDelete(mem, proc[p].id),
           mem' = DeleteSubvol(mem, proc[p].id), up' = up
    PROVE  /\ Current(p) \in AutoEntries(mem)
           /\ AutoEntries(mem)' = AutoEntries(mem) \ {Current(p)}
           /\ AutoEntries(mem)' = AutoEntries(mem')
           /\ \A n \in Names : mem'.names[n] = IF n = Current(p).name THEN NoId
                                               ELSE mem.names[n]
  <1> DEFINE c == Current(p)
  <1>0. /\ mem \in Volumes /\ proc[p] \in CommandType /\ up.root \in Ids /\ Sound(mem)
        /\ proc[p].id = c.id /\ proc[p].todo # {} /\ Overdue(p)
        /\ up.root \in up.mounted
    BY RootInvTypes DEF RetainInv, RootInv, Retaining, At
  <1>1. c \in proc[p].todo
    BY <1>0, CurrentListed
  <1>2. c \in AutoEntries(mem)
    BY <1>0, <1>1 DEF Overdue
  <1>3. PICK m \in Names : /\ Bound(mem, m) /\ m \in AutoNames /\ m \notin Protected
                           /\ c = [id |-> mem.names[m], name |-> m]
    BY <1>2 DEF AutoEntries, Entries
  <1>4. c.id = mem.names[m] /\ c.name = m
    BY <1>3
  <1>5. \A n \in Names : mem.names[n] = c.id <=> n = m
    BY <1>0, <1>3, <1>4 DEF Sound, OneNamePerSubvolume, Bound
  <1>6. \A n \in Names : mem'.names[n] = IF n = m THEN NoId ELSE mem.names[n]
    BY <1>0, <1>5 DEF DeleteSubvol, Volumes
  <1>7. Protected' = Protected
    <2>1. c.id # up.root
      BY <1>0 DEF CanDelete
    <2>2. mem'.image = [mem.image EXCEPT ![c.id] = NoImage]
      BY <1>0 DEF DeleteSubvol, Volumes
    <2>3. mem'.image[up.root] = mem.image[up.root]
      BY <1>0, <2>1, <2>2 DEF Volumes
    <2> QED
      BY <2>3 DEF Protected
  <1>8. AutoEntries(mem)' = AutoEntries(mem) \ {c}
    <2>1. \A n \in Names : n # m => [id |-> mem.names[n], name |-> n] # c
      BY <1>3
    <2>2. AutoEntries(mem)' = {[id |-> mem'.names[n], name |-> n] :
                                  n \in ({k \in Names : Bound(mem', k)} \cap AutoNames) \ Protected}
      BY <1>7 DEF AutoEntries, Entries, Bound
    <2>3. {k \in Names : Bound(mem', k)} = {k \in Names : Bound(mem, k)} \ {m}
      BY <1>6 DEF Bound
    <2>4. AutoEntries(mem) = {[id |-> mem.names[n], name |-> n] :
                                 n \in ({k \in Names : Bound(mem, k)} \cap AutoNames) \ Protected}
      BY DEF AutoEntries, Entries
    <2>5. AutoEntries(mem)' \subseteq AutoEntries(mem) \ {c}
      BY <1>6, <2>1, <2>2, <2>3, <2>4
    <2>6. AutoEntries(mem) \ {c} \subseteq AutoEntries(mem)'
      BY <1>3, <1>6, <2>2, <2>3, <2>4
    <2> QED
      BY <2>5, <2>6
  <1>9. AutoEntries(mem)' = AutoEntries(mem')
    BY <1>7 DEF AutoEntries, Entries, Bound
  <1> QED
    BY <1>2, <1>4, <1>6, <1>8, <1>9

\* The others on the list are newer than the one deleted.
LEMMA OthersAreNewer ==
    ASSUME RetainInv, NEW p \in Procs, At(p, "evDelete"),
           NEW e \in proc[p].todo, e # Current(p)
    PROVE  e.id > Current(p).id
  <1>0. /\ proc[p].todo # {} /\ Overdue(p) /\ Sound(mem) /\ mem \in Volumes
        /\ proc[p] \in CommandType
    BY RootInvTypes DEF RetainInv, RootInv, Retaining, At
  <1>1. Current(p) \in proc[p].todo /\ Current(p) \in EntryType /\ e \in EntryType
    BY <1>0, CurrentListed DEF CommandType
  <1>2. Current(p).id <= e.id
    <2> DEFINE T == {f.id : f \in proc[p].todo}
    <2>1. T \subseteq Nat /\ T # {}
      BY <1>0, VolumeAssumption DEF CommandType, EntryType, Ids
    <2>2. PICK x \in T : \A y \in T : x <= y
      BY <2>1, LeastNat
    <2>3. \E f \in proc[p].todo : \A g \in proc[p].todo : f.id <= g.id
      BY <2>2
    <2> QED
      BY <2>3 DEF Current
  <1>3. e \in AutoEntries(mem) /\ Current(p) \in AutoEntries(mem)
    BY <1>0, <1>1 DEF Overdue
  <1>4. Current(p).id # e.id
    <2>1. PICK n \in Names : Bound(mem, n) /\ e = [id |-> mem.names[n], name |-> n]
      BY <1>3 DEF AutoEntries, Entries
    <2>2. PICK m \in Names : Bound(mem, m) /\ Current(p) = [id |-> mem.names[m], name |-> m]
      BY <1>3 DEF AutoEntries, Entries
    <2>3. n # m
      BY <2>1, <2>2
    <2> QED
      BY <1>0, <2>1, <2>2, <2>3 DEF Sound, OneNamePerSubvolume
  <1> QED
    BY <1>1, <1>2, <1>4, VolumeAssumption DEF EntryType, Ids

\* A step that leaves the volume alone leaves the entries alone.
LEMMA SameEntries ==
    ASSUME mem' = mem, up' = up
    PROVE  /\ AutoEntries(mem)' = AutoEntries(mem)
           /\ \A i : AtLeast(mem, i)' = AtLeast(mem, i)
  BY DEF AtLeast, AutoEntries, Entries, Bound, Protected

\* After a deletion that retention tried, the rest of its list is still overdue.
LEMMA RestIsOverdue ==
    ASSUME RetainInv, NEW p \in Procs, At(p, "evDelete"), DeleteById(p)
    PROVE  \A e \in proc[p].todo \ {Current(p)} :
              e \in AutoEntries(mem)' /\ Cardinality(AtLeast(mem, e.id)') > MaxSnapshots
  <1>0. Overdue(p)
    BY DEF RetainInv, Retaining, At
  <1>1. CASE mem' = mem
    BY <1>0, <1>1, SameEntries DEF DeleteById, Overdue
  <1>2. CASE CanDelete(mem, proc[p].id) /\ mem' = DeleteSubvol(mem, proc[p].id)
    <2>1. AutoEntries(mem)' = AutoEntries(mem) \ {Current(p)}
      BY <1>2, EvictedAlone DEF DeleteById
    <2>2. SUFFICES ASSUME NEW e \in proc[p].todo, e # Current(p)
                   PROVE  /\ e \in AutoEntries(mem)'
                          /\ Cardinality(AtLeast(mem, e.id)') > MaxSnapshots
      OBVIOUS
    <2>3. e \in AutoEntries(mem)'
      BY <1>0, <2>1, <2>2 DEF Overdue
    <2>4. ~(Current(p).id >= e.id)
      <3>1. proc[p].todo # {} /\ proc[p].todo \subseteq EntryType /\ proc[p] \in CommandType
        BY RootInvTypes, <2>2 DEF RetainInv, CommandType
      <3>2. Current(p).id \in Nat /\ e.id \in Nat
        BY <3>1, CurrentListed, VolumeAssumption DEF EntryType, Ids
      <3> QED
        BY <2>2, <3>2, OthersAreNewer
    <2>5. AtLeast(mem, e.id)' = {f \in AutoEntries(mem)' : f.id >= e.id}
      BY DEF AtLeast
    <2>6. AtLeast(mem, e.id)' = AtLeast(mem, e.id)
      BY <2>1, <2>4, <2>5 DEF AtLeast
    <2> QED
      BY <1>0, <2>2, <2>3, <2>6 DEF Overdue
  <1> QED
    BY <1>1, <1>2 DEF DeleteById

\* A process that is at none of the steps of a retention.
LEMMA NotRetaining ==
    ASSUME NEW p \in Procs,
           proc'[p].pc \notin {"snReleaseNew", "snLookupNew", "evList", "evLookup", "evDelete"}
    PROVE  Retaining(p)'
  BY DEF Retaining

\* Every step of the command keeps what its retention rests on.
LEMMA RetainCommandStep ==
    ASSUME RetainInv, NEW p \in Procs, CommandStart(p) \/ CommandStep(p)
    PROVE  Retaining(p)'
  <1>0. /\ proc \in [Procs -> CommandType] /\ mem \in Volumes /\ disk \in Volumes
        /\ up' = up /\ Retaining(p) /\ TypeInv
    BY RootInvTypes, CommandChanges DEF RetainInv, RootInv
  <1>1. ASSUME NEW pc, Goto(p, pc)
        PROVE  proc'[p].pc = pc /\ proc'[p].todo = proc[p].todo
    BY <1>0, <1>1 DEF Goto, CommandType
  <1> DEFINE Phases == {"snReleaseNew", "snLookupNew", "evList", "evLookup", "evDelete"}
  <1>2. CASE CommandStart(p)
    <2>1. proc'[p].pc \in {"rbMount", "snMount", "snNotBtrfs", "dlLookup", "lsMount", "lgMount"}
      BY <1>0, <1>2 DEF CommandStart, RollbackStart, ResolveArgument, CreateStart,
         SnapshotCreate, Start, DeleteStart, DeleteArgument, ListStart, LegacyStart, Idle
    <2> QED
      BY <2>1, NotRetaining
  <1>3. CASE \/ RollbackExit(p) \/ SnapshotExit(p) \/ (\E r \in Revs : Transaction(p, r))
    <2>1. proc' = [proc EXCEPT ![p] = Idle]
      BY <1>3 DEF RollbackExit, SnapshotExit, Transaction
    <2>2. proc'[p].pc = "idle"
      BY <1>0, <2>1 DEF Idle
    <2> QED
      BY <2>2, NotRetaining
  <1>4. CASE LookUpNewRoot(p)
    <2>1. proc'[p].pc \in {"rbSetDefault", "rbUndo"}
      BY <1>0, <1>4 DEF LookUpNewRoot, Goto, CommandType
    <2> QED
      BY <2>1, NotRetaining
  <1>5. CASE \/ MountToplevel(p) \/ VerifySnapshot(p) \/ SwapNames(p) \/ SetDefaultSubvol(p)
             \/ UndoSwap(p) \/ SyncFilesystem(p) \/ UnmountToplevel(p)
    <2>1. PICK pc \in RollbackPC : Goto(p, pc)
      BY <1>5 DEF MountToplevel, Mount, VerifySnapshot, SwapNames, SetDefaultSubvol,
         UndoSwap, SyncFilesystem, UnmountToplevel, Unmount, RollbackPC
    <2>2. proc'[p].pc \in RollbackPC
      BY <1>1, <2>1
    <2> QED
      BY <2>2, NotRetaining DEF RollbackPC
  <1>6. CASE SnapshotMount(p) \/ SnapshotList(p) \/ RenameLegacy(p)
    <2>1. PICK pc \in SnapshotPC \ Phases : Goto(p, pc)
      BY <1>6 DEF SnapshotMount, Mount, SnapshotList, RenameLegacy, Unmount, SnapshotPC
    <2>2. proc'[p].pc = pc
      BY <1>1, <2>1
    <2> QED
      BY <2>1, <2>2, NotRetaining
  <1>7. CASE TakeOrKeep(p)
    <2>1. CASE Goto(p, "snReleaseNew") /\ disk' = mem'
      <3>1. proc'[p].pc = "snReleaseNew"
        BY <1>1, <2>1
      <3> QED
        BY <2>1, <3>1 DEF Retaining, NothingNew
    <2>2. CASE Goto(p, "snReleaseOld") \/ Goto(p, "snReleaseFailed")
      <3>1. proc'[p].pc \in {"snReleaseOld", "snReleaseFailed"}
        BY <1>1, <2>2
      <3> QED
        BY <3>1, NotRetaining
    <2> QED
      BY <1>7, <2>1, <2>2 DEF TakeOrKeep
  <1>8. CASE SnapshotRelease(p)
    <2>1. CASE At(p, "snReleaseNew") /\ Goto(p, "snLookupNew")
      <3>1. proc'[p].pc = "snLookupNew" /\ mem' = mem /\ disk' = disk
        BY <1>1, <1>8, <2>1 DEF SnapshotRelease
      <3>2. NothingNew
        BY <1>0, <2>1 DEF Retaining, At
      <3> QED
        BY <3>1, <3>2 DEF Retaining, NothingNew, Bound
    <2>2. CASE Goto(p, "snLookupOld") \/ Goto(p, "snFailed")
      <3>1. proc'[p].pc \in {"snLookupOld", "snFailed"}
        BY <1>1, <2>2
      <3> QED
        BY <3>1, NotRetaining
    <2> QED
      BY <1>8, <2>1, <2>2 DEF SnapshotRelease, Unmount
  <1>9. CASE SnapshotLookup(p)
    <2>1. CASE At(p, "snLookupNew") /\ Goto(p, "evList")
      <3>1. proc'[p].pc = "evList" /\ mem' = mem /\ disk' = disk
        BY <1>1, <1>9, <2>1 DEF SnapshotLookup
      <3>2. NothingNew
        BY <1>0, <2>1 DEF Retaining, At
      <3> QED
        BY <3>1, <3>2 DEF Retaining, NothingNew, Bound
    <2>2. CASE Goto(p, "snDone") \/ Goto(p, "snExisted") \/ Goto(p, "snFailed")
      <3>1. proc'[p].pc \in {"snDone", "snExisted", "snFailed"}
        BY <1>1, <2>2
      <3> QED
        BY <3>1, NotRetaining
    <2> QED
      BY <1>9, <2>1, <2>2 DEF SnapshotLookup
  <1>10. CASE RetainList(p)
    <2>0. mem' = mem /\ disk' = disk /\ NothingNew
      BY <1>0, <1>10 DEF RetainList, Retaining, At
    <2>1. CASE Goto(p, "snDone")
      <3>1. proc'[p].pc = "snDone"
        BY <1>1, <2>1
      <3> QED
        BY <3>1, NotRetaining
    <2>2. CASE proc' = [proc EXCEPT ![p].pc = "evLookup", ![p].todo = Oldest(AutoEntries(mem))]
      <3>1. proc'[p].pc = "evLookup" /\ proc'[p].todo = Oldest(AutoEntries(mem))
        BY <1>0, <2>2 DEF CommandType
      <3>2. \A e \in Oldest(AutoEntries(mem)) :
               e \in AutoEntries(mem) /\ Cardinality(AtLeast(mem, e.id)) > MaxSnapshots
        BY DEF Oldest, AtLeast
      <3>3. Overdue(p)'
        BY <1>0, <2>0, <3>1, <3>2, SameEntries DEF Overdue
      <3> QED
        BY <2>0, <3>1, <3>3 DEF Retaining, NothingNew, Bound
    <2> QED
      BY <1>10, <2>1, <2>2 DEF RetainList
  <1>11. CASE DeleteLookup(p)
    <2>0. mem' = mem /\ disk' = disk /\ proc[p].todo # {} /\ Current(p) \in proc[p].todo
      <3>1. proc[p].todo # {}
        BY <1>0, <1>11 DEF DeleteLookup, TypeInv, Listed, At, ListPC
      <3> QED
        BY <1>0, <1>11, <3>1, CurrentListed DEF DeleteLookup
    <2>1. CASE At(p, "dlLookup")
      <3>1. proc'[p].pc \in {"dlDelete", "dlFailed"}
        BY <1>0, <1>11, <2>1 DEF DeleteLookup, Finish, At, CommandType
      <3> QED
        BY <3>1, NotRetaining
    <2>2. CASE At(p, "evLookup")
      <3>0. NothingNew /\ Overdue(p)
        BY <1>0, <2>2 DEF Retaining, At
      <3>1. CASE Finish(p, "dlFailed")
        <4>1. proc'[p].pc \in {"snDone", "evLookup"} /\ proc'[p].todo \subseteq proc[p].todo
          BY <1>0, <2>2, <3>1 DEF Finish, At, CommandType
        <4>2. Overdue(p)'
          BY <1>0, <2>0, <3>0, <4>1, SameEntries DEF Overdue
        <4> QED
          BY <2>0, <3>0, <4>1, <4>2 DEF Retaining, NothingNew, Bound
      <3>2. CASE proc' = [proc EXCEPT ![p].id = mem.names[Current(p).name],
                             ![p].pc = IF At(p, "evLookup") THEN "evDelete" ELSE "dlDelete"]
        <4>1. /\ proc'[p].pc = "evDelete" /\ proc'[p].todo = proc[p].todo
              /\ proc'[p].id = mem.names[Current(p).name]
          BY <1>0, <2>2, <3>2 DEF CommandType
        <4>2. mem.names[Current(p).name] = Current(p).id
          <5>1. PICK n \in Names : Current(p) = [id |-> mem.names[n], name |-> n]
            BY <2>0, <3>0 DEF Overdue, AutoEntries, Entries
          <5> QED
            BY <5>1
        <4>3. Current(p)' = Current(p)
          BY <4>1 DEF Current
        <4>4. Overdue(p)'
          BY <1>0, <2>0, <3>0, <4>1, SameEntries DEF Overdue
        <4> QED
          BY <2>0, <3>0, <4>1, <4>2, <4>3, <4>4 DEF Retaining, NothingNew, Bound
      <3> QED
        BY <1>11, <3>1, <3>2 DEF DeleteLookup
    <2> QED
      BY <1>11, <2>1, <2>2 DEF DeleteLookup
  <1>12. CASE DeleteById(p)
    <2>1. CASE At(p, "dlDelete")
      <3>1. proc'[p].pc \in {"dlDone", "dlFailed"}
        BY <1>0, <1>12, <2>1 DEF DeleteById, Finish, At, CommandType
      <3> QED
        BY <3>1, NotRetaining
    <2>2. CASE At(p, "evDelete")
      <3>1. proc'[p].pc \in {"snDone", "evLookup"} /\ proc'[p].todo = proc[p].todo \ {Current(p)}
        BY <1>0, <1>12, <2>2 DEF DeleteById, Finish, At, CommandType
      <3>2. Overdue(p)'
        BY <1>12, <2>2, <3>1, RestIsOverdue DEF Overdue
      <3>3. NothingNew /\ disk' = disk
        BY <1>0, <1>12, <2>2 DEF DeleteById, Retaining, At
      <3>4. \A n \in Names : Bound(mem, n)' => mem'.names[n] = mem.names[n] /\ Bound(mem, n)
        <4>1. CASE mem' = mem
          BY <4>1 DEF Bound
        <4>2. CASE mem' = DeleteSubvol(mem, proc[p].id)
          <5>1. \A n \in Names :
                   mem'.names[n] = IF mem.names[n] = proc[p].id THEN NoId ELSE mem.names[n]
            BY <1>0, <4>2 DEF DeleteSubvol, Volumes
          <5> QED
            BY <5>1 DEF Bound
        <4> QED
          BY <1>12, <4>1, <4>2 DEF DeleteById
      <3> QED
        BY <3>1, <3>2, <3>3, <3>4 DEF Retaining, NothingNew
    <2> QED
      BY <1>12, <2>1, <2>2 DEF DeleteById
  <1> QED
    BY <1>2, <1>3, <1>4, <1>5, <1>6, <1>7, <1>8, <1>9, <1>10, <1>11, <1>12
       DEF CommandStep, RollbackStep, SnapshotStep

\* Every step of one command at a time keeps the invariant.
LEMMA RetainStep ==
    ASSUME \A p, q \in Procs : p = q, RetainInv, [LifecycleNext]_vars
    PROVE  RetainInv'
  <1>0. RootInv'
    BY RootStep DEF RetainInv
  <1>1. ASSUME NEW p \in Procs, CommandStart(p) \/ CommandStep(p), NEW q \in Procs
        PROVE  Retaining(q)'
    BY <1>1, RetainCommandStep
  <1>2. ASSUME Environment \/ UNCHANGED vars, NEW q \in Procs
        PROVE  Retaining(q)'
    <2>1. proc'[q] \in {proc[q], Idle}
      BY <1>2, EnvironmentMoves DEF RetainInv, RootInv
    <2>2. CASE proc'[q] = Idle
      BY <2>2, NotRetaining DEF Idle
    <2>3. CASE proc'[q] = proc[q] /\ mem' = mem /\ up' = up /\ disk' \in {mem, disk}
      <3>1. Retaining(q) /\ Current(q)' = Current(q)
        BY <2>3 DEF RetainInv, Current
      <3>2. NothingNew => NothingNew'
        BY <2>3 DEF NothingNew, Bound
      <3>3. Overdue(q) => Overdue(q)'
        BY <2>3, SameEntries DEF Overdue
      <3> QED
        BY <2>3, <3>1, <3>2, <3>3 DEF Retaining
    <2>4. CASE PowerLoss
      BY <2>2, <2>4 DEF PowerLoss
    <2>5. CASE Reboot
      <3>1. proc'[q].pc = "idle"
        BY <2>5 DEF Reboot, At
      <3> QED
        BY <3>1, NotRetaining
    <2>6. CASE Commit \/ (\E p \in Procs : Kill(p)) \/ UNCHANGED vars
      BY <2>1, <2>2, <2>3, <2>6 DEF Commit, Kill, vars
    <2> QED
      BY <1>2, <2>4, <2>5, <2>6 DEF Environment
  <1> QED
    BY <1>0, <1>1, <1>2 DEF RetainInv, LifecycleNext

\* A name that goes in the step of a process that is evicting is the one of an
\* automatic snapshot, and enough newer ones stay.
LEMMA EvictsOldest ==
    ASSUME IsFiniteSet(Names), \A p, q \in Procs : p = q, RetainInv, [LifecycleNext]_vars,
           NEW p \in Procs, At(p, "evDelete"),
           NEW n \in Names, Bound(mem, n), mem'.names[n] = NoId
    PROVE  /\ n \in AutoNames
           /\ Cardinality({e \in AutoEntries(mem') : e.id > mem.names[n]}) >= MaxSnapshots
  <1> DEFINE c == Current(p)
  <1>0. /\ Retaining(p) /\ NothingNew /\ Overdue(p) /\ proc[p].todo # {}
        /\ proc[p] \in CommandType /\ mem \in Volumes /\ Sound(mem)
    BY RootInvTypes DEF RetainInv, RootInv, Retaining, At
  <1>1. mem' # mem
    BY DEF Bound
  <1>2. ~PowerLoss
    <2>1. disk.names[n] # NoId
      BY <1>0 DEF NothingNew, Bound
    <2> QED
      BY <2>1 DEF PowerLoss
  <1>3. PICK q \in Procs : CommandStart(q) \/ CommandStep(q)
    BY <1>1, <1>2 DEF LifecycleNext, Environment, Commit, Kill, Reboot, vars
  <1>4. q = p
    BY <1>3
  <1>5. ~CommandStart(p)
    BY DEF CommandStart, RollbackStart, ResolveArgument, CreateStart, SnapshotCreate,
       Start, DeleteStart, DeleteArgument, ListStart, LegacyStart, At
  <1>6. DeleteById(p)
    <2>1. ~RollbackStep(p)
      BY DEF RollbackStep, MountToplevel, VerifySnapshot, SwapNames, LookUpNewRoot,
         SetDefaultSubvol, UndoSwap, SyncFilesystem, UnmountToplevel, RollbackExit, At
    <2>2. ~\E r \in Revs : Transaction(p, r)
      BY DEF Transaction, At
    <2>3. SnapshotStep(p)
      BY <1>3, <1>4, <1>5, <2>1, <2>2 DEF CommandStep
    <2> QED
      BY <2>3 DEF SnapshotStep, SnapshotMount, TakeOrKeep, SnapshotRelease, SnapshotLookup,
         RetainList, DeleteLookup, SnapshotList, RenameLegacy, SnapshotExit, At
  <1>7. CanDelete(mem, proc[p].id) /\ mem' = DeleteSubvol(mem, proc[p].id) /\ up' = up
    BY <1>1, <1>6 DEF DeleteById
  <1>8. /\ c \in AutoEntries(mem)
        /\ AutoEntries(mem') = AutoEntries(mem) \ {c}
        /\ \A m \in Names : mem'.names[m] = IF m = c.name THEN NoId ELSE mem.names[m]
    BY <1>7, EvictedAlone
  <1>9. n = c.name
    BY <1>8 DEF Bound
  <1>10. n \in AutoNames /\ mem.names[n] = c.id
    <2>1. PICK m \in Names \cap AutoNames : c = [id |-> mem.names[m], name |-> m]
      BY <1>8 DEF AutoEntries, Entries
    <2> QED
      BY <1>9, <2>1
  <1>11. Cardinality(AtLeast(mem, c.id)) > MaxSnapshots
    BY <1>0, CurrentListed DEF Overdue
  <1>12. {e \in AutoEntries(mem') : e.id > c.id} = AtLeast(mem, c.id) \ {c}
    <2>1. \A e \in AutoEntries(mem) : /\ e.id \in Nat
                                      /\ e.id = c.id => e = c
      <3>1. SUFFICES ASSUME NEW e \in AutoEntries(mem)
                     PROVE  e.id \in Nat /\ (e.id = c.id => e = c)
        OBVIOUS
      <3>2. PICK m \in Names : Bound(mem, m) /\ e = [id |-> mem.names[m], name |-> m]
        BY DEF AutoEntries, Entries
      <3>3. PICK k \in Names : Bound(mem, k) /\ c = [id |-> mem.names[k], name |-> k]
        BY <1>8 DEF AutoEntries, Entries
      <3>4. e.id = mem.names[m] /\ c.id = mem.names[k]
        BY <3>2, <3>3
      <3>5. e.id \in Nat
        BY <1>0, <3>4, VolumeAssumption DEF Volumes, Ids, NoId
      <3>6. ASSUME e.id = c.id PROVE e = c
        BY <1>0, <3>2, <3>3, <3>4, <3>6 DEF Sound, OneNamePerSubvolume
      <3> QED
        BY <3>5, <3>6
    <2> QED
      BY <1>8, <2>1 DEF AtLeast
  <1>13. IsFiniteSet(AtLeast(mem, c.id))
    <2> DEFINE entry == [m \in Names |-> [id |-> mem.names[m], name |-> m]]
               all   == {[id |-> mem.names[m], name |-> m] : m \in Names}
    <2>0. entry \in Surjection(Names, all)
      BY DEF Surjection
    <2>1. IsFiniteSet(all)
      <3> HIDE DEF entry, all
      <3> QED
        BY <2>0, FS_Surjection
    <2>2. AtLeast(mem, c.id) \subseteq all
      BY DEF AtLeast, AutoEntries, Entries
    <2> QED
      BY <2>1, <2>2, FS_Subset
  <1>14. Cardinality(AtLeast(mem, c.id) \ {c}) >= MaxSnapshots
    <2>1. Cardinality(AtLeast(mem, c.id)) \in Nat
      BY <1>13, FS_CardinalityType
    <2>2. \/ Cardinality(AtLeast(mem, c.id) \ {c}) = Cardinality(AtLeast(mem, c.id))
          \/ Cardinality(AtLeast(mem, c.id) \ {c}) = Cardinality(AtLeast(mem, c.id)) - 1
      BY <1>13, FS_RemoveElement
    <2> QED
      BY <1>11, <2>1, <2>2, SnapshotAssumption
  <1> QED
    BY <1>10, <1>12, <1>14

\* When commands run one at a time, what retention deletes is an automatic
\* snapshot with as many newer ones left as the limit allows, whatever fails and
\* for any number of snapshots.
THEOREM RetentionTakesTheOldest ==
    ASSUME IsFiniteSet(Names),
           \A p, q \in Procs : p = q,
           \A v \in StartVolumes : Root \in v.image[v.names[Root]].mounts
    PROVE  LifecycleSpec => RetentionEvictsOldestAuto
  <1> DEFINE A == \A p \in Procs, n \in Names :
                     At(p, "evDelete") /\ Bound(mem, n) /\ mem'.names[n] = NoId
                        => /\ n \in AutoNames
                           /\ Cardinality({e \in AutoEntries(mem') : e.id > mem.names[n]})
                                 >= MaxSnapshots
  <1>1. Init => RetainInv
    <2>1. Init => RootInv
      BY RootInit
    <2>2. Init => \A p \in Procs : Retaining(p)
      BY DEF Init, Idle, Retaining
    <2> QED
      BY <2>1, <2>2 DEF RetainInv
  <1>2. RetainInv /\ [LifecycleNext]_vars => RetainInv'
    BY RetainStep
  <1>3. RetainInv /\ [LifecycleNext]_vars => A
    BY EvictsOldest
  <1>4. RetainInv /\ [LifecycleNext]_vars => [A]_vars
    BY <1>3
  <1>5. LifecycleSpec => [][A]_vars
    <2> HIDE DEF A
    <2> QED
      BY <1>1, <1>2, <1>4, PTL DEF LifecycleSpec
  <1> QED
    BY <1>5 DEF RetentionEvictsOldestAuto

-----------------------------------------------------------------------------
(* Retention keeps the limit.                                              *)

\* What is left of the entries that could be deleted once those on the list are gone.
Limiting(p) ==
    proc[p].pc \in {"evLookup", "evDelete"} =>
        Cardinality(Deletable(mem) \ proc[p].todo) <= MaxSnapshots

LimitInv == RetainInv /\ \A p \in Procs : Limiting(p)

\* There are no more entries than names.
LEMMA EntriesAreFinite ==
    ASSUME IsFiniteSet(Names), NEW v
    PROVE  IsFiniteSet(AutoEntries(v))
  <1> DEFINE entry == [m \in Names |-> [id |-> v.names[m], name |-> m]]
             all   == {[id |-> v.names[m], name |-> m] : m \in Names}
  <1>1. entry \in Surjection(Names, all)
    BY DEF Surjection
  <1>2. IsFiniteSet(all)
    <2> HIDE DEF entry, all
    <2> QED
      BY <1>1, FS_Surjection
  <1>3. AutoEntries(v) \subseteq all
    BY DEF AutoEntries, Entries
  <1> QED
    BY <1>2, <1>3, FS_Subset

\* A part of a set within the limit is within it.
LEMMA WithinLimit ==
    ASSUME NEW S, IsFiniteSet(S), Cardinality(S) <= MaxSnapshots, NEW T, T \subseteq S
    PROVE  Cardinality(T) <= MaxSnapshots
  <1>1. IsFiniteSet(T) /\ Cardinality(T) <= Cardinality(S)
    BY FS_Subset
  <1>2. Cardinality(T) \in Nat /\ Cardinality(S) \in Nat
    BY <1>1, FS_CardinalityType
  <1> QED
    BY <1>1, <1>2, SnapshotAssumption

\* However many entries there are, those that Oldest does not take are within the limit:
\* all of them are at least as new as the oldest of them.
LEMMA OldestLeavesTheLimit ==
    ASSUME NEW E, IsFiniteSet(E), \A e \in E : e.id \in Nat
    PROVE  Cardinality(E \ Oldest(E)) <= MaxSnapshots
  <1> DEFINE K == E \ Oldest(E)
  <1>1. CASE K = {}
    BY <1>1, FS_EmptySet, SnapshotAssumption
  <1>2. CASE K # {}
    <2> DEFINE T == {e.id : e \in K}
    <2>1. T \subseteq Nat /\ T # {}
      BY <1>2
    <2>2. PICK x \in T : \A y \in T : x <= y
      <3> HIDE DEF T
      <3> QED
        BY <2>1, LeastNat
    <2>3. PICK e \in K : \A f \in K : e.id <= f.id
      BY <2>2
    <2> DEFINE A == {f \in E : f.id >= e.id}
    <2>4. K \subseteq A
      BY <2>3
    <2>5. IsFiniteSet(A) /\ Cardinality(A) \in Nat
      BY FS_Subset, FS_CardinalityType
    <2>6. Cardinality(A) <= MaxSnapshots
      BY <2>3, <2>5, SnapshotAssumption DEF Oldest
    <2> QED
      BY <2>4, <2>5, <2>6, WithinLimit
  <1> QED
    BY <1>1, <1>2

\* The entries of a volume have IDs.
LEMMA EntryIds ==
    ASSUME mem \in Volumes
    PROVE  \A e \in AutoEntries(mem) : e.id \in Nat
  BY VolumeAssumption, SnapshotAssumption DEF AutoEntries, Entries, Volumes, Ids, NoId

\* A step that leaves the volume alone leaves alone what could be deleted.
LEMMA SameDeletable ==
    ASSUME mem' = mem, up' = up
    PROVE  Deletable(mem)' = Deletable(mem) /\ Deletable(mem') = Deletable(mem)
  BY SameEntries DEF Deletable, CanDelete, Holds, Bound

\* A list of retention leaves the limit when it is made.
LEMMA ListLeavesTheLimit ==
    ASSUME IsFiniteSet(Names), RetainInv, NEW p \in Procs
    PROVE  Cardinality(Deletable(mem) \ Oldest(AutoEntries(mem))) <= MaxSnapshots
  <1>1. mem \in Volumes
    BY RootInvTypes DEF RetainInv
  <1>2. /\ IsFiniteSet(AutoEntries(mem))
        /\ Cardinality(AutoEntries(mem) \ Oldest(AutoEntries(mem))) <= MaxSnapshots
    BY <1>1, EntriesAreFinite, EntryIds, OldestLeavesTheLimit
  <1>3. IsFiniteSet(AutoEntries(mem) \ Oldest(AutoEntries(mem)))
    BY <1>2, FS_Subset
  <1> QED
    BY <1>2, <1>3, WithinLimit DEF Deletable

\* After one entry of the list, what is left of the others is within the limit: the entry is
\* gone, or btrfs would not delete it.
LEMMA EntryLeavesTheLimit ==
    ASSUME IsFiniteSet(Names), "io" \notin Faults, LimitInv,
           NEW p \in Procs, At(p, "evDelete"), DeleteById(p)
    PROVE  /\ Cardinality(Deletable(mem') \ (proc[p].todo \ {Current(p)})) <= MaxSnapshots
           /\ Deletable(mem)' = Deletable(mem')
  <1> DEFINE c == Current(p)
  <1>0. /\ proc[p].id = c.id /\ c \in proc[p].todo /\ up' = up /\ mem \in Volumes
        /\ Cardinality(Deletable(mem) \ proc[p].todo) <= MaxSnapshots
    BY RootInvTypes, CurrentListed
       DEF LimitInv, RetainInv, Retaining, Limiting, DeleteById, At
  <1>1. IsFiniteSet(Deletable(mem) \ proc[p].todo)
    BY EntriesAreFinite, FS_Subset DEF Deletable
  <1>2. /\ Deletable(mem') \ (proc[p].todo \ {c}) \subseteq Deletable(mem) \ proc[p].todo
        /\ Deletable(mem)' = Deletable(mem')
    <2>1. CASE ~CanDelete(mem, proc[p].id) /\ mem' = mem
      BY <1>0, <2>1, SameDeletable DEF Deletable
    <2>2. CASE CanDelete(mem, proc[p].id) /\ mem' = DeleteSubvol(mem, proc[p].id)
      <3>1. /\ AutoEntries(mem)' = AutoEntries(mem) \ {c}
            /\ AutoEntries(mem)' = AutoEntries(mem')
            /\ \A n \in Names : mem'.names[n] = IF n = c.name THEN NoId ELSE mem.names[n]
        BY <1>0, <2>2, EvictedAlone DEF LimitInv
      <3>2. mem'.default = mem.default
        BY <1>0, <2>2 DEF DeleteSubvol, Volumes
      <3>3. \A i : Holds(mem', i) => Holds(mem, i)
        BY <3>1 DEF Holds, Bound
      <3>4. Deletable(mem') \subseteq Deletable(mem) \ {c}
        BY <3>1, <3>2, <3>3 DEF Deletable, CanDelete
      <3>5. Deletable(mem)' = Deletable(mem')
        BY <1>0, <3>1 DEF Deletable, CanDelete, Holds, Bound
      <3> QED
        BY <3>4, <3>5
    <2> QED
      BY <2>1, <2>2 DEF DeleteById, IOError
  <1> QED
    BY <1>0, <1>1, <1>2, WithinLimit

\* What an entry on a list of retention is looked up as: the snapshot it was listed as.
LEMMA ListedIsThere ==
    ASSUME RetainInv, NEW p \in Procs, At(p, "evLookup")
    PROVE  /\ Current(p).name \notin Protected
           /\ Bound(mem, Current(p).name)
  <1>1. proc[p].todo # {} /\ Overdue(p) /\ proc[p] \in CommandType
    BY RootInvTypes
       DEF RetainInv, RootInv, TypeInv, Listed, ListPC, Retaining, At
  <1>2. Current(p) \in AutoEntries(mem)
    BY <1>1, CurrentListed DEF Overdue
  <1>3. PICK n \in Names : /\ Bound(mem, n) /\ n \notin Protected
                           /\ Current(p) = [id |-> mem.names[n], name |-> n]
    BY <1>2 DEF AutoEntries, Entries
  <1>4. Current(p).name = n
    BY <1>3
  <1> QED
    BY <1>3, <1>4

\* Only the steps of retention itself lead to a list that is being worked off.
LEMMA RetentionMoves ==
    ASSUME RetainInv, NEW p \in Procs, CommandStart(p) \/ CommandStep(p)
    PROVE  \/ proc'[p].pc \notin {"evLookup", "evDelete"}
           \/ RetainList(p)
           \/ DeleteLookup(p) /\ At(p, "evLookup")
           \/ DeleteById(p) /\ At(p, "evDelete")
  <1>0. proc \in [Procs -> CommandType]
    BY RootInvTypes DEF RetainInv
  <1>1. ASSUME NEW pc, Goto(p, pc)
        PROVE  proc'[p].pc = pc
    BY <1>0, <1>1 DEF Goto, CommandType
  <1>2. CASE CommandStart(p)
    BY <1>0, <1>2 DEF CommandStart, RollbackStart, ResolveArgument, CreateStart,
       SnapshotCreate, Start, DeleteStart, DeleteArgument, ListStart, LegacyStart, Idle
  <1>3. CASE \/ RollbackExit(p) \/ SnapshotExit(p) \/ (\E r \in Revs : Transaction(p, r))
    <2>1. proc' = [proc EXCEPT ![p] = Idle]
      BY <1>3 DEF RollbackExit, SnapshotExit, Transaction
    <2>2. proc'[p].pc = "idle"
      BY <1>0, <2>1 DEF Idle
    <2> QED
      BY <2>2
  <1>4. CASE LookUpNewRoot(p)
    <2>1. proc'[p].pc \in {"rbSetDefault", "rbUndo"}
      BY <1>0, <1>4 DEF LookUpNewRoot, Goto, CommandType
    <2> QED
      BY <2>1
  <1>5. CASE \/ MountToplevel(p) \/ VerifySnapshot(p) \/ SwapNames(p) \/ SetDefaultSubvol(p)
             \/ UndoSwap(p) \/ SyncFilesystem(p) \/ UnmountToplevel(p)
    <2>1. PICK pc \in RollbackPC : Goto(p, pc)
      BY <1>5 DEF MountToplevel, Mount, VerifySnapshot, SwapNames, SetDefaultSubvol,
         UndoSwap, SyncFilesystem, UnmountToplevel, Unmount, RollbackPC
    <2>2. proc'[p].pc \in RollbackPC
      BY <1>1, <2>1
    <2> QED
      BY <2>2 DEF RollbackPC
  <1>6. CASE \/ SnapshotMount(p) \/ SnapshotList(p) \/ RenameLegacy(p) \/ TakeOrKeep(p)
             \/ SnapshotRelease(p) \/ SnapshotLookup(p)
    <2>1. PICK pc \in SnapshotPC \ {"evLookup", "evDelete"} : Goto(p, pc)
      <3>1. CASE SnapshotLookup(p)
        <4>1. PICK pc \in {"evList", "snDone", "snExisted", "snFailed"} : Goto(p, pc)
          BY <3>1 DEF SnapshotLookup
        <4> QED
          BY <4>1 DEF SnapshotPC
      <3>2. CASE \/ SnapshotMount(p) \/ SnapshotList(p) \/ RenameLegacy(p) \/ TakeOrKeep(p)
                 \/ SnapshotRelease(p)
        BY <3>2 DEF SnapshotMount, Mount, SnapshotList, RenameLegacy, Unmount, TakeOrKeep,
           SnapshotRelease, SnapshotPC
      <3> QED
        BY <1>6, <3>1, <3>2
    <2>2. proc'[p].pc = pc
      BY <1>1, <2>1
    <2> QED
      BY <2>1, <2>2
  <1>7. CASE DeleteLookup(p) \/ DeleteById(p)
    <2>1. CASE At(p, "dlLookup") \/ At(p, "dlDelete")
      <3>1. proc'[p].pc \in {"dlDelete", "dlDone", "dlFailed"}
        BY <1>0, <1>7, <2>1 DEF DeleteLookup, DeleteById, Finish, At, CommandType
      <3> QED
        BY <3>1
    <2> QED
      BY <1>7, <2>1 DEF DeleteLookup, DeleteById
  <1> QED
    BY <1>2, <1>3, <1>4, <1>5, <1>6, <1>7 DEF CommandStep, RollbackStep, SnapshotStep

\* Every step of one command at a time keeps within the limit what its list leaves.
LEMMA LimitStep ==
    ASSUME IsFiniteSet(Names), "io" \notin Faults, \A p, q \in Procs : p = q,
           LimitInv, [LifecycleNext]_vars
    PROVE  LimitInv'
  <1>0. RetainInv' /\ RetainInv
    BY RetainStep DEF LimitInv
  <1>1. ASSUME NEW p \in Procs, CommandStart(p) \/ CommandStep(p), NEW q \in Procs
        PROVE  Limiting(q)'
    <2>0. /\ q = p /\ proc \in [Procs -> CommandType]
          /\ proc[p].pc \in {"evLookup", "evDelete"} =>
                Cardinality(Deletable(mem) \ proc[p].todo) <= MaxSnapshots
      BY <1>0, <1>1, RootInvTypes DEF LimitInv, RetainInv, Limiting
    <2>1. CASE proc'[p].pc \notin {"evLookup", "evDelete"}
      BY <2>0, <2>1 DEF Limiting
    <2>2. CASE RetainList(p)
      <3>1. \/ proc'[p].pc = "snDone"
            \/ proc'[p].pc = "evLookup" /\ proc'[p].todo = Oldest(AutoEntries(mem))
        BY <2>0, <2>2 DEF RetainList, Goto, CommandType
      <3>2. Deletable(mem)' = Deletable(mem)
        BY <2>2, SameDeletable DEF RetainList
      <3> QED
        BY <1>0, <2>0, <3>1, <3>2, ListLeavesTheLimit DEF Limiting
    <2>3. CASE DeleteLookup(p) /\ At(p, "evLookup")
      <3>1. /\ Current(p).name \notin Protected
            /\ Bound(mem, Current(p).name)
        BY <1>0, <2>3, ListedIsThere
      <3>2. proc'[p].todo = proc[p].todo
        BY <2>0, <2>3, <3>1 DEF DeleteLookup, IOError, CommandType
      <3>3. Deletable(mem)' = Deletable(mem)
        BY <2>3, SameDeletable DEF DeleteLookup
      <3> QED
        BY <2>0, <2>3, <3>2, <3>3 DEF Limiting, At
    <2>4. CASE DeleteById(p) /\ At(p, "evDelete")
      <3>1. proc'[p].todo = proc[p].todo \ {Current(p)}
        BY <2>0, <2>4 DEF DeleteById, Finish, CommandType
      <3> QED
        BY <2>0, <2>4, <3>1, EntryLeavesTheLimit DEF Limiting
    <2> QED
      BY <1>0, <1>1, <2>1, <2>2, <2>3, <2>4, RetentionMoves
  <1>2. ASSUME Environment \/ UNCHANGED vars, NEW q \in Procs
        PROVE  Limiting(q)'
    <2>1. proc'[q] \in {proc[q], Idle}
      BY <1>0, <1>2, EnvironmentMoves DEF RetainInv, RootInv
    <2>2. CASE proc'[q] = Idle
      BY <2>2 DEF Limiting, Idle
    <2>3. CASE proc'[q] = proc[q] /\ mem' = mem /\ up' = up
      <3>1. Limiting(q) /\ Deletable(mem)' = Deletable(mem)
        BY <2>3, SameDeletable DEF LimitInv
      <3> QED
        BY <2>3, <3>1 DEF Limiting
    <2>4. CASE PowerLoss \/ Reboot
      <3>1. proc'[q].pc = "idle"
        BY <2>4 DEF PowerLoss, Reboot, At, Idle
      <3> QED
        BY <3>1 DEF Limiting
    <2>5. CASE Commit \/ (\E p \in Procs : Kill(p)) \/ UNCHANGED vars
      BY <2>1, <2>2, <2>3, <2>5 DEF Commit, Kill, vars
    <2> QED
      BY <1>2, <2>4, <2>5 DEF Environment
  <1> QED
    BY <1>0, <1>1, <1>2 DEF LimitInv, LifecycleNext

\* A retention that ends has worked off its list, or had none to work off.
LEMMA LimitIsKept ==
    ASSUME IsFiniteSet(Names), "io" \notin Faults, \A p, q \in Procs : p = q,
           LimitInv, [LifecycleNext]_vars,
           NEW p \in Procs, proc[p].pc \in {"evList", "evDelete", "evLookup"},
           proc'[p].pc = "snDone"
    PROVE  Cardinality(Deletable(mem')) <= MaxSnapshots
  <1>0. /\ RetainInv /\ proc \in [Procs -> CommandType]
    BY RootInvTypes DEF LimitInv, RetainInv
  <1>1. PICK q \in Procs : CommandStart(q) \/ CommandStep(q)
    <2>1. ASSUME Environment \/ UNCHANGED vars PROVE FALSE
      <3>1. proc'[p] \in {proc[p], Idle}
        BY <1>0, <2>1, EnvironmentMoves DEF RetainInv, RootInv
      <3> QED
        BY <3>1 DEF Idle
    <2> QED
      BY <2>1 DEF LifecycleNext
  <1>2. CommandStep(p)
    BY <1>1 DEF CommandStart, RollbackStart, ResolveArgument, CreateStart, SnapshotCreate,
       Start, DeleteStart, DeleteArgument, ListStart, LegacyStart, At
  <1>3. RetainList(p) \/ DeleteLookup(p) \/ DeleteById(p)
    <2>1. ~RollbackStep(p)
      BY DEF RollbackStep, MountToplevel, VerifySnapshot, SwapNames, LookUpNewRoot,
         SetDefaultSubvol, UndoSwap, SyncFilesystem, UnmountToplevel, RollbackExit, At
    <2>2. ~\E r \in Revs \ {NoRev} : Transaction(p, r)
      BY DEF Transaction
    <2>3. SnapshotStep(p)
      BY <1>2, <2>1, <2>2 DEF CommandStep
    <2> QED
      BY <2>3 DEF SnapshotStep, SnapshotMount, TakeOrKeep, SnapshotRelease, SnapshotLookup,
         SnapshotList, RenameLegacy, SnapshotExit, At
  <1>4. CASE RetainList(p)
    <2>1. Oldest(AutoEntries(mem)) = {} /\ mem' = mem /\ up' = up
      BY <1>0, <1>4 DEF RetainList, IOError, CommandType
    <2>2. Deletable(mem') = Deletable(mem) \ Oldest(AutoEntries(mem))
      BY <2>1, SameDeletable
    <2> QED
      BY <1>0, <2>2, ListLeavesTheLimit
  <1>5. CASE DeleteLookup(p)
    <2>1. At(p, "evLookup")
      BY <1>5 DEF DeleteLookup, At
    <2>2. Current(p).name \notin Protected /\ Bound(mem, Current(p).name)
      BY <1>0, <2>1, ListedIsThere
    <2>3. proc'[p].pc = "evDelete"
      BY <1>0, <1>5, <2>1, <2>2 DEF DeleteLookup, IOError, CommandType
    <2> QED
      BY <2>3
  <1>6. CASE DeleteById(p)
    <2>1. At(p, "evDelete")
      BY <1>6 DEF DeleteById, At
    <2>2. proc[p].todo \ {Current(p)} = {}
      BY <1>0, <1>6, <2>1 DEF DeleteById, Finish, At, CommandType
    <2>3. Cardinality(Deletable(mem') \ (proc[p].todo \ {Current(p)})) <= MaxSnapshots
      BY <1>6, <2>1, EntryLeavesTheLimit
    <2> QED
      BY <2>2, <2>3
  <1> QED
    BY <1>3, <1>4, <1>5, <1>6

\* When commands run one at a time and no tool fails, no more automatic snapshots that could be
\* deleted than the limit are there when retention ends, for any limit and any number of
\* snapshots, wherever commands before it were killed or the power failed.
THEOREM RetentionLeavesTheLimit ==
    ASSUME IsFiniteSet(Names), "io" \notin Faults,
           \A p, q \in Procs : p = q,
           \A v \in StartVolumes : Root \in v.image[v.names[Root]].mounts
    PROVE  LifecycleSpec => RetentionKeepsTheLimit
  <1> DEFINE A == \A p \in Procs :
                     proc[p].pc \in {"evList", "evDelete", "evLookup"} /\ proc'[p].pc = "snDone"
                        => Cardinality(Deletable(mem')) <= MaxSnapshots
  <1>1. Init => LimitInv
    <2>1. Init => RootInv
      BY RootInit
    <2>2. Init => \A p \in Procs : Retaining(p) /\ Limiting(p)
      BY DEF Init, Idle, Retaining, Limiting
    <2> QED
      BY <2>1, <2>2 DEF LimitInv, RetainInv
  <1>2. LimitInv /\ [LifecycleNext]_vars => LimitInv'
    BY LimitStep
  <1>3. LimitInv /\ [LifecycleNext]_vars => [A]_vars
    <2>1. SUFFICES ASSUME LimitInv, [LifecycleNext]_vars PROVE A
      OBVIOUS
    <2> QED
      BY <2>1, LimitIsKept
  <1>4. LifecycleSpec => [][A]_vars
    <2> HIDE DEF A
    <2> QED
      BY <1>1, <1>2, <1>3, PTL DEF LifecycleSpec
  <1> QED
    BY <1>4 DEF RetentionKeepsTheLimit

-----------------------------------------------------------------------------
(* What a transaction is about to change has been kept.                    *)

\* No fstab mounts an automatic snapshot.
PlainFstabs(v) == \A id \in Ids : v.image[id].mounts \cap AutoNames = {}

\* From the creation of a snapshot on.
KeptPC == {"snReleaseNew", "snLookupNew", "evList", "evLookup", "evDelete", "snDone"}

\* The snapshot is the newest subvolume, equal to the root, and on disk; and the
\* disk has the running root as it is.
Kept(p) ==
    LET n == proc[p].name
        k == mem.names[n]
    IN  /\ Bound(mem, n) /\ n # Root /\ k + 1 = mem.next
        /\ disk.names[n] = k
        /\ mem.image[k] = mem.image[mem.names[Root]]
        /\ disk.image[k] = mem.image[k]
        /\ disk.image[up.root] = mem.image[up.root]

Keeping(p) ==
    /\ proc[p].pc \in KeptPC => Kept(p)
    /\ proc[p].pc \in {"evList", "evLookup", "evDelete"} => MaxSnapshots > 0

KeepInv ==
    /\ RetainInv
    /\ PlainFstabs(mem) /\ PlainFstabs(disk)
    /\ \A p \in Procs : Keeping(p)

\* Nothing a command does to the volume changes which subvolumes a fstab mounts.
LEMMA ChangesKeepFstabs ==
    ASSUME RootInv, PlainFstabs(mem), NEW p \in Procs, Changes(p)
    PROVE  PlainFstabs(mem')
  <1>0. /\ mem \in Volumes /\ up.root \in Ids /\ mem.names[Root] \in Ids
        /\ mem.image \in [Ids -> Images]
    BY RootInvTypes DEF Volumes
  <1>1. CASE CanSnapshot(mem, Root, proc[p].name) /\ mem' = TakeSnapshot(mem, Root, proc[p].name)
    <2>1. mem'.image = [mem.image EXCEPT ![mem.next] = mem.image[mem.names[Root]]]
      BY <1>0, <1>1 DEF TakeSnapshot, Volumes
    <2>2. \A id \in Ids : mem'.image[id] = IF id = mem.next THEN mem.image[mem.names[Root]]
                                           ELSE mem.image[id]
      BY <1>0, <2>1
    <2> QED
      BY <1>0, <2>2 DEF PlainFstabs
  <1>2. CASE mem' = DeleteSubvol(mem, proc[p].id)
    <2>1. mem'.image = [mem.image EXCEPT ![proc[p].id] = NoImage]
      BY <1>0, <1>2 DEF DeleteSubvol, Volumes
    <2>2. \A id \in Ids : mem'.image[id] \in {mem.image[id], NoImage}
      BY <1>0, <2>1
    <2> QED
      BY <2>2 DEF PlainFstabs, NoImage
  <1>3. CASE \E r \in Revs : mem' = [mem EXCEPT !.image = [@ EXCEPT ![up.root].rev = r]]
    <2>1. PICK r \in Revs : mem' = [mem EXCEPT !.image = [@ EXCEPT ![up.root].rev = r]]
      BY <1>3
    <2>2. mem'.image = [mem.image EXCEPT ![up.root].rev = r]
      BY <1>0, <2>1 DEF Volumes
    <2>3. \A id \in Ids : mem'.image[id].mounts = mem.image[id].mounts
      BY <1>0, <2>2 DEF Images
    <2> QED
      BY <2>3 DEF PlainFstabs
  <1>4. CASE mem'.image = mem.image
    BY <1>4 DEF PlainFstabs
  <1>5. CASE \/ mem' = mem \/ mem' = Exchange(mem, Root, proc[p].name)
             \/ mem' = SetDefault(mem, proc[p].id)
             \/ \E n \in AutoNames : mem' = Renamed(mem, Legacy, n)
    <2>1. mem'.image = mem.image
      BY <1>0, <1>5 DEF Exchange, SetDefault, Renamed, Volumes
    <2> QED
      BY <1>4, <2>1
  <1> QED
    BY <1>1, <1>2, <1>3, <1>5 DEF Changes

\* A new snapshot equals the root it was taken of.
LEMMA SnapshotIsKept ==
    ASSUME KeepInv, NEW p \in Procs, Goto(p, "snReleaseNew"),
           CanSnapshot(mem, Root, proc[p].name),
           mem' = TakeSnapshot(mem, Root, proc[p].name), disk' = mem', up' = up
    PROVE  Kept(p)'
  <1> DEFINE n == proc[p].name
  <1>0. /\ mem \in Volumes /\ mem.names[Root] \in Ids /\ n \in Names /\ Root \in Names
        /\ proc \in [Procs -> CommandType] /\ Sound(mem)
    BY RootInvTypes DEF KeepInv, RetainInv, RootInv
  <1>1. proc'[p].name = n
    BY <1>0 DEF Goto, CommandType
  <1>2. n # Root /\ mem.next \in Ids /\ mem.next # NoId
    BY VolumeAssumption DEF CanSnapshot, Ids, NoId
  <1>3. /\ mem'.names = [mem.names EXCEPT ![n] = mem.next]
        /\ mem'.next = mem.next + 1
        /\ mem'.image = [mem.image EXCEPT ![mem.next] = mem.image[mem.names[Root]]]
    BY <1>0 DEF TakeSnapshot, Volumes
  <1>4. mem'.names[n] = mem.next /\ mem'.names[Root] = mem.names[Root]
    BY <1>0, <1>2, <1>3 DEF Volumes
  <1>5. mem.names[Root] # mem.next
    BY <1>0, VolumeAssumption DEF Sound, FreshNext, Ids
  <1>6. /\ mem'.image[mem.next] = mem.image[mem.names[Root]]
        /\ mem'.image[mem.names[Root]] = mem.image[mem.names[Root]]
    BY <1>0, <1>2, <1>3, <1>5 DEF Volumes
  <1> QED
    BY <1>1, <1>2, <1>3, <1>4, <1>6 DEF Kept, Bound

\* Where nothing changes but the program counter, what is kept stays kept.
LEMMA StillKept ==
    ASSUME NEW p \in Procs, Kept(p), mem' = mem, disk' \in {disk, mem}, up' = up,
           proc'[p].name = proc[p].name
    PROVE  Kept(p)'
  BY DEF Kept, Bound

\* Retention does not evict the snapshot it follows.
LEMMA NewestStays ==
    ASSUME KeepInv, NEW p \in Procs, At(p, "evDelete")
    PROVE  Current(p).id # mem.names[proc[p].name]
  <1> DEFINE c == Current(p)
             k == mem.names[proc[p].name]
  <1>0. /\ Kept(p) /\ Overdue(p) /\ MaxSnapshots > 0 /\ Sound(mem) /\ mem \in Volumes
        /\ proc[p].todo # {} /\ proc[p] \in CommandType
    BY RootInvTypes DEF KeepInv, Keeping, KeptPC, RetainInv, RootInv, Retaining, At
  <1>1. SUFFICES ASSUME c.id = k PROVE FALSE
    OBVIOUS
  <1>2. c \in AutoEntries(mem) /\ Cardinality(AtLeast(mem, k)) > MaxSnapshots
    BY <1>0, <1>1, CurrentListed DEF Overdue
  <1>3. AtLeast(mem, k) \subseteq {c}
    <2>1. SUFFICES ASSUME NEW e \in AutoEntries(mem), e.id >= k
                   PROVE  e = c
      BY DEF AtLeast
    <2>2. PICK m \in Names : Bound(mem, m) /\ e = [id |-> mem.names[m], name |-> m]
      BY DEF AutoEntries, Entries
    <2>3. PICK l \in Names : Bound(mem, l) /\ c = [id |-> mem.names[l], name |-> l]
      BY <1>2 DEF AutoEntries, Entries
    <2>4. e.id = mem.names[m] /\ c.id = mem.names[l]
      BY <2>2, <2>3
    <2>5. mem.names[m] < k + 1 /\ mem.names[m] \in Nat /\ k \in Nat
      BY <1>0, <1>1, <2>4, VolumeAssumption DEF Kept, Sound, FreshNext, Volumes, Ids, NoId
    <2>6. mem.names[m] = mem.names[l]
      BY <1>1, <2>1, <2>4, <2>5
    <2> QED
      BY <1>0, <2>2, <2>3, <2>6 DEF Sound, OneNamePerSubvolume
  <1>4. IsFiniteSet({c}) /\ Cardinality({c}) = 1
    BY FS_Singleton
  <1>5. IsFiniteSet(AtLeast(mem, k)) /\ Cardinality(AtLeast(mem, k)) <= 1
    BY <1>3, <1>4, FS_Subset
  <1>6. Cardinality(AtLeast(mem, k)) \in Nat
    BY <1>5, FS_CardinalityType
  <1> QED
    BY <1>0, <1>2, <1>5, <1>6, SnapshotAssumption

\* A deletion by retention keeps what is kept.
LEMMA EvictionKeeps ==
    ASSUME KeepInv, NEW p \in Procs, At(p, "evDelete"), DeleteById(p)
    PROVE  Kept(p)'
  <1> DEFINE n  == proc[p].name
             id == proc[p].id
  <1>0. /\ Kept(p) /\ mem \in Volumes /\ n \in Names /\ Root \in Names /\ up.root \in Ids
        /\ mem.names[Root] \in Ids /\ mem.names[n] \in Ids
        /\ proc \in [Procs -> CommandType] /\ id = Current(p).id /\ id # mem.names[Root]
        /\ up.root \in up.mounted
    BY RootInvTypes
       DEF KeepInv, Keeping, KeptPC, RetainInv, RootInv, Retaining, Poised, At, Kept, Bound,
           Volumes
  <1>1. proc'[p].name = n /\ disk' = disk /\ up' = up
    BY <1>0 DEF DeleteById, Finish, CommandType
  <1>2. CASE mem' = mem
    BY <1>0, <1>1, <1>2, StillKept
  <1>3. CASE CanDelete(mem, id) /\ mem' = DeleteSubvol(mem, id)
    <2>1. id # up.root /\ id # mem.names[n]
      BY <1>0, <1>3, NewestStays DEF CanDelete
    <2>2. /\ mem'.names = [m \in Names |-> IF mem.names[m] = id THEN NoId ELSE mem.names[m]]
          /\ mem'.next = mem.next
          /\ mem'.image = [mem.image EXCEPT ![id] = NoImage]
      BY <1>0, <1>3 DEF DeleteSubvol, Volumes
    <2>3. mem'.names[n] = mem.names[n] /\ mem'.names[Root] = mem.names[Root]
      BY <1>0, <2>1, <2>2
    <2>4. /\ mem'.image[mem.names[n]] = mem.image[mem.names[n]]
          /\ mem'.image[mem.names[Root]] = mem.image[mem.names[Root]]
          /\ mem'.image[up.root] = mem.image[up.root]
      BY <1>0, <2>1, <2>2 DEF Volumes
    <2>5. /\ Bound(mem, n) /\ n # Root /\ mem.names[n] + 1 = mem.next
          /\ disk.names[n] = mem.names[n]
          /\ mem.image[mem.names[n]] = mem.image[mem.names[Root]]
          /\ disk.image[mem.names[n]] = mem.image[mem.names[n]]
          /\ disk.image[up.root] = mem.image[up.root]
      BY <1>0 DEF Kept
    <2>6. mem'.next = mem.next
      BY <2>2
    <2> HIDE DEF n, id
    <2> QED
      BY <1>1, <2>3, <2>4, <2>5, <2>6 DEF Kept, Bound
  <1> QED
    BY <1>2, <1>3 DEF DeleteById

\* Every step of the command keeps what it has kept.
LEMMA KeepCommandStep ==
    ASSUME KeepInv, NEW p \in Procs, CommandStart(p) \/ CommandStep(p)
    PROVE  Keeping(p)'
  <1>0. /\ proc \in [Procs -> CommandType] /\ up' = up /\ Keeping(p) /\ TypeInv
    BY RootInvTypes, CommandChanges DEF KeepInv, RetainInv, RootInv
  <1>1. ASSUME NEW pc, Goto(p, pc)
        PROVE  proc'[p].pc = pc /\ proc'[p].name = proc[p].name
    BY <1>0, <1>1 DEF Goto, CommandType
  <1>2. ASSUME proc'[p].pc \notin KeptPC PROVE Keeping(p)'
    BY <1>2 DEF Keeping, KeptPC
  <1>3. ASSUME proc[p].pc \in KeptPC, mem' = mem, disk' = disk,
               proc'[p].name = proc[p].name,
               proc'[p].pc \in {"evList", "evLookup", "evDelete"} => MaxSnapshots > 0
        PROVE  Keeping(p)'
    BY <1>0, <1>3, StillKept DEF Keeping
  <1>4. CASE CommandStart(p)
    <2>1. proc'[p].pc \in {"rbMount", "snMount", "snNotBtrfs", "dlLookup", "lsMount", "lgMount"}
      BY <1>0, <1>4 DEF CommandStart, RollbackStart, ResolveArgument, CreateStart,
         SnapshotCreate, Start, DeleteStart, DeleteArgument, ListStart, LegacyStart, Idle
    <2> QED
      BY <1>2, <2>1 DEF KeptPC
  <1>5. CASE \/ RollbackExit(p) \/ SnapshotExit(p) \/ (\E r \in Revs : Transaction(p, r))
    <2>1. proc' = [proc EXCEPT ![p] = Idle]
      BY <1>5 DEF RollbackExit, SnapshotExit, Transaction
    <2>2. proc'[p].pc = "idle"
      BY <1>0, <2>1 DEF Idle
    <2> QED
      BY <1>2, <2>2 DEF KeptPC
  <1>6. CASE LookUpNewRoot(p)
    <2>1. proc'[p].pc \in {"rbSetDefault", "rbUndo"}
      BY <1>0, <1>6 DEF LookUpNewRoot, Goto, CommandType
    <2> QED
      BY <1>2, <2>1 DEF KeptPC
  <1>7. CASE \/ MountToplevel(p) \/ VerifySnapshot(p) \/ SwapNames(p) \/ SetDefaultSubvol(p)
             \/ UndoSwap(p) \/ SyncFilesystem(p) \/ UnmountToplevel(p)
    <2>1. PICK pc \in RollbackPC : Goto(p, pc)
      BY <1>7 DEF MountToplevel, Mount, VerifySnapshot, SwapNames, SetDefaultSubvol,
         UndoSwap, SyncFilesystem, UnmountToplevel, Unmount, RollbackPC
    <2>2. proc'[p].pc \in RollbackPC
      BY <1>1, <2>1
    <2> QED
      BY <1>2, <2>2 DEF RollbackPC, KeptPC
  <1>8. CASE SnapshotMount(p) \/ SnapshotList(p) \/ RenameLegacy(p)
    <2>1. PICK pc \in SnapshotPC \ KeptPC : Goto(p, pc)
      BY <1>8 DEF SnapshotMount, Mount, SnapshotList, RenameLegacy, Unmount, SnapshotPC, KeptPC
    <2>2. proc'[p].pc = pc
      BY <1>1, <2>1
    <2> QED
      BY <1>2, <2>1, <2>2
  <1>9. CASE TakeOrKeep(p)
    <2>1. CASE /\ CanSnapshot(mem, Root, proc[p].name)
               /\ mem' = TakeSnapshot(mem, Root, proc[p].name)
               /\ disk' = mem' /\ Goto(p, "snReleaseNew")
      <3>1. Kept(p)' /\ proc'[p].pc = "snReleaseNew"
        BY <1>0, <1>1, <2>1, SnapshotIsKept
      <3> QED
        BY <3>1 DEF Keeping
    <2>2. CASE Goto(p, "snReleaseOld") \/ Goto(p, "snReleaseFailed")
      <3>1. proc'[p].pc \in {"snReleaseOld", "snReleaseFailed"}
        BY <1>1, <2>2
      <3> QED
        BY <1>2, <3>1 DEF KeptPC
    <2> QED
      BY <1>9, <2>1, <2>2 DEF TakeOrKeep
  <1>10. CASE SnapshotRelease(p)
    <2>1. CASE At(p, "snReleaseNew") /\ Goto(p, "snLookupNew")
      <3>1. /\ proc'[p].pc = "snLookupNew" /\ proc'[p].name = proc[p].name
            /\ mem' = mem /\ disk' = disk /\ proc[p].pc \in KeptPC
        BY <1>1, <1>10, <2>1 DEF SnapshotRelease, At, KeptPC
      <3> QED
        BY <1>3, <3>1
    <2>2. CASE Goto(p, "snLookupOld") \/ Goto(p, "snFailed")
      <3>1. proc'[p].pc \in {"snLookupOld", "snFailed"}
        BY <1>1, <2>2
      <3> QED
        BY <1>2, <3>1 DEF KeptPC
    <2> QED
      BY <1>10, <2>1, <2>2 DEF SnapshotRelease, Unmount
  <1>11. CASE SnapshotLookup(p)
    <2>1. CASE /\ At(p, "snLookupNew")
               /\ (Goto(p, "evList") /\ MaxSnapshots > 0) \/ Goto(p, "snDone")
      <3>1. /\ proc'[p].pc \in {"evList", "snDone"} /\ proc'[p].name = proc[p].name
            /\ proc'[p].pc = "evList" => MaxSnapshots > 0
            /\ mem' = mem /\ disk' = disk /\ proc[p].pc \in KeptPC
        BY <1>1, <1>11, <2>1 DEF SnapshotLookup, At, KeptPC
      <3> QED
        BY <1>3, <3>1
    <2>2. CASE Goto(p, "snExisted") \/ Goto(p, "snFailed")
      <3>1. proc'[p].pc \in {"snExisted", "snFailed"}
        BY <1>1, <2>2
      <3> QED
        BY <1>2, <3>1 DEF KeptPC
    <2> QED
      BY <1>11, <2>1, <2>2 DEF SnapshotLookup
  <1>12. CASE RetainList(p)
    <2>1. /\ proc'[p].pc \in {"evLookup", "snDone"} /\ proc'[p].name = proc[p].name
          /\ mem' = mem /\ disk' = disk /\ proc[p].pc = "evList"
      BY <1>0, <1>12 DEF RetainList, Goto, At, CommandType
    <2> QED
      BY <1>0, <1>3, <2>1 DEF Keeping, KeptPC
  <1>13. CASE DeleteLookup(p)
    <2>1. CASE At(p, "dlLookup")
      <3>1. proc'[p].pc \in {"dlDelete", "dlFailed"}
        BY <1>0, <1>13, <2>1 DEF DeleteLookup, Finish, At, CommandType
      <3> QED
        BY <1>2, <3>1 DEF KeptPC
    <2>2. CASE At(p, "evLookup")
      <3>1. /\ proc'[p].name = proc[p].name /\ mem' = mem /\ disk' = disk
            /\ proc[p].pc = "evLookup"
        BY <1>0, <1>13, <2>2 DEF DeleteLookup, Finish, At, CommandType
      <3> QED
        BY <1>0, <1>3, <3>1 DEF Keeping, KeptPC
    <2> QED
      BY <1>13, <2>1, <2>2 DEF DeleteLookup
  <1>14. CASE DeleteById(p)
    <2>1. CASE At(p, "dlDelete")
      <3>1. proc'[p].pc \in {"dlDone", "dlFailed"}
        BY <1>0, <1>14, <2>1 DEF DeleteById, Finish, At, CommandType
      <3> QED
        BY <1>2, <3>1 DEF KeptPC
    <2>2. CASE At(p, "evDelete")
      <3>1. Kept(p)' /\ MaxSnapshots > 0
        BY <1>0, <1>14, <2>2, EvictionKeeps DEF Keeping, At
      <3> QED
        BY <3>1 DEF Keeping
    <2> QED
      BY <1>14, <2>1, <2>2 DEF DeleteById
  <1> QED
    BY <1>4, <1>5, <1>6, <1>7, <1>8, <1>9, <1>10, <1>11, <1>12, <1>13, <1>14
       DEF CommandStep, RollbackStep, SnapshotStep

\* Every step of one command at a time keeps the invariant.
LEMMA KeepStep ==
    ASSUME \A p, q \in Procs : p = q, KeepInv, [LifecycleNext]_vars
    PROVE  KeepInv'
  <1>0. RetainInv'
    BY RetainStep DEF KeepInv
  <1>1. ASSUME NEW p \in Procs, CommandStart(p) \/ CommandStep(p)
        PROVE  KeepInv'
    <2>1. PlainFstabs(mem') /\ (disk' = disk \/ disk' = mem')
      BY <1>1, CommandChanges, ChangesKeepFstabs DEF KeepInv, RetainInv
    <2>2. PlainFstabs(mem)' /\ PlainFstabs(disk)'
      BY <2>1 DEF KeepInv, PlainFstabs
    <2>3. \A q \in Procs : Keeping(q)'
      BY <1>1, KeepCommandStep
    <2> QED
      BY <1>0, <2>2, <2>3 DEF KeepInv
  <1>2. CASE Environment \/ UNCHANGED vars
    <2>1. mem' \in {mem, disk} /\ disk' \in {mem, disk}
      BY <1>2 DEF Environment, Commit, Kill, PowerLoss, Reboot, vars
    <2>2. PlainFstabs(mem)' /\ PlainFstabs(disk)'
      BY <2>1 DEF KeepInv, PlainFstabs
    <2>3. ASSUME NEW q \in Procs PROVE Keeping(q)'
      <3>1. CASE proc'[q] = Idle
        BY <3>1 DEF Keeping, KeptPC, Idle
      <3>2. CASE proc'[q] = proc[q] /\ mem' = mem /\ up' = up /\ disk' \in {disk, mem}
        BY <3>2, StillKept DEF KeepInv, Keeping
      <3>3. CASE PowerLoss
        BY <3>1, <3>3 DEF PowerLoss
      <3>4. CASE Reboot
        BY <3>4 DEF Reboot, At, Keeping, KeptPC
      <3>5. CASE Commit \/ (\E p \in Procs : Kill(p)) \/ UNCHANGED vars
        <4>1. proc'[q] \in {proc[q], Idle}
          BY <1>2, EnvironmentMoves DEF KeepInv, RetainInv, RootInv
        <4> QED
          BY <3>1, <3>2, <3>5, <4>1 DEF Commit, Kill, vars
      <3> QED
        BY <1>2, <3>3, <3>4, <3>5 DEF Environment
    <2> QED
      BY <1>0, <2>2, <2>3 DEF KeepInv
  <1> QED
    BY <1>1, <1>2 DEF LifecycleNext

\* A step that changes the running root after a snapshot has been made is the
\* transaction of an automatic one.
LEMMA OnlyTransactions ==
    ASSUME \A p, q \in Procs : p = q, KeepInv, [LifecycleNext]_vars,
           NEW p \in Procs, At(p, "snDone"), mem'.image[up.root] # mem.image[up.root]
    PROVE  proc[p].name \in AutoNames
  <1>1. ~PowerLoss
    <2>1. Kept(p)
      BY DEF KeepInv, Keeping, KeptPC, At
    <2> QED
      BY <2>1 DEF Kept, PowerLoss
  <1>2. PICK q \in Procs : CommandStart(q) \/ CommandStep(q)
    BY <1>1 DEF LifecycleNext, Environment, Commit, Kill, Reboot, vars
  <1>3. q = p
    BY <1>2
  <1>4. ~CommandStart(p)
    BY DEF CommandStart, RollbackStart, ResolveArgument, CreateStart, SnapshotCreate,
       Start, DeleteStart, DeleteArgument, ListStart, LegacyStart, At
  <1>5. ~RollbackStep(p)
    BY DEF RollbackStep, MountToplevel, VerifySnapshot, SwapNames, LookUpNewRoot,
       SetDefaultSubvol, UndoSwap, SyncFilesystem, UnmountToplevel, RollbackExit, At
  <1>6. ~SnapshotStep(p)
    <2>1. ~SnapshotExit(p)
      BY DEF SnapshotExit
    <2> QED
      BY <2>1 DEF SnapshotStep, SnapshotMount, TakeOrKeep, SnapshotRelease, SnapshotLookup,
         RetainList, DeleteLookup, DeleteById, SnapshotList, RenameLegacy, At
  <1> QED
    BY <1>2, <1>3, <1>4, <1>5, <1>6 DEF CommandStep, Transaction

\* When commands run one at a time, a transaction that the plugin let through
\* after a new snapshot changes nothing that is not held by another subvolume,
\* on disk, whatever retention has evicted, whatever is cut off when.
THEOREM TransactionsCanBeTakenBack ==
    ASSUME \A p, q \in Procs : p = q,
           \A v \in StartVolumes : /\ Root \in v.image[v.names[Root]].mounts
                                   /\ PlainFstabs(v)
    PROVE  LifecycleSpec => TransactionCanBeTakenBack
  <1> DEFINE A == \A p \in Procs :
                     /\ At(p, "snDone")
                     /\ mem'.image[up.root] # mem.image[up.root]
                     /\ mem.names[Root] = up.root
                     => \E n \in Entries(disk) :
                           /\ n \notin Protected
                           /\ disk.names[n] # up.root
                           /\ disk.image[disk.names[n]] = mem.image[up.root]
  <1>1. Init => KeepInv
    <2> SUFFICES ASSUME Init PROVE KeepInv
      OBVIOUS
    <2>1. RootInv
      BY RootInit
    <2>2. \A p \in Procs : Retaining(p) /\ Keeping(p)
      BY DEF Init, Idle, Retaining, Keeping, KeptPC
    <2>3. PlainFstabs(mem) /\ PlainFstabs(disk)
      BY DEF Init
    <2> QED
      BY <2>1, <2>2, <2>3 DEF KeepInv, RetainInv
  <1>2. KeepInv /\ [LifecycleNext]_vars => KeepInv'
    BY KeepStep
  <1>3. KeepInv /\ [LifecycleNext]_vars => A
    <2>1. SUFFICES ASSUME KeepInv, [LifecycleNext]_vars, NEW p \in Procs, At(p, "snDone"),
                          mem'.image[up.root] # mem.image[up.root],
                          mem.names[Root] = up.root
                   PROVE  \E n \in Entries(disk) :
                             /\ n \notin Protected
                             /\ disk.names[n] # up.root
                             /\ disk.image[disk.names[n]] = mem.image[up.root]
      OBVIOUS
    <2> DEFINE n == proc[p].name
    <2>2. n \in AutoNames /\ n \in Names /\ Root \in Names /\ up.root \in Ids
      BY <2>1, OnlyTransactions, RootInvTypes DEF KeepInv, RetainInv
    <2>3. Kept(p) /\ Sound(mem) /\ PlainFstabs(mem)
      BY <2>1 DEF KeepInv, Keeping, KeptPC, RetainInv, RootInv, At
    <2>4. n \notin Protected
      BY <2>2, <2>3 DEF PlainFstabs, Protected
    <2>5. disk.names[n] # up.root /\ n \in Entries(disk)
      BY <2>1, <2>2, <2>3 DEF Kept, Sound, OneNamePerSubvolume, Entries, Bound
    <2>6. disk.image[disk.names[n]] = mem.image[up.root]
      BY <2>1, <2>3 DEF Kept
    <2> QED
      BY <2>4, <2>5, <2>6
  <1>4. LifecycleSpec => [][A]_vars
    <2> HIDE DEF A
    <2> QED
      BY <1>1, <1>2, <1>3, PTL DEF LifecycleSpec
  <1> QED
    BY <1>4 DEF TransactionCanBeTakenBack

=============================================================================
