-------------------------- MODULE Rollback_proofs --------------------------
(***************************************************************************)
(* Proofs about Rollback for every set of names, of processes and of       *)
(* faults, and for every start.                                            *)
(***************************************************************************)
EXTENDS Rollback, FiniteSetTheorems, TLAPS

-----------------------------------------------------------------------------
(* What the operations do to a volume.                                     *)

\* Exchange only touches the two names, and leaves every name bound or unbound
\* as it was if both were bound.
LEMMA ExchangeFacts ==
    ASSUME NEW v \in Volumes, NEW a \in Names, NEW b \in Names
    PROVE  /\ Exchange(v, a, b) \in Volumes
           /\ Exchange(v, a, b).default = v.default
           /\ Exchange(v, a, b).next = v.next
           /\ Exchange(v, a, b).image = v.image
           /\ Exchange(v, a, b).names[a] = v.names[b]
           /\ Exchange(v, a, b).names[b] = v.names[a]
           /\ \A n \in Names \ {a, b} : Exchange(v, a, b).names[n] = v.names[n]
  BY DEF Exchange, Volumes

\* set-default changes the default subvolume and nothing else.
LEMMA SetDefaultFacts ==
    ASSUME NEW v \in Volumes, NEW id \in Ids \cup {NoId}
    PROVE  /\ SetDefault(v, id) \in Volumes
           /\ SetDefault(v, id).default = id
           /\ SetDefault(v, id).names = v.names
           /\ SetDefault(v, id).next = v.next
           /\ SetDefault(v, id).image = v.image
  BY DEF SetDefault, Volumes

-----------------------------------------------------------------------------
(* Typing.                                                                 *)

UpType == [root : Ids, grub : Ids \cup {NoId}, mounted : SUBSET Ids]

ProcType == [pc   : RollbackPC \cup {"idle"},
             name : Names,
             id   : Ids \cup {NoId},
             todo : {{}}]

\* What a boot finds has the type of up.
LEMMA BootTyped ==
    ASSUME NEW v \in Volumes, Bound(v, Root)
    PROVE  Boot(v) \in UpType
  <1>1. v.names[Root] \in Ids /\ v.default \in Ids \cup {NoId}
    BY VolumeAssumption DEF Bound, Volumes
  <1> QED
    BY <1>1 DEF Boot, UpType

\* An idle process has the type of a process.
LEMMA IdleTyped == Idle \in ProcType
  BY VolumeAssumption DEF Idle, ProcType

\* The initial states are typed.
LEMMA InitTyped == Init => RollbackTypeOK
  <1> SUFFICES ASSUME Init PROVE RollbackTypeOK
    OBVIOUS
  <1>1. mem \in Volumes /\ Bound(mem, Root)
    BY VolumeAssumption DEF Init, WellFormed
  <1>2. up \in UpType
    BY <1>1, BootTyped DEF Init
  <1>3. toplevel \in 0..MountLimit
    BY VolumeAssumption DEF Init
  <1> QED
    BY <1>1, <1>2, <1>3, IdleTyped DEF Init, RollbackTypeOK, UpType, ProcType

\* The two ways a step changes the record of its process.
LEMMA GotoTyped ==
    ASSUME proc \in [Procs -> ProcType], NEW p \in Procs,
           NEW pc \in RollbackPC \cup {"idle"}, Goto(p, pc)
    PROVE  /\ proc' \in [Procs -> ProcType]
           /\ proc'[p].pc = pc
           /\ proc'[p].name = proc[p].name
           /\ proc'[p].id = proc[p].id
           /\ \A q \in Procs \ {p} : proc'[q] = proc[q]
  BY DEF Goto, ProcType

\* Mounting and unmounting keep the count in its range.
LEMMA MountTyped ==
    ASSUME toplevel \in 0..MountLimit, NEW p \in Procs, NEW ok, NEW failed,
           Mount(p, ok, failed)
    PROVE  toplevel' \in 0..MountLimit
  BY VolumeAssumption DEF Mount

\* An umount keeps the count of mounts in its range.
LEMMA UnmountTyped ==
    ASSUME toplevel \in 0..MountLimit, NEW p \in Procs, NEW next, Unmount(p, next)
    PROVE  toplevel' \in 0..MountLimit
  BY VolumeAssumption DEF Unmount

-----------------------------------------------------------------------------
(* The invariant that needs no assumption about who runs at the same time:  *)
(* rollbacks permute the names of the volume, on the running system and on  *)
(* disk, and do nothing else to it.                                         *)

Permuted(v, w) ==
    /\ \A n \in Names : Bound(v, n) <=> Bound(w, n)
    /\ \A id \in Ids : Holds(v, id) <=> Holds(w, id)
    /\ v.image = w.image

Lawful ==
    /\ Bound(mem, Root)
    /\ OneNamePerSubvolume(mem)
    /\ OneNamePerSubvolume(disk)
    /\ Permuted(mem, disk)
    /\ Holds(mem, up.root)

BaseInv == RollbackTypeOK /\ Lawful

\* Permuting names twice permutes them.
LEMMA PermutedTransitive ==
    ASSUME NEW u, NEW v, NEW w, Permuted(u, v), Permuted(v, w)
    PROVE  Permuted(u, w) /\ Permuted(w, u)
  BY DEF Permuted

\* An exchange permutes names, with nothing lost and nothing shared.
LEMMA ExchangePermutes ==
    ASSUME NEW v \in Volumes, NEW a \in Names, NEW b \in Names,
           Bound(v, a), Bound(v, b), OneNamePerSubvolume(v)
    PROVE  /\ OneNamePerSubvolume(Exchange(v, a, b))
           /\ Permuted(v, Exchange(v, a, b))
  <1> DEFINE w == Exchange(v, a, b)
  <1>1. /\ w.names[a] = v.names[b]
        /\ w.names[b] = v.names[a]
        /\ \A n \in Names \ {a, b} : w.names[n] = v.names[n]
        /\ w.image = v.image
    BY ExchangeFacts
  <1> HIDE DEF w
  <1>2. OneNamePerSubvolume(w)
    BY <1>1 DEF OneNamePerSubvolume, Bound
  <1>3. \A n \in Names : Bound(v, n) <=> Bound(w, n)
    BY <1>1 DEF Bound
  <1>4. \A id \in Ids : Holds(v, id) <=> Holds(w, id)
    BY <1>1 DEF Holds, Bound
  <1> QED
    BY <1>1, <1>2, <1>3, <1>4 DEF w, Permuted

\* A step that leaves the volume alone and moves the process along.
LEMMA QuietStep ==
    ASSUME BaseInv, UNCHANGED <<mem, disk, up>>,
           toplevel' \in 0..MountLimit, proc' \in [Procs -> ProcType]
    PROVE  BaseInv'
  BY DEF BaseInv, RollbackTypeOK, ProcType, Lawful, Permuted, Holds, Bound,
         OneNamePerSubvolume

\* A step that exchanges two names on the running volume.
LEMMA ExchangeStep ==
    ASSUME BaseInv, NEW n \in Names, CanExchange(n),
           mem' = Exchange(mem, Root, n), UNCHANGED <<disk, up, toplevel>>,
           proc' \in [Procs -> ProcType]
    PROVE  BaseInv'
  <1>1. mem' \in Volumes
    BY ExchangeFacts, VolumeAssumption DEF BaseInv, RollbackTypeOK
  <1>2. OneNamePerSubvolume(mem') /\ Permuted(mem, mem')
    BY ExchangePermutes, VolumeAssumption
       DEF BaseInv, RollbackTypeOK, Lawful, CanExchange
  <1>3. Permuted(mem', disk)
    BY <1>2, PermutedTransitive DEF BaseInv, Lawful, Permuted
  <1>4. Bound(mem', Root) /\ Holds(mem', up.root)
    BY <1>2, VolumeAssumption
       DEF BaseInv, RollbackTypeOK, Lawful, Permuted
  <1>5. RollbackTypeOK'
    BY <1>1 DEF BaseInv, RollbackTypeOK, ProcType
  <1> QED
    BY <1>2, <1>3, <1>4, <1>5 DEF BaseInv, Lawful, Bound, Holds, Permuted,
         OneNamePerSubvolume

\* A boot of a volume that is a permutation of the running one.
LEMMA BootStep ==
    ASSUME BaseInv, NEW v \in {mem, disk}, mem' = v, disk' = v, up' = Boot(v),
           toplevel' \in 0..MountLimit, proc' \in [Procs -> ProcType]
    PROVE  BaseInv'
  <1>1. v \in Volumes /\ OneNamePerSubvolume(v) /\ Bound(v, Root)
    BY VolumeAssumption DEF BaseInv, RollbackTypeOK, Lawful, Permuted
  <1>2. up' \in UpType /\ up'.root = v.names[Root]
    BY <1>1, BootTyped DEF Boot
  <1>3. Holds(v, v.names[Root])
    BY <1>1, VolumeAssumption DEF Holds, Bound
  <1> QED
    BY <1>1, <1>2, <1>3 DEF BaseInv, RollbackTypeOK, UpType, ProcType, Lawful,
         Permuted, Holds, Bound, OneNamePerSubvolume

\* Every step keeps the invariant.
LEMMA BaseStep == BaseInv /\ [RollbackNext]_vars => BaseInv'
  <1> SUFFICES ASSUME BaseInv, [RollbackNext]_vars
               PROVE  BaseInv'
    OBVIOUS
  <1> USE VolumeAssumption
  <1>0. /\ proc \in [Procs -> ProcType]
        /\ toplevel \in 0..MountLimit
        /\ mem \in Volumes
        /\ disk \in Volumes
    BY DEF BaseInv, RollbackTypeOK, ProcType
  <1>1. ASSUME NEW p \in Procs, NEW n \in Names, ResolveArgument(p, n)
        PROVE  BaseInv'
    <2>1. [Idle EXCEPT !.pc = "rbMount", !.name = n] \in ProcType
      BY DEF Idle, ProcType, RollbackPC
    <2>2. proc' \in [Procs -> ProcType]
      BY <1>0, <1>1, <2>1 DEF ResolveArgument
    <2> QED
      BY <1>0, <1>1, <2>2, QuietStep DEF ResolveArgument
  <1>2. ASSUME NEW p \in Procs, MountToplevel(p)
        PROVE  BaseInv'
    <2>1. proc' \in [Procs -> ProcType]
      BY <1>0, <1>2, GotoTyped DEF MountToplevel, Mount, RollbackPC
    <2>2. toplevel' \in 0..MountLimit
      BY <1>0, <1>2, MountTyped DEF MountToplevel
    <2> QED
      BY <1>2, <2>1, <2>2, QuietStep DEF MountToplevel
  <1>3. ASSUME NEW p \in Procs, VerifySnapshot(p)
        PROVE  BaseInv'
    <2>1. proc' \in [Procs -> ProcType]
      BY <1>0, <1>3, GotoTyped DEF VerifySnapshot, RollbackPC
    <2> QED
      BY <1>0, <1>3, <2>1, QuietStep DEF VerifySnapshot
  <1>4. ASSUME NEW p \in Procs, SwapNames(p)
        PROVE  BaseInv'
    <2>1. proc' \in [Procs -> ProcType] /\ proc[p].name \in Names
      BY <1>0, <1>4, GotoTyped DEF SwapNames, RollbackPC, ProcType
    <2>2. CASE UNCHANGED mem
      BY <1>0, <1>4, <2>1, <2>2, QuietStep DEF SwapNames
    <2>3. CASE CanExchange(proc[p].name) /\ mem' = Exchange(mem, Root, proc[p].name)
      BY <1>4, <2>1, <2>3, ExchangeStep DEF SwapNames
    <2> QED
      BY <1>4, <2>2, <2>3 DEF SwapNames
  <1>5. ASSUME NEW p \in Procs, LookUpNewRoot(p)
        PROVE  BaseInv'
    <2>1. proc' \in [Procs -> ProcType]
      <3>1. CASE Goto(p, "rbUndo")
        BY <1>0, <3>1, GotoTyped DEF RollbackPC
      <3>2. CASE proc' = [proc EXCEPT ![p].pc = "rbSetDefault",
                                      ![p].id = mem.names[Root]]
        <4>1. mem.names[Root] \in Ids \cup {NoId}
          BY <1>0 DEF Volumes
        <4>2. [proc[p] EXCEPT !.pc = "rbSetDefault", !.id = mem.names[Root]] \in ProcType
          BY <1>0, <4>1 DEF RollbackPC, ProcType
        <4> QED
          BY <1>0, <3>2, <4>2
      <3> QED
        BY <1>5, <3>1, <3>2 DEF LookUpNewRoot
    <2> QED
      BY <1>0, <1>5, <2>1, QuietStep DEF LookUpNewRoot
  <1>6. ASSUME NEW p \in Procs, SetDefaultSubvol(p)
        PROVE  BaseInv'
    <2>1. proc' \in [Procs -> ProcType] /\ proc[p].id \in Ids \cup {NoId}
      BY <1>0, <1>6, GotoTyped DEF SetDefaultSubvol, RollbackPC, ProcType
    <2>2. CASE UNCHANGED mem
      BY <1>0, <1>6, <2>1, <2>2, QuietStep DEF SetDefaultSubvol
    <2>3. CASE mem' = SetDefault(mem, proc[p].id)
      <3>1. mem' \in Volumes /\ mem'.names = mem.names /\ mem'.image = mem.image
        BY <1>0, <2>1, <2>3, SetDefaultFacts
      <3> QED
        BY <1>0, <1>6, <2>1, <3>1 DEF SetDefaultSubvol, BaseInv, RollbackTypeOK,
             ProcType, Lawful, Permuted, Holds, Bound, OneNamePerSubvolume
    <2> QED
      BY <1>6, <2>2, <2>3 DEF SetDefaultSubvol
  <1>7. ASSUME NEW p \in Procs, UndoSwap(p)
        PROVE  BaseInv'
    <2>1. proc' \in [Procs -> ProcType] /\ proc[p].name \in Names
      BY <1>0, <1>7, GotoTyped DEF UndoSwap, RollbackPC, ProcType
    <2>2. CASE UNCHANGED mem
      BY <1>0, <1>7, <2>1, <2>2, QuietStep DEF UndoSwap
    <2>3. CASE CanExchange(proc[p].name) /\ mem' = Exchange(mem, Root, proc[p].name)
      BY <1>7, <2>1, <2>3, ExchangeStep DEF UndoSwap
    <2> QED
      BY <1>7, <2>2, <2>3 DEF UndoSwap
  <1>8. ASSUME NEW p \in Procs, SyncFilesystem(p)
        PROVE  BaseInv'
    <2>1. proc' \in [Procs -> ProcType]
      BY <1>0, <1>8, GotoTyped DEF SyncFilesystem, RollbackPC
    <2> QED
      BY <1>0, <1>8, <2>1 DEF SyncFilesystem, BaseInv, RollbackTypeOK,
           ProcType, Lawful, Permuted, Holds, Bound, OneNamePerSubvolume
  <1>9. ASSUME NEW p \in Procs, UnmountToplevel(p)
        PROVE  BaseInv'
    <2>1. proc' \in [Procs -> ProcType]
      BY <1>0, <1>9, GotoTyped DEF UnmountToplevel, Unmount, RollbackPC
    <2>2. toplevel' \in 0..MountLimit
      BY <1>0, <1>9, UnmountTyped DEF UnmountToplevel
    <2> QED
      BY <1>9, <2>1, <2>2, QuietStep DEF UnmountToplevel
  <1>10. ASSUME NEW p \in Procs, RollbackExit(p) \/ Kill(p)
         PROVE  BaseInv'
    <2>1. proc' \in [Procs -> ProcType]
      BY <1>0, <1>10, IdleTyped DEF RollbackExit, Kill
    <2> QED
      BY <1>0, <1>10, <2>1, QuietStep DEF RollbackExit, Kill
  <1>11. CASE Commit
    BY <1>0, <1>11 DEF Commit, BaseInv, RollbackTypeOK, ProcType, Lawful,
         Permuted, Holds, Bound, OneNamePerSubvolume
  <1>12. CASE PowerLoss
    <2>1. proc' \in [Procs -> ProcType] /\ toplevel' \in 0..MountLimit
      BY <1>12, IdleTyped DEF PowerLoss
    <2> QED
      BY <1>12, <2>1, BootStep DEF PowerLoss
  <1>13. CASE Reboot
    <2>1. proc' \in [Procs -> ProcType] /\ toplevel' \in 0..MountLimit
      BY <1>0, <1>13 DEF Reboot
    <2> QED
      BY <1>13, <2>1, BootStep DEF Reboot
  <1>14. CASE UNCHANGED vars
    BY <1>0, <1>14, QuietStep DEF vars
  <1> QED
    BY <1>1, <1>2, <1>3, <1>4, <1>5, <1>6, <1>7, <1>8, <1>9, <1>10, <1>11,
       <1>12, <1>13, <1>14
       DEF RollbackNext, RollbackStart, RollbackStep, Environment

\* The invariant holds at the start.
LEMMA BaseInit == Init => BaseInv
  BY InitTyped, VolumeAssumption
     DEF Init, BaseInv, Lawful, WellFormed, Permuted, Holds, Bound, Boot

\* Every variable keeps its type, whatever the processes, faults and mounts.
THEOREM RollbackTyping == RollbackSpec => []RollbackTypeOK
  <1>1. BaseInv => RollbackTypeOK
    BY DEF BaseInv
  <1> QED
    BY <1>1, BaseInit, BaseStep, PTL DEF RollbackSpec

\* No rollback, finished or interrupted, alone or next to others, leaves the
\* running kernel or the next boot without a root, or two names with one
\* subvolume.
THEOREM RootAlwaysBound == RollbackSpec => []RootBound
  <1>1. BaseInv => RootBound
    BY VolumeAssumption DEF BaseInv, Lawful, RootBound, Permuted
  <1> QED
    BY <1>1, BaseInit, BaseStep, PTL DEF RollbackSpec

\* The subvolume the system runs from is never lost by rollbacks: it has a name
\* on the running volume and on disk, before and after any crash.
THEOREM RunningRootNeverLost == RollbackSpec => []RunningRootKept
  <1>1. BaseInv => RunningRootKept
    BY DEF BaseInv, RollbackTypeOK, Lawful, RunningRootKept, Permuted
  <1> QED
    BY <1>1, BaseInit, BaseStep, PTL DEF RollbackSpec

-----------------------------------------------------------------------------
(* Mounts are counted: with finitely many processes there is a mount for   *)
(* each one that works through the mount point, however many are stacked.  *)

MountInv == BaseInv /\ MountBacked

\* The holders of the mount point.
Holders == {p \in Procs : RollbackHolds(p)}

\* The sets of holders are finite, before and after a step.
LEMMA HoldersFinite ==
    ASSUME IsFiniteSet(Procs)
    PROVE  /\ IsFiniteSet(Holders) /\ IsFiniteSet(Holders')
           /\ Cardinality(Holders) \in Nat /\ Cardinality(Holders') \in Nat
  <1>1. Holders \in SUBSET Procs /\ Holders' \in SUBSET Procs
    BY DEF Holders
  <1>2. IsFiniteSet(Holders) /\ IsFiniteSet(Holders')
    BY <1>1, FS_Subset
  <1> QED
    BY <1>2, FS_CardinalityType

\* A step that adds no holder and takes no mount away.
LEMMA NoHolderAdded ==
    ASSUME IsFiniteSet(Procs), MountInv, Holders' \subseteq Holders,
           toplevel' \in Nat, toplevel' >= toplevel
    PROVE  MountBacked'
  <1>1. Cardinality(Holders') <= Cardinality(Holders)
    BY HoldersFinite, FS_Subset
  <1> QED
    BY <1>1, HoldersFinite, VolumeAssumption
       DEF MountInv, MountBacked, Holders, BaseInv, RollbackTypeOK

\* A mount makes one process a holder.
LEMMA HolderAdded ==
    ASSUME IsFiniteSet(Procs), MountInv, NEW p \in Procs,
           Holders' \subseteq Holders \cup {p}, toplevel' = toplevel + 1
    PROVE  MountBacked'
  <1>1. /\ IsFiniteSet(Holders \cup {p})
        /\ Cardinality(Holders \cup {p}) <= Cardinality(Holders) + 1
    <2>1. IsFiniteSet(Holders) /\ Cardinality(Holders) \in Nat
      BY HoldersFinite
    <2>2. /\ IsFiniteSet(Holders \cup {p})
          /\ \/ Cardinality(Holders \cup {p}) = Cardinality(Holders)
             \/ Cardinality(Holders \cup {p}) = Cardinality(Holders) + 1
      BY <2>1, FS_AddElement, Zenon
    <2> QED
      BY <2>1, <2>2
  <1>2. Cardinality(Holders') <= Cardinality(Holders \cup {p})
    BY <1>1, FS_Subset
  <1>3. Cardinality(Holders \cup {p}) \in Nat
    BY <1>1, FS_CardinalityType
  <1> QED
    BY <1>1, <1>2, <1>3, HoldersFinite, VolumeAssumption
       DEF MountInv, MountBacked, Holders, BaseInv, RollbackTypeOK

\* An umount by a holder, which then is none.
LEMMA HolderRemoved ==
    ASSUME IsFiniteSet(Procs), MountInv, NEW p \in Holders,
           Holders' \subseteq Holders \ {p},
           toplevel' \in Nat, toplevel' >= toplevel - 1
    PROVE  MountBacked'
  <1>1. /\ IsFiniteSet(Holders \ {p})
        /\ Cardinality(Holders \ {p}) = Cardinality(Holders) - 1
    BY HoldersFinite, FS_RemoveElement
  <1>2. Cardinality(Holders') <= Cardinality(Holders \ {p})
    BY <1>1, FS_Subset
  <1> QED
    BY <1>1, <1>2, HoldersFinite, VolumeAssumption
       DEF MountInv, MountBacked, Holders, BaseInv, RollbackTypeOK

\* A process whose next step is one of a holder's, or none's.
LEMMA HoldersAfterGoto ==
    ASSUME BaseInv, NEW p \in Procs, NEW pc \in RollbackPC \cup {"idle"}, Goto(p, pc)
    PROVE  /\ Holders' \subseteq Holders \cup {p}
           /\ RollbackHolds(p) => Holders' \subseteq Holders
           /\ pc \in {"rbDone", "rbFailed", "rbCritical"} => Holders' \subseteq Holders \ {p}
  <1>1. /\ proc'[p].pc = pc
        /\ \A q \in Procs \ {p} : proc'[q] = proc[q]
    BY GotoTyped DEF BaseInv, RollbackTypeOK, ProcType
  <1> QED
    BY <1>1 DEF Holders, RollbackHolds

\* The types MountBacked needs.
LEMMA MountTypes ==
    ASSUME BaseInv
    PROVE  /\ proc \in [Procs -> ProcType]
           /\ toplevel \in 0..MountLimit /\ toplevel \in Nat
  BY VolumeAssumption DEF BaseInv, RollbackTypeOK, ProcType

\* Every step keeps a mount for each holder.
LEMMA MountStep ==
    ASSUME IsFiniteSet(Procs), MountInv, [RollbackNext]_vars
    PROVE  MountInv'
  <1>0. BaseInv /\ BaseInv' /\ toplevel' \in Nat /\ toplevel \in Nat
    BY BaseStep, VolumeAssumption DEF MountInv, BaseInv, RollbackTypeOK
  <1>1. ASSUME NEW p \in Procs, RollbackStart(p) \/ RollbackExit(p) \/ Kill(p)
        PROVE  Holders' \subseteq Holders /\ toplevel' = toplevel
    <2>1. /\ proc'[p].pc \in {"idle", "rbMount"} /\ toplevel' = toplevel
          /\ \A q \in Procs \ {p} : proc'[q] = proc[q]
      <3>1. CASE RollbackStart(p)
        <4>1. PICK n \in Names : ResolveArgument(p, n)
          BY <3>1 DEF RollbackStart
        <4> QED
          BY <1>0, <4>1, MountTypes DEF ResolveArgument, Idle
      <3>2. CASE RollbackExit(p) \/ Kill(p)
        BY <1>0, <3>2, MountTypes DEF RollbackExit, Kill, Idle
      <3> QED
        BY <1>1, <3>1, <3>2
    <2> QED
      BY <2>1 DEF Holders, RollbackHolds
  <1>2. ASSUME NEW p \in Procs, MountToplevel(p)
        PROVE  MountBacked'
    <2>1. CASE toplevel' = toplevel + 1
      <3>1. Goto(p, "rbVerify") \/ Goto(p, "rbFailed")
        BY <1>2 DEF MountToplevel, Mount
      <3> QED
        BY <1>0, <2>1, <3>1, HoldersAfterGoto, HolderAdded DEF RollbackPC
    <2>2. CASE ~(toplevel' = toplevel + 1)
      <3>1. Goto(p, "rbFailed") /\ toplevel' = toplevel
        BY <1>2, <2>2 DEF MountToplevel, Mount
      <3> QED
        BY <1>0, <3>1, HoldersAfterGoto, NoHolderAdded DEF RollbackPC
    <2> QED
      BY <2>1, <2>2
  <1>3. ASSUME NEW p \in Procs,
               \/ VerifySnapshot(p) \/ SwapNames(p) \/ SetDefaultSubvol(p)
               \/ UndoSwap(p) \/ SyncFilesystem(p)
        PROVE  Holders' \subseteq Holders /\ toplevel' = toplevel
    <2>1. /\ RollbackHolds(p) /\ toplevel' = toplevel
          /\ \E pc \in RollbackPC : Goto(p, pc)
      BY <1>3 DEF VerifySnapshot, SwapNames, SetDefaultSubvol, UndoSwap, SyncFilesystem,
                  At, RollbackHolds, RollbackPC
    <2> QED
      BY <1>0, <2>1, HoldersAfterGoto
  <1>4. ASSUME NEW p \in Procs, LookUpNewRoot(p)
        PROVE  Holders' \subseteq Holders /\ toplevel' = toplevel
    <2>1. /\ \A q \in Procs \ {p} : proc'[q] = proc[q]
          /\ RollbackHolds(p) /\ toplevel' = toplevel
      BY <1>0, <1>4, MountTypes DEF LookUpNewRoot, Goto, At, RollbackHolds
    <2> QED
      BY <2>1 DEF Holders, RollbackHolds
  <1>5. ASSUME NEW p \in Procs, UnmountToplevel(p)
        PROVE  MountBacked'
    <2>1. /\ RollbackHolds(p)
          /\ \E pc \in {"rbDone", "rbFailed", "rbCritical"} : Goto(p, pc)
          /\ toplevel' \in {toplevel, toplevel - 1}
      BY <1>5 DEF UnmountToplevel, Unmount, At, RollbackHolds
    <2>2. p \in Holders /\ Holders' \subseteq Holders \ {p}
      BY <1>0, <2>1, HoldersAfterGoto DEF Holders, RollbackPC
    <2> QED
      BY <1>0, <2>1, <2>2, HolderRemoved
  <1>6. ASSUME PowerLoss \/ Reboot
        PROVE  MountBacked'
    <2>1. Holders' = {} /\ toplevel' = 0
      BY <1>0, <1>6, MountTypes DEF PowerLoss, Reboot, At, Idle, Holders, RollbackHolds
    <2> QED
      BY <2>1, FS_EmptySet DEF Holders, MountBacked
  <1>7. ASSUME Commit \/ UNCHANGED vars
        PROVE  Holders' = Holders /\ toplevel' = toplevel
    BY <1>7 DEF Commit, vars, Holders, RollbackHolds
  <1>8. MountBacked'
    BY <1>0, <1>1, <1>2, <1>3, <1>4, <1>5, <1>6, <1>7, NoHolderAdded
       DEF RollbackNext, RollbackStep, Environment
  <1> QED
    BY <1>0, <1>8 DEF MountInv

\* However many rollbacks run and however many mounts are stacked, no rollback
\* works through a mount point that another one has unmounted under it.
THEOREM MountsBacked ==
    ASSUME IsFiniteSet(Procs)
    PROVE  RollbackSpec => []MountBacked
  <1>1. Init => MountInv
    <2>1. SUFFICES ASSUME Init PROVE MountBacked
      BY BaseInit DEF MountInv
    <2>2. Holders = {} /\ toplevel = 0
      BY <2>1 DEF Init, Idle, Holders, RollbackHolds
    <2> QED
      BY <2>2, FS_EmptySet DEF Holders, MountBacked
  <1>2. MountInv /\ [RollbackNext]_vars => MountInv'
    BY MountStep
  <1>3. MountInv => MountBacked
    BY DEF MountInv
  <1> QED
    BY <1>1, <1>2, <1>3, PTL DEF RollbackSpec

=============================================================================
