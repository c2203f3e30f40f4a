---------------------- MODULE RollbackExclusive_proofs ----------------------
(***************************************************************************)
(* Proofs about Rollback on a system where mount(8) refuses to mount the   *)
(* volume twice on one mount point: the mount point is then a lock, and    *)
(* what a rollback verified is what it swaps in and makes durable.  And as *)
(* long as the tools may fail but nothing interrupts the command, it       *)
(* implements the one-step rollback of AtomicSwap: the names are hidden    *)
(* behind a refinement mapping while a swap waits for set-default.         *)
(***************************************************************************)
EXTENDS Rollback_proofs

-----------------------------------------------------------------------------
\* At most one process works below the mount point, and it is mounted then.
Alone  == \A p, q \in Procs : RollbackHolds(p) /\ RollbackHolds(q) => p = q
Backed == \A p \in Procs : RollbackHolds(p) => toplevel = 1

Verified(v, n) == Bound(v, n) /\ VerifySnapshotBootable(v, v.names[n])

\* What a process knows of the volume at each point of the procedure.
Knows(p) ==
    /\ At(p, "rbSwap") => Verified(mem, proc[p].name)
    /\ InWindow(p) => Bound(mem, proc[p].name) /\ Verified(mem, Root)
    /\ At(p, "rbSetDefault") => proc[p].id = mem.names[Root]
    /\ proc[p].pc \in {"rbSync", "rbRelease"} =>
          /\ Verified(mem, Root)
          /\ proc[p].id = mem.names[Root]
          /\ proc[p].id = mem.default
    /\ At(p, "rbRelease") =>
          disk.names = mem.names /\ disk.default = mem.default

FullInv == BaseInv /\ Alone /\ Backed /\ \A p \in Procs : Knows(p)

\* Renaming subvolumes does not change which of them verify.
LEMMA PermutedVerified ==
    ASSUME NEW v \in Volumes, NEW w \in Volumes, Permuted(v, w), NEW id \in Ids
    PROVE  VerifySnapshotBootable(v, id) <=> VerifySnapshotBootable(w, id)
  <1>1. v.image[id] \in Images
    BY DEF Volumes
  <1>2. v.image[id].mounts \subseteq Names
    BY <1>1 DEF Images
  <1> QED
    BY <1>2 DEF Permuted, VerifySnapshotBootable

\* A process that is not the one taking the step keeps what it knows: either
\* the volume has not changed under it, or only the holder of the lock, which
\* is another process, has changed it.
LEMMA OthersKnow ==
    ASSUME FullInv, NEW p \in Procs, NEW q \in Procs \ {p}, proc'[q] = proc[q],
           \/ UNCHANGED mem /\ (UNCHANGED disk \/ disk' = mem)
           \/ RollbackHolds(p)
    PROVE  Knows(q)'
  <1>1. CASE UNCHANGED mem /\ (UNCHANGED disk \/ disk' = mem)
    BY <1>1 DEF FullInv, Knows, At, InWindow, Verified, VerifySnapshotBootable, Bound
  <1>2. CASE RollbackHolds(p)
    <2>1. ~RollbackHolds(q)
      BY <1>2 DEF FullInv, Alone
    <2> QED
      BY <2>1 DEF Knows, At, InWindow, RollbackHolds
  <1> QED
    BY <1>1, <1>2

\* A step that gives no process the lock keeps it exclusive, and so does the
\* release of the lock by its holder.
LEMMA LockStep ==
    ASSUME FullInv, NEW p \in Procs,
           \A q \in Procs \ {p} : proc'[q] = proc[q],
           \/ (RollbackHolds(p)' => RollbackHolds(p)) /\ UNCHANGED toplevel
           \/ RollbackHolds(p) /\ ~RollbackHolds(p)'
           \/ toplevel = 0 /\ toplevel' = 1
    PROVE  Alone' /\ Backed'
  BY DEF FullInv, Alone, Backed, RollbackHolds

\* The invariant holds at the start.
LEMMA FullInit == Init => FullInv
  BY BaseInit DEF Init, FullInv, Alone, Backed, Knows, RollbackHolds, Idle, At,
                  InWindow

\* A step of process p that keeps the lock exclusive, after which p knows what
\* it has to know.
LEMMA CloseStep ==
    ASSUME FullInv, BaseInv', NEW p \in Procs,
           \A q \in Procs \ {p} : proc'[q] = proc[q],
           \/ UNCHANGED mem /\ (UNCHANGED disk \/ disk' = mem)
           \/ RollbackHolds(p),
           \/ (RollbackHolds(p)' => RollbackHolds(p)) /\ UNCHANGED toplevel
           \/ RollbackHolds(p) /\ ~RollbackHolds(p)'
           \/ toplevel = 0 /\ toplevel' = 1,
           Knows(p)'
    PROVE  FullInv'
  <1>1. \A q \in Procs \ {p} : Knows(q)'
    BY OthersKnow
  <1>2. Alone' /\ Backed'
    BY LockStep
  <1> QED
    BY <1>1, <1>2 DEF FullInv

\* What the swap does to the running volume.
LEMMA SwapFacts ==
    ASSUME BaseInv, NEW n \in Names, CanExchange(n),
           mem' = Exchange(mem, Root, n)
    PROVE  /\ mem' \in Volumes
           /\ Permuted(mem, mem')
           /\ mem'.names[Root] = mem.names[n]
  <1>1. Root \in Names /\ mem \in Volumes
    BY VolumeAssumption DEF BaseInv, RollbackTypeOK
  <1>2. Bound(mem, Root) /\ Bound(mem, n) /\ OneNamePerSubvolume(mem)
    BY DEF BaseInv, Lawful, CanExchange
  <1>3. mem' \in Volumes /\ mem'.names[Root] = mem.names[n]
    BY <1>1, ExchangeFacts
  <1>4. Permuted(mem, mem')
    BY <1>1, <1>2, ExchangePermutes
  <1> QED
    BY <1>3, <1>4

\* Every step keeps the invariant.
LEMMA FullStep ==
    ASSUME MountLimit = 1
    PROVE  FullInv /\ [RollbackNext]_vars => FullInv'
  <1> SUFFICES ASSUME FullInv, [RollbackNext]_vars
               PROVE  FullInv'
    OBVIOUS
  <1> USE VolumeAssumption
  <1>0. /\ proc \in [Procs -> ProcType]
        /\ toplevel \in 0..MountLimit
        /\ mem \in Volumes
        /\ disk \in Volumes
        /\ BaseInv /\ BaseInv'
    BY BaseStep DEF FullInv, BaseInv, RollbackTypeOK, ProcType
  <1>1. ASSUME NEW p \in Procs, NEW n \in Names, ResolveArgument(p, n)
        PROVE  FullInv'
    <2>1. proc'[p].pc = "rbMount" /\ \A q \in Procs \ {p} : proc'[q] = proc[q]
      BY <1>0, <1>1 DEF ResolveArgument, Idle
    <2>2. Knows(p)' /\ ~RollbackHolds(p)'
      BY <2>1 DEF Knows, At, InWindow, RollbackHolds
    <2> QED
      BY <1>0, <1>1, <2>1, <2>2, CloseStep DEF ResolveArgument
  <1>2. ASSUME NEW p \in Procs, MountToplevel(p)
        PROVE  FullInv'
    <2>1. CASE Goto(p, "rbFailed") /\ UNCHANGED toplevel
      <3>1. proc'[p].pc = "rbFailed" /\ \A q \in Procs \ {p} : proc'[q] = proc[q]
        BY <1>0, <2>1, GotoTyped DEF RollbackPC
      <3>2. Knows(p)' /\ ~RollbackHolds(p)'
        BY <3>1 DEF Knows, At, InWindow, RollbackHolds
      <3> QED
        BY <1>0, <1>2, <2>1, <3>1, <3>2, CloseStep DEF MountToplevel
    <2>2. CASE /\ toplevel < MountLimit
               /\ toplevel' = toplevel + 1
               /\ Goto(p, "rbVerify")
      <3>1. proc'[p].pc = "rbVerify" /\ \A q \in Procs \ {p} : proc'[q] = proc[q]
        BY <1>0, <2>2, GotoTyped DEF RollbackPC
      <3>2. Knows(p)'
        BY <3>1 DEF Knows, At, InWindow
      <3>3. toplevel = 0 /\ toplevel' = 1
        BY <1>0, <2>2
      <3> QED
        BY <1>0, <1>2, <3>1, <3>2, <3>3, CloseStep DEF MountToplevel
    <2> QED
      BY <1>2, <2>1, <2>2 DEF MountToplevel, Mount
  <1>3. ASSUME NEW p \in Procs, VerifySnapshot(p)
        PROVE  FullInv'
    <2>1. /\ proc'[p].pc \in {"rbSwap", "rbAbort"}
          /\ proc'[p].name = proc[p].name
          /\ proc'[p].pc = "rbSwap" => Verified(mem, proc[p].name)
          /\ \A q \in Procs \ {p} : proc'[q] = proc[q]
      BY <1>0, <1>3, GotoTyped DEF VerifySnapshot, RollbackPC, Verified
    <2>2. Knows(p)'
      BY <1>3, <2>1 DEF VerifySnapshot, Knows, At, InWindow, Verified,
                        VerifySnapshotBootable, Bound
    <2>3. RollbackHolds(p)
      BY <1>3 DEF VerifySnapshot, RollbackHolds, At
    <2> QED
      BY <1>0, <1>3, <2>1, <2>2, <2>3, CloseStep DEF VerifySnapshot
  <1>4. ASSUME NEW p \in Procs, SwapNames(p)
        PROVE  FullInv'
    <2> DEFINE n == proc[p].name
    <2>1. n \in Names /\ RollbackHolds(p) /\ Verified(mem, n)
      BY <1>0, <1>4 DEF SwapNames, At, RollbackHolds, ProcType, FullInv, Knows
    <2>2. CASE UNCHANGED mem /\ Goto(p, "rbFailed")
      <3>1. proc'[p].pc = "rbFailed" /\ \A q \in Procs \ {p} : proc'[q] = proc[q]
        BY <1>0, <2>2, GotoTyped DEF RollbackPC
      <3>2. Knows(p)' /\ ~RollbackHolds(p)'
        BY <3>1 DEF Knows, At, InWindow, RollbackHolds
      <3> QED
        BY <1>0, <1>4, <2>1, <3>1, <3>2, CloseStep DEF SwapNames
    <2>3. CASE /\ CanExchange(n)
               /\ mem' = Exchange(mem, Root, n)
               /\ Goto(p, "rbLookup")
      <3>1. /\ proc'[p].pc = "rbLookup" /\ proc'[p].name = n
            /\ \A q \in Procs \ {p} : proc'[q] = proc[q]
        BY <1>0, <2>3, GotoTyped DEF RollbackPC
      <3>2. /\ mem' \in Volumes
            /\ Permuted(mem, mem')
            /\ mem'.names[Root] = mem.names[n]
        BY <1>0, <2>1, <2>3, SwapFacts DEF FullInv
      <3>3. mem.names[n] \in Ids
        BY <1>0, <2>1 DEF Verified, Bound, Volumes
      <3>4. Bound(mem', n) /\ Verified(mem', Root)
        <4>1. VerifySnapshotBootable(mem', mem.names[n])
          BY <1>0, <2>1, <3>2, <3>3, PermutedVerified DEF Verified
        <4> QED
          BY <2>1, <2>3, <3>2, <4>1 DEF Verified, Permuted, CanExchange
      <3>5. Knows(p)'
        BY <3>1, <3>4 DEF Knows, At, InWindow, Verified, VerifySnapshotBootable, Bound
      <3> QED
        BY <1>0, <1>4, <2>1, <3>1, <3>5, CloseStep DEF SwapNames
    <2> QED
      BY <1>4, <2>2, <2>3 DEF SwapNames
  <1>5. ASSUME NEW p \in Procs, LookUpNewRoot(p)
        PROVE  FullInv'
    <2>1. RollbackHolds(p) /\ InWindow(p) /\ Knows(p)
      BY <1>5 DEF LookUpNewRoot, At, RollbackHolds, InWindow, FullInv
    <2>2. /\ proc'[p].pc \in {"rbSetDefault", "rbUndo"}
          /\ proc'[p].name = proc[p].name
          /\ proc'[p].pc = "rbSetDefault" => proc'[p].id = mem.names[Root]
          /\ \A q \in Procs \ {p} : proc'[q] = proc[q]
      <3>1. CASE Goto(p, "rbUndo")
        BY <1>0, <3>1, GotoTyped DEF RollbackPC
      <3>2. CASE proc' = [proc EXCEPT ![p].pc = "rbSetDefault",
                                      ![p].id = mem.names[Root]]
        BY <1>0, <3>2 DEF ProcType
      <3> QED
        BY <1>5, <3>1, <3>2 DEF LookUpNewRoot
    <2>3. Knows(p)'
      BY <1>5, <2>1, <2>2 DEF LookUpNewRoot, Knows, At, InWindow, Verified,
                              VerifySnapshotBootable, Bound
    <2> QED
      BY <1>0, <1>5, <2>1, <2>2, <2>3, CloseStep DEF LookUpNewRoot
  <1>6. ASSUME NEW p \in Procs, SetDefaultSubvol(p)
        PROVE  FullInv'
    <2>1. RollbackHolds(p) /\ InWindow(p) /\ Knows(p) /\ At(p, "rbSetDefault")
      BY <1>6 DEF SetDefaultSubvol, At, RollbackHolds, InWindow, FullInv
    <2>2. CASE Goto(p, "rbUndo") /\ UNCHANGED mem
      <3>1. /\ proc'[p].pc = "rbUndo" /\ proc'[p].name = proc[p].name
            /\ \A q \in Procs \ {p} : proc'[q] = proc[q]
        BY <1>0, <2>2, GotoTyped DEF RollbackPC
      <3>2. Knows(p)'
        BY <2>1, <2>2, <3>1 DEF Knows, At, InWindow, Verified,
                                VerifySnapshotBootable, Bound
      <3> QED
        BY <1>0, <1>6, <2>1, <3>1, <3>2, CloseStep DEF SetDefaultSubvol
    <2>3. CASE /\ Holds(mem, proc[p].id)
               /\ mem' = SetDefault(mem, proc[p].id)
               /\ Goto(p, "rbSync")
      <3>1. /\ proc'[p].pc = "rbSync" /\ proc'[p].id = proc[p].id
            /\ \A q \in Procs \ {p} : proc'[q] = proc[q]
        BY <1>0, <2>3, GotoTyped DEF RollbackPC
      <3>2. proc[p].id \in Ids \cup {NoId}
        BY <1>0 DEF ProcType
      <3>3. /\ mem'.names = mem.names
            /\ mem'.image = mem.image
            /\ mem'.default = proc[p].id
        BY <1>0, <2>3, <3>2, SetDefaultFacts
      <3>4. Knows(p)'
        BY <2>1, <3>1, <3>3 DEF Knows, At, InWindow, Verified,
                                VerifySnapshotBootable, Bound
      <3> QED
        BY <1>0, <1>6, <2>1, <3>1, <3>4, CloseStep DEF SetDefaultSubvol
    <2> QED
      BY <1>6, <2>2, <2>3 DEF SetDefaultSubvol
  <1>7. ASSUME NEW p \in Procs, UndoSwap(p)
        PROVE  FullInv'
    <2>1. /\ RollbackHolds(p)
          /\ proc'[p].pc \in {"rbAbort", "rbWreck"}
          /\ \A q \in Procs \ {p} : proc'[q] = proc[q]
      BY <1>0, <1>7, GotoTyped DEF UndoSwap, At, RollbackHolds, RollbackPC
    <2>2. Knows(p)'
      BY <2>1 DEF Knows, At, InWindow
    <2> QED
      BY <1>0, <1>7, <2>1, <2>2, CloseStep DEF UndoSwap
  <1>8. ASSUME NEW p \in Procs, SyncFilesystem(p)
        PROVE  FullInv'
    <2>1. RollbackHolds(p) /\ Knows(p) /\ At(p, "rbSync")
      BY <1>8 DEF SyncFilesystem, At, RollbackHolds, FullInv
    <2>2. /\ proc'[p].pc \in {"rbRelease", "rbFailed"}
          /\ proc'[p].id = proc[p].id
          /\ proc'[p].pc = "rbRelease" => disk' = mem
          /\ UNCHANGED disk \/ disk' = mem
          /\ \A q \in Procs \ {p} : proc'[q] = proc[q]
      BY <1>0, <1>8, GotoTyped DEF SyncFilesystem, RollbackPC
    <2>3. Knows(p)'
      BY <1>8, <2>1, <2>2 DEF SyncFilesystem, Knows, At, InWindow, Verified,
                              VerifySnapshotBootable, Bound
    <2> QED
      BY <1>0, <1>8, <2>1, <2>2, <2>3, CloseStep DEF SyncFilesystem
  <1>9. ASSUME NEW p \in Procs, UnmountToplevel(p)
        PROVE  FullInv'
    <2>1. /\ RollbackHolds(p)
          /\ proc'[p].pc \in {"rbDone", "rbFailed", "rbCritical"}
          /\ \A q \in Procs \ {p} : proc'[q] = proc[q]
      BY <1>0, <1>9, GotoTyped
         DEF UnmountToplevel, Unmount, At, RollbackHolds, RollbackPC
    <2>2. Knows(p)' /\ ~RollbackHolds(p)'
      BY <2>1 DEF Knows, At, InWindow, RollbackHolds
    <2> QED
      BY <1>0, <1>9, <2>1, <2>2, CloseStep DEF UnmountToplevel
  <1>10. ASSUME NEW p \in Procs, RollbackExit(p) \/ Kill(p)
         PROVE  FullInv'
    <2>1. proc'[p].pc = "idle" /\ \A q \in Procs \ {p} : proc'[q] = proc[q]
      BY <1>0, <1>10 DEF RollbackExit, Kill, Idle
    <2>2. Knows(p)' /\ ~RollbackHolds(p)'
      BY <2>1 DEF Knows, At, InWindow, RollbackHolds
    <2> QED
      BY <1>0, <1>10, <2>1, <2>2, CloseStep DEF RollbackExit, Kill
  <1>11. CASE Commit
    <2>1. \A p \in Procs : Knows(p)'
      BY <1>11 DEF Commit, FullInv, Knows, At, InWindow, Verified,
                   VerifySnapshotBootable, Bound
    <2> QED
      BY <1>0, <1>11, <2>1 DEF Commit, FullInv, Alone, Backed, RollbackHolds
  <1>12. CASE PowerLoss \/ Reboot
    <2>1. \A p \in Procs : proc'[p].pc = "idle"
      BY <1>12 DEF PowerLoss, Reboot, Idle, At
    <2> QED
      BY <1>0, <2>1 DEF FullInv, Alone, Backed, RollbackHolds, Knows, At, InWindow
  <1>13. CASE UNCHANGED vars
    BY <1>0, <1>13 DEF vars, FullInv, Alone, Backed, RollbackHolds, Knows, At,
                       InWindow, Verified, VerifySnapshotBootable, Bound
  <1> QED
    BY <1>1, <1>2, <1>3, <1>4, <1>5, <1>6, <1>7, <1>8, <1>9, <1>10, <1>11,
       <1>12, <1>13
       DEF RollbackNext, RollbackStart, RollbackStep, Environment

-----------------------------------------------------------------------------
\* From the swap until the volume is synced, the subvolume under the root name
\* is one whose boot chain verifies: nothing can come between the check of a
\* snapshot and its swap.
THEOREM VerifiedBeforeSwapped ==
    ASSUME MountLimit = 1
    PROVE  RollbackSpec => []SwappedInIsVerified
  <1>1. FullInv => SwappedInIsVerified
    BY DEF FullInv, Knows, Verified, InWindow, SwappedInIsVerified
  <1> QED
    BY <1>1, FullInit, FullStep, PTL DEF RollbackSpec

\* The only step that ends in "Rollback complete" is the umount after the sync.
LEMMA OnlyReleaseCompletes ==
    ASSUME BaseInv, RollbackNext, NEW p \in Procs,
           ~At(p, "rbDone"), proc'[p].pc = "rbDone"
    PROVE  At(p, "rbRelease") /\ UNCHANGED disk
  <1>0. proc \in [Procs -> ProcType]
    BY DEF BaseInv, RollbackTypeOK, ProcType
  <1>1. ASSUME NEW q \in Procs, RollbackStart(q) \/ RollbackStep(q) \/ Kill(q)
        PROVE  At(p, "rbRelease") /\ UNCHANGED disk
    <2>0. \A r \in Procs \ {q} : proc'[r] = proc[r]
      <3>1. CASE RollbackStart(q)
        BY <1>0, <3>1 DEF RollbackStart, ResolveArgument
      <3>2. CASE RollbackExit(q) \/ Kill(q)
        BY <1>0, <3>2 DEF RollbackExit, Kill
      <3>3. CASE LookUpNewRoot(q)
        BY <1>0, <3>3 DEF LookUpNewRoot, Goto
      <3>4. CASE MountToplevel(q) \/ UnmountToplevel(q)
        BY <1>0, <3>4 DEF MountToplevel, Mount, UnmountToplevel, Unmount, Goto
      <3>5. CASE \/ VerifySnapshot(q) \/ SwapNames(q) \/ SetDefaultSubvol(q)
                 \/ UndoSwap(q) \/ SyncFilesystem(q)
        BY <1>0, <3>5
           DEF VerifySnapshot, SwapNames, SetDefaultSubvol, UndoSwap,
               SyncFilesystem, Goto
      <3> QED
        BY <1>1, <3>1, <3>2, <3>3, <3>4, <3>5 DEF RollbackStep
    <2>1. q = p
      BY <2>0 DEF At
    <2>2. CASE UnmountToplevel(q)
      BY <1>0, <2>1, <2>2, GotoTyped
         DEF At, UnmountToplevel, Unmount, RollbackPC
    <2>3. CASE LookUpNewRoot(q)
      BY <1>0, <2>1, <2>3 DEF At, LookUpNewRoot, Goto, ProcType
    <2>4. CASE RollbackStart(q) \/ RollbackExit(q) \/ Kill(q)
      <3>1. CASE RollbackStart(q)
        <4>1. PICK n \in Names : ResolveArgument(q, n)
          BY <3>1 DEF RollbackStart
        <4>2. proc'[q] = [Idle EXCEPT !.pc = "rbMount", !.name = n]
          BY <1>0, <4>1 DEF ResolveArgument
        <4> QED
          BY <2>1, <4>2 DEF Idle
      <3>2. CASE RollbackExit(q) \/ Kill(q)
        <4>1. proc'[q] = Idle
          BY <1>0, <3>2 DEF RollbackExit, Kill
        <4> QED
          BY <2>1, <4>1 DEF Idle
      <3> QED
        BY <2>4, <3>1, <3>2
    <2>5. CASE \/ MountToplevel(q) \/ VerifySnapshot(q) \/ SwapNames(q)
               \/ SetDefaultSubvol(q) \/ UndoSwap(q) \/ SyncFilesystem(q)
      BY <1>0, <2>1, <2>5, GotoTyped
         DEF MountToplevel, Mount, VerifySnapshot, SwapNames, SetDefaultSubvol,
             UndoSwap, SyncFilesystem, RollbackPC
    <2> QED
      BY <1>1, <2>2, <2>3, <2>4, <2>5 DEF RollbackStep
  <1>2. CASE Commit \/ PowerLoss \/ Reboot
    BY <1>0, <1>2 DEF Commit, PowerLoss, Reboot, Idle, At
  <1> QED
    BY <1>1, <1>2 DEF RollbackNext, Environment

\* "Rollback complete" is only reported once the disk holds the exchange, the
\* new default subvolume and a boot chain that verifies.
THEOREM CompleteIsDurable ==
    ASSUME MountLimit = 1
    PROVE  RollbackSpec => SuccessIsDurable
  <1> DEFINE Durable ==
        \A p \in Procs :
          ~At(p, "rbDone") /\ proc'[p].pc = "rbDone" =>
              /\ disk'.names[Root] = proc[p].id
              /\ disk'.default = proc[p].id
              /\ VerifySnapshotBootable(disk', proc[p].id)
  <1>1. FullInv /\ [RollbackNext]_vars => [Durable]_vars
    <2> SUFFICES ASSUME FullInv, RollbackNext, NEW p \in Procs,
                        ~At(p, "rbDone"), proc'[p].pc = "rbDone"
                 PROVE  /\ disk'.names[Root] = proc[p].id
                        /\ disk'.default = proc[p].id
                        /\ VerifySnapshotBootable(disk', proc[p].id)
      OBVIOUS
    <2>1. At(p, "rbRelease") /\ UNCHANGED disk
      BY OnlyReleaseCompletes DEF FullInv
    <2>2. /\ disk.names[Root] = proc[p].id
          /\ disk.default = proc[p].id
          /\ VerifySnapshotBootable(mem, proc[p].id)
      BY <2>1 DEF FullInv, Knows, At, Verified
    <2>3. mem \in Volumes /\ disk \in Volumes /\ Permuted(mem, disk)
      BY DEF FullInv, BaseInv, RollbackTypeOK, Lawful
    <2>4. proc[p].id \in Ids
      BY <2>1, <2>3, VolumeAssumption
         DEF FullInv, Knows, At, Verified, Bound, Volumes
    <2>5. VerifySnapshotBootable(disk, proc[p].id)
      BY <2>2, <2>3, <2>4, PermutedVerified
    <2> QED
      BY <2>1, <2>2, <2>5 DEF VerifySnapshotBootable, Bound
  <1> QED
    BY <1>1, FullInit, FullStep, PTL DEF RollbackSpec, SuccessIsDurable

-----------------------------------------------------------------------------
(* One step of the running system.                                         *)

Bootable == {id \in Ids : VerifySnapshotBootable(mem, id)}
Critical == {p \in Procs : proc[p].pc \in {"rbWreck", "rbCritical"}}

Windowless == \A p \in Procs : ~InWindow(p)

-----------------------------------------------------------------------------
(* The refinement mapping.                                                 *)

\* Exchanging two names a second time brings the names back.
LEMMA ExchangeTwice ==
    ASSUME NEW v \in Volumes, NEW a \in Names, NEW b \in Names
    PROVE  Exchange(Exchange(v, a, b), a, b).names = v.names
  BY DEF Exchange, Volumes

\* Seen from the exchanged names, the names there were are the traded ones.
LEMMA ExchangeTrades ==
    ASSUME NEW v \in Volumes, NEW a \in Names, NEW b \in Names,
           NEW u, u = Exchange(v, a, b).names
    PROVE  v.names = [u EXCEPT ![a] = u[b], ![b] = u[a]]
  BY DEF Exchange, Volumes

\* The process in the window is the one the mapping chooses, before a step and
\* after it.
LEMMA VisibleInWindow ==
    ASSUME Alone, NEW p \in Procs, InWindow(p)
    PROVE  VisibleNames = Exchange(mem, Root, proc[p].name).names
  <1>1. \A q \in Procs : InWindow(q) => q = p
    BY DEF Alone, InWindow, RollbackHolds
  <1>2. Pending \in Procs /\ InWindow(Pending)
    BY DEF Pending
  <1>3. Pending = p
    BY <1>1, <1>2
  <1> QED
    BY <1>3 DEF VisibleNames

\* The same in the next state.
LEMMA VisibleInWindowNext ==
    ASSUME Alone', NEW p \in Procs, InWindow(p)'
    PROVE  VisibleNames' = Exchange(mem', Root, proc'[p].name).names
  <1>1. \A q \in Procs : InWindow(q)' => q = p
    BY DEF Alone, InWindow, RollbackHolds
  <1>2. Pending' \in Procs /\ (\E q \in Procs : q = Pending' /\ InWindow(q)')
    BY DEF Pending, InWindow
  <1>3. Pending' = p
    BY <1>1, <1>2
  <1> QED
    BY <1>3 DEF VisibleNames, Exchange

\* Outside the window the mapping shows the names as they are.
LEMMA VisibleOutside ==
    /\ Windowless => VisibleNames = mem.names
    /\ Windowless' => VisibleNames' = mem'.names
  BY DEF Windowless, VisibleNames

\* Which subvolumes are bootable does not depend on which name they have.
LEMMA BootableKept ==
    ASSUME mem \in Volumes, mem' \in Volumes, Permuted(mem, mem')
    PROVE  Bootable' = Bootable
  <1>1. \A id \in Ids : VerifySnapshotBootable(mem, id) <=> VerifySnapshotBootable(mem', id)
    BY PermutedVerified
  <1> QED
    BY <1>1 DEF Bootable, VerifySnapshotBootable, Bound

-----------------------------------------------------------------------------
(* The steps.                                                              *)

Hidden == UNCHANGED <<VisibleNames, mem.default, Bootable, Critical>>

\* A step of p that leaves the running volume alone and neither enters nor
\* leaves the window nor reports is hidden.
LEMMA HiddenStep ==
    ASSUME FullInv, FullInv', NEW p \in Procs, UNCHANGED mem,
           \A q \in Procs \ {p} : proc'[q] = proc[q],
           InWindow(p)' <=> InWindow(p),
           InWindow(p) => proc'[p].name = proc[p].name,
           p \in Critical' <=> p \in Critical
    PROVE  Hidden
  <1>1. VisibleNames' = VisibleNames
    <2>1. CASE Windowless
      <3>1. Windowless'
        BY <2>1 DEF Windowless, InWindow
      <3> QED
        BY <2>1, <3>1, VisibleOutside
    <2>2. ASSUME NEW q \in Procs, InWindow(q)
          PROVE  VisibleNames' = VisibleNames
      <3>1. InWindow(q)' /\ proc'[q].name = proc[q].name
        BY <2>2 DEF InWindow
      <3>2. VisibleNames = Exchange(mem, Root, proc[q].name).names
        BY <2>2, VisibleInWindow DEF FullInv
      <3>3. VisibleNames' = Exchange(mem', Root, proc'[q].name).names
        BY <3>1, VisibleInWindowNext DEF FullInv
      <3> QED
        BY <3>1, <3>2, <3>3
    <2> QED
      BY <2>1, <2>2 DEF Windowless
  <1>2. Critical' = Critical
    BY DEF Critical
  <1>3. Bootable' = Bootable
    BY DEF Bootable, VerifySnapshotBootable, Bound
  <1> QED
    BY <1>1, <1>2, <1>3 DEF Hidden

\* Before the swap nobody is in the window, after it p is: the exchange is not
\* visible yet.
LEMMA SwapHidden ==
    ASSUME FullInv, FullInv', NEW p \in Procs, SwapNames(p)
    PROVE  Hidden
  <1>0. /\ proc \in [Procs -> ProcType] /\ mem \in Volumes /\ mem' \in Volumes
        /\ Root \in Names /\ proc[p].name \in Names
    BY VolumeAssumption DEF FullInv, BaseInv, RollbackTypeOK, ProcType
  <1>1. Windowless /\ At(p, "rbSwap")
    BY DEF SwapNames, FullInv, Alone, RollbackHolds, Windowless, InWindow, At
  <1>2. CASE UNCHANGED mem /\ Goto(p, "rbFailed")
    <2>1. proc'[p].pc = "rbFailed" /\ \A q \in Procs \ {p} : proc'[q] = proc[q]
      BY <1>0, <1>2, GotoTyped DEF RollbackPC
    <2> QED
      BY <1>1, <1>2, <2>1, HiddenStep DEF InWindow, Critical, At
  <1>3. CASE /\ CanExchange(proc[p].name)
             /\ mem' = Exchange(mem, Root, proc[p].name)
             /\ Goto(p, "rbLookup")
    <2>1. /\ proc'[p].pc = "rbLookup" /\ proc'[p].name = proc[p].name
          /\ \A q \in Procs \ {p} : proc'[q] = proc[q]
      BY <1>0, <1>3, GotoTyped DEF RollbackPC
    <2>2. VisibleNames' = Exchange(mem', Root, proc[p].name).names
      BY <2>1, VisibleInWindowNext DEF FullInv, InWindow
    <2>3. VisibleNames' = VisibleNames
      BY <1>0, <1>1, <1>3, <2>2, ExchangeTwice, VisibleOutside
    <2>4. mem'.default = mem.default
      BY <1>0, <1>3, ExchangeFacts
    <2>5. Bootable' = Bootable
      BY <1>0, <1>3, SwapFacts, BootableKept DEF FullInv
    <2>6. Critical' = Critical
      BY <1>1, <2>1 DEF Critical, At
    <2> QED
      BY <2>3, <2>4, <2>5, <2>6 DEF Hidden
  <1> QED
    BY <1>2, <1>3 DEF SwapNames

\* set-default is the moment the rollback happens.
LEMMA SetDefaultRollsBack ==
    ASSUME FullInv, FullInv', NEW p \in Procs, SetDefaultSubvol(p),
           NEW n \in Names, n = proc[p].name
    PROVE  Hidden \/ Atomic!Rollback(n)
  <1>0. /\ proc \in [Procs -> ProcType] /\ mem \in Volumes /\ mem' \in Volumes
        /\ Root \in Names /\ n \in Names /\ proc[p].id \in Ids \cup {NoId}
    BY VolumeAssumption DEF FullInv, BaseInv, RollbackTypeOK, ProcType
  <1>1. At(p, "rbSetDefault") /\ InWindow(p) /\ Knows(p)
    BY DEF SetDefaultSubvol, InWindow, At, FullInv
  <1>2. CASE UNCHANGED mem /\ Goto(p, "rbUndo")
    <2>1. /\ proc'[p].pc = "rbUndo" /\ proc'[p].name = n
          /\ \A q \in Procs \ {p} : proc'[q] = proc[q]
      BY <1>0, <1>2, GotoTyped DEF RollbackPC
    <2>2. Hidden
      BY <1>1, <1>2, <2>1, HiddenStep DEF InWindow, Critical, At
    <2> QED
      BY <2>2
  <1>3. CASE mem' = SetDefault(mem, proc[p].id) /\ Goto(p, "rbSync")
    <2>1. /\ proc'[p].pc = "rbSync"
          /\ \A q \in Procs \ {p} : proc'[q] = proc[q]
      BY <1>0, <1>3, GotoTyped DEF RollbackPC
    <2>2. /\ mem'.names = mem.names
          /\ mem'.image = mem.image
          /\ mem'.default = mem.names[Root]
      BY <1>0, <1>1, <1>3, SetDefaultFacts DEF Knows
    <2>3. VisibleNames = Exchange(mem, Root, n).names
      BY <1>1, VisibleInWindow DEF FullInv
    <2>4. VisibleNames' = mem.names
      <3>1. Windowless'
        BY <1>1, <2>1 DEF Windowless, InWindow, FullInv, Alone, RollbackHolds, At
      <3> QED
        BY <2>2, <3>1, VisibleOutside
    <2>5. mem.names = [VisibleNames EXCEPT ![Root] = VisibleNames[n],
                                           ![n] = VisibleNames[Root]]
      BY <1>0, <2>3, ExchangeTrades
    <2>6. VisibleNames[n] = mem.names[Root]
      BY <1>0, <2>3, ExchangeFacts
    <2>7. mem.names[Root] \in Bootable
      BY <1>0, <1>1 DEF Knows, Verified, Bound, Bootable, Volumes
    <2>8. Bootable' = Bootable
      BY <2>2 DEF Bootable, VerifySnapshotBootable, Bound
    <2>9. Critical' = Critical
      BY <1>1, <2>1 DEF Critical, At
    <2> QED
      BY <2>2, <2>4, <2>5, <2>6, <2>7, <2>8, <2>9
         DEF Atomic!Rollback, Atomic!Traded, Bootable, Critical
  <1> QED
    BY <1>2, <1>3 DEF SetDefaultSubvol

\* An exchange that is undone was never visible; one that cannot be undone
\* becomes visible half done, together with its report.
LEMMA UndoHidesOrReports ==
    ASSUME FullInv, FullInv', NEW p \in Procs, UndoSwap(p),
           NEW n \in Names, n = proc[p].name
    PROVE  Hidden \/ Atomic!HalfDone(p, n)
  <1>0. /\ proc \in [Procs -> ProcType] /\ mem \in Volumes /\ mem' \in Volumes
        /\ Root \in Names /\ n \in Names
    BY VolumeAssumption DEF FullInv, BaseInv, RollbackTypeOK, ProcType
  <1>1. At(p, "rbUndo") /\ InWindow(p) /\ Knows(p)
    BY DEF UndoSwap, InWindow, At, FullInv
  <1>2. VisibleNames = Exchange(mem, Root, n).names
    BY <1>1, VisibleInWindow DEF FullInv
  <1>3. ASSUME NEW pc \in {"rbAbort", "rbWreck"}, Goto(p, pc)
        PROVE  /\ proc'[p].pc = pc
               /\ \A q \in Procs \ {p} : proc'[q] = proc[q]
               /\ VisibleNames' = mem'.names
    <2>1. proc'[p].pc = pc /\ \A q \in Procs \ {p} : proc'[q] = proc[q]
      BY <1>0, <1>3, GotoTyped DEF RollbackPC
    <2>2. Windowless'
      BY <1>1, <2>1 DEF Windowless, InWindow, FullInv, Alone, RollbackHolds, At
    <2> QED
      BY <2>1, <2>2, VisibleOutside
  <1>4. CASE /\ CanExchange(n)
             /\ mem' = Exchange(mem, Root, n)
             /\ Goto(p, "rbAbort")
    <2>1. VisibleNames' = VisibleNames
      BY <1>2, <1>3, <1>4
    <2>2. mem'.default = mem.default
      BY <1>0, <1>4, ExchangeFacts
    <2>3. Bootable' = Bootable
      BY <1>0, <1>4, SwapFacts, BootableKept DEF FullInv
    <2>4. Critical' = Critical
      BY <1>1, <1>3, <1>4 DEF Critical, At
    <2>5. Hidden
      BY <2>1, <2>2, <2>3, <2>4 DEF Hidden
    <2> QED
      BY <2>5
  <1>5. CASE UNCHANGED mem /\ Goto(p, "rbWreck")
    <2>1. VisibleNames' = [VisibleNames EXCEPT ![Root] = VisibleNames[n],
                                               ![n] = VisibleNames[Root]]
      <3>1. mem.names = [VisibleNames EXCEPT ![Root] = VisibleNames[n],
                                             ![n] = VisibleNames[Root]]
        BY <1>0, <1>2, ExchangeTrades
      <3>2. VisibleNames' = mem.names
        BY <1>3, <1>5
      <3> QED
        BY <3>1, <3>2
    <2>2. VisibleNames[n] = mem.names[Root]
      BY <1>0, <1>2, ExchangeFacts
    <2>3. mem.names[Root] \in Bootable
      BY <1>0, <1>1 DEF Knows, Verified, Bound, Bootable, Volumes
    <2>4. Bootable' = Bootable
      BY <1>5 DEF Bootable, VerifySnapshotBootable, Bound
    <2>5. p \notin Critical /\ Critical' = Critical \cup {p}
      BY <1>1, <1>3, <1>5 DEF Critical, At
    <2> QED
      BY <1>5, <2>1, <2>2, <2>3, <2>4, <2>5
         DEF Atomic!HalfDone, Atomic!Traded, Bootable, Critical
  <1> QED
    BY <1>4, <1>5 DEF UndoSwap

\* The end of the command takes its report back.
LEMMA ExitHidesOrReports ==
    ASSUME FullInv, FullInv', NEW p \in Procs, RollbackExit(p)
    PROVE  Hidden \/ Atomic!Report(p)
  <1>0. proc \in [Procs -> ProcType]
    BY DEF FullInv, BaseInv, RollbackTypeOK, ProcType
  <1>1. /\ proc'[p].pc = "idle" /\ UNCHANGED mem
        /\ \A q \in Procs \ {p} : proc'[q] = proc[q]
    BY <1>0 DEF RollbackExit, Idle
  <1>2. ~InWindow(p) /\ ~InWindow(p)' /\ p \notin Critical'
    BY <1>1 DEF RollbackExit, InWindow, Critical
  <1>3. CASE p \notin Critical
    BY <1>1, <1>2, <1>3, HiddenStep
  <1>4. CASE p \in Critical
    <2>1. Critical' = Critical \ {p}
      BY <1>1, <1>2 DEF Critical
    <2>2. VisibleNames' = VisibleNames
      <3>1. CASE Windowless
        <4>1. Windowless'
          BY <1>1, <1>2, <3>1 DEF Windowless, InWindow
        <4> QED
          BY <1>1, <3>1, <4>1, VisibleOutside
      <3>2. ASSUME NEW q \in Procs, InWindow(q)
            PROVE  VisibleNames' = VisibleNames
        <4>1. InWindow(q)' /\ proc'[q].name = proc[q].name
          BY <1>1, <1>2, <3>2 DEF InWindow
        <4>2. VisibleNames = Exchange(mem, Root, proc[q].name).names
          BY <3>2, VisibleInWindow DEF FullInv
        <4>3. VisibleNames' = Exchange(mem', Root, proc'[q].name).names
          BY <4>1, VisibleInWindowNext DEF FullInv
        <4> QED
          BY <1>1, <4>1, <4>2, <4>3
      <3> QED
        BY <3>1, <3>2 DEF Windowless
    <2>3. Bootable' = Bootable
      BY <1>1 DEF Bootable, VerifySnapshotBootable, Bound
    <2> QED
      BY <1>1, <1>4, <2>1, <2>2, <2>3 DEF Atomic!Report, Bootable, Critical
  <1> QED
    BY <1>3, <1>4

\* Every step of a rollback, and of the machine around it, maps to a step of
\* AtomicSwap or leaves its variables alone.
LEMMA RefinementStep ==
    ASSUME Faults \subseteq {"io"}
    PROVE  FullInv /\ FullInv' /\ [RollbackNext]_vars
             => [Atomic!Next]_(Atomic!vars)
  <1> SUFFICES ASSUME FullInv, FullInv', [RollbackNext]_vars
               PROVE  Hidden \/ Atomic!Next
    BY DEF Hidden, Atomic!vars, Bootable, Critical
  <1>0. /\ proc \in [Procs -> ProcType] /\ mem \in Volumes
        /\ \A p \in Procs : proc[p].name \in Names
    BY DEF FullInv, BaseInv, RollbackTypeOK, ProcType
  <1>1. ASSUME NEW p \in Procs, NEW n \in Names, ResolveArgument(p, n)
        PROVE  Hidden
    <2>1. /\ proc'[p].pc = "rbMount" /\ UNCHANGED mem /\ At(p, "idle")
          /\ \A q \in Procs \ {p} : proc'[q] = proc[q]
      BY <1>0, <1>1 DEF ResolveArgument, Idle
    <2> QED
      BY <2>1, HiddenStep DEF InWindow, Critical, At
  <1>2. ASSUME NEW p \in Procs, MountToplevel(p) \/ VerifySnapshot(p)
        PROVE  Hidden
    <2>1. /\ proc[p].pc \in {"rbMount", "rbVerify"} /\ UNCHANGED mem
          /\ proc'[p].pc \in {"rbVerify", "rbFailed", "rbSwap", "rbAbort"}
          /\ \A q \in Procs \ {p} : proc'[q] = proc[q]
      BY <1>0, <1>2, GotoTyped
         DEF MountToplevel, Mount, VerifySnapshot, At, RollbackPC
    <2> QED
      BY <2>1, HiddenStep DEF InWindow, Critical
  <1>3. ASSUME NEW p \in Procs, LookUpNewRoot(p)
        PROVE  Hidden
    <2>1. /\ At(p, "rbLookup") /\ UNCHANGED mem
          /\ proc'[p].pc \in {"rbSetDefault", "rbUndo"}
          /\ proc'[p].name = proc[p].name
          /\ \A q \in Procs \ {p} : proc'[q] = proc[q]
      BY <1>0, <1>3 DEF LookUpNewRoot, Goto, ProcType
    <2> QED
      BY <2>1, HiddenStep DEF InWindow, Critical, At
  <1>4. ASSUME NEW p \in Procs, SyncFilesystem(p)
        PROVE  Hidden
    <2>1. /\ At(p, "rbSync") /\ UNCHANGED mem
          /\ proc'[p].pc \in {"rbRelease", "rbFailed"}
          /\ \A q \in Procs \ {p} : proc'[q] = proc[q]
      BY <1>0, <1>4, GotoTyped DEF SyncFilesystem, RollbackPC
    <2> QED
      BY <2>1, HiddenStep DEF InWindow, Critical, At
  <1>5. ASSUME NEW p \in Procs, UnmountToplevel(p)
        PROVE  Hidden
    <2>1. /\ UNCHANGED mem
          /\ \/ At(p, "rbRelease") /\ proc'[p].pc = "rbDone"
             \/ At(p, "rbAbort")   /\ proc'[p].pc = "rbFailed"
             \/ At(p, "rbWreck")   /\ proc'[p].pc = "rbCritical"
          /\ \A q \in Procs \ {p} : proc'[q] = proc[q]
      BY <1>0, <1>5, GotoTyped DEF UnmountToplevel, Unmount, RollbackPC
    <2> QED
      BY <2>1, HiddenStep DEF InWindow, Critical, At
  <1>6. ASSUME NEW p \in Procs, RollbackStep(p)
        PROVE  Hidden \/ Atomic!Next
    <2>0. PICK n \in Names : n = proc[p].name
      BY <1>0
    <2>1. CASE SwapNames(p)
      BY <2>1, SwapHidden
    <2>2. CASE SetDefaultSubvol(p)
      BY <2>0, <2>2, SetDefaultRollsBack DEF Atomic!Next
    <2>3. CASE UndoSwap(p)
      BY <2>0, <2>3, UndoHidesOrReports DEF Atomic!Next
    <2>4. CASE RollbackExit(p)
      BY <2>4, ExitHidesOrReports DEF Atomic!Next
    <2> QED
      BY <1>2, <1>3, <1>4, <1>5, <1>6, <2>1, <2>2, <2>3, <2>4 DEF RollbackStep
  <1>7. CASE Commit \/ Reboot \/ UNCHANGED vars
    <2>1. UNCHANGED <<mem, proc>>
      BY <1>7 DEF Commit, Reboot, vars
    <2>2. CASE Windowless
      <3>1. Windowless'
        BY <2>1, <2>2 DEF Windowless, InWindow
      <3> QED
        BY <2>1, <2>2, <3>1, VisibleOutside
           DEF Hidden, Bootable, Critical, VerifySnapshotBootable, Bound
    <2>3. ASSUME NEW q \in Procs, InWindow(q)
          PROVE  Hidden
      BY <2>1, <2>3, HiddenStep DEF InWindow, Critical
    <2> QED
      BY <2>2, <2>3 DEF Windowless
  <1>8. ~PowerLoss /\ \A p \in Procs : ~Kill(p)
    BY DEF PowerLoss, Kill
  <1> QED
    BY <1>1, <1>6, <1>7, <1>8 DEF RollbackNext, RollbackStart, Environment

\* The initial states map to initial states.
LEMMA RefinementInit == Init => Atomic!Init
  <1> SUFFICES ASSUME Init PROVE Atomic!Init
    OBVIOUS
  <1>1. mem \in Volumes /\ Bound(mem, Root) /\ mem.default = mem.names[Root]
    BY VolumeAssumption DEF Init, WellFormed
  <1>2. Windowless /\ Critical = {}
    BY DEF Init, Windowless, InWindow, Critical, Idle
  <1>3. VisibleNames = mem.names
    BY <1>2, VisibleOutside
  <1> QED
    BY <1>1, <1>2, <1>3 DEF Atomic!Init, Critical, Bound, Volumes

-----------------------------------------------------------------------------
\* As long as tools may fail but nothing kills the command or the machine,
\* rollback() is one step of the running system, the trade of the root with a
\* bootable snapshot, or none, or it ends with a CRITICAL report.
THEOREM RollbackIsAtomic ==
    ASSUME MountLimit = 1, Faults \subseteq {"io"}
    PROVE  RollbackSpec => AtomicToTheRunningSystem
  <1> QED
    BY FullInit, FullStep, RefinementInit, RefinementStep, PTL
       DEF RollbackSpec, AtomicToTheRunningSystem, Atomic!Spec

=============================================================================
