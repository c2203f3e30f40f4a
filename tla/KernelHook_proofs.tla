------------------------- MODULE KernelHook_proofs -------------------------
(***************************************************************************)
(* Proofs about KernelHook for every set of kernels, of faults and of      *)
(* other things that happen.                                               *)
(***************************************************************************)
EXTENDS KernelHook, TLAPS

-----------------------------------------------------------------------------
(* Typing.                                                                 *)

\* The boot directories that the steps of kernel-install and its plugin make.
LEMMA ChangesTyped ==
    ASSUME NEW b \in BootDirs, NEW k \in Kernels, NEW part \in Parts, NEW e \in Entries
    PROVE  /\ [b EXCEPT !.files = @ \cup {<<k, part>>}] \in BootDirs
           /\ [b EXCEPT !.files = @ \ {<<k, part>>}] \in BootDirs
           /\ [b EXCEPT !.links = @ \cup {<<k, part>>}] \in BootDirs
           /\ [b EXCEPT !.links = @ \ {<<k, part>>}] \in BootDirs
           /\ [b EXCEPT !.entry[k] = e] \in BootDirs
  BY DEF BootDirs, Entries

\* A step onto a typed boot directory keeps the root typed.
LEMMA OntoTyped ==
    ASSUME live \in Roots, NEW b \in BootDirs, NEW next, Onto(b, next) \/ BestEffort(b, next)
    PROVE  live' \in Roots
  BY DEF Onto, BestEffort, Roots

\* The states that a migration leaves are typed.
LEMMA InitTyped == Init => KernelHookTypeOK
  <1> SUFFICES ASSUME Init PROVE KernelHookTypeOK
    OBVIOUS
  <1>1. Installed(running) \in BootDirs
    BY DEF Init, Installed, BootDirs, Both, Entries
  <1>2. live \in Roots
    BY <1>1 DEF Init, Roots
  <1> QED
    BY <1>2 DEF Init, KernelHookTypeOK

\* Every step keeps the types.
LEMMA NextTyped ==
    ASSUME KernelHookTypeOK, [Next]_vars, pc \in AddPC \cup RemovePC => kver \in Kernels
    PROVE  KernelHookTypeOK'
  <1>1. live \in Roots /\ live.boot \in BootDirs /\ disk \in Roots /\ snap \in Roots
    BY DEF KernelHookTypeOK, Roots
  <1>2. /\ "vmlinuz" \in Parts /\ "initramfs" \in Parts
        /\ "prefixed" \in Entries /\ "plain" \in Entries /\ "none" \in Entries
    BY DEF Parts, Entries
  <1>3. CASE AddFiles
    <2>1. kver \in Kernels
      BY <1>3 DEF AddFiles, AddPC
    <2>2. live' \in Roots
      BY <1>1, <1>2, <1>3, <2>1, ChangesTyped, OntoTyped DEF AddFiles
    <2> QED
      BY <1>3, <2>2 DEF AddFiles, Onto, Keep, KernelHookTypeOK, AddPC
  <1>4. CASE RemoveFiles
    <2>1. kver \in Kernels
      BY <1>4 DEF RemoveFiles, RemovePC
    <2>2. live' \in Roots
      BY <1>1, <1>2, <1>4, <2>1, ChangesTyped, OntoTyped DEF RemoveFiles
    <2> QED
      BY <1>4, <2>2 DEF RemoveFiles, Onto, Keep, KernelHookTypeOK, RemovePC
  <1>5. CASE CreateSymlinks
    <2>1. kver \in Kernels
      BY <1>5 DEF CreateSymlinks, AddPC
    <2>2. live' \in Roots
      BY <1>1, <1>2, <1>5, <2>1, ChangesTyped, OntoTyped DEF CreateSymlinks, CreateSymlink
    <2> QED
      BY <1>5, <2>2 DEF CreateSymlinks, CreateSymlink, Onto, Keep, KernelHookTypeOK, AddPC
  <1>6. CASE WriteEntry
    BY <1>1, <1>6, OntoTyped DEF WriteEntry, Onto, Keep, KernelHookTypeOK, AddPC
  <1>7. CASE SwapEntry
    <2>1. kver \in Kernels
      BY <1>7 DEF SwapEntry, AddPC
    <2>2. live' \in Roots
      BY <1>1, <1>2, <1>7, <2>1, ChangesTyped, OntoTyped DEF SwapEntry
    <2> QED
      BY <1>7, <2>2 DEF SwapEntry, Onto, Keep, KernelHookTypeOK, AddPC
  <1>8. CASE HandleRemove
    <2>1. kver \in Kernels
      BY <1>8 DEF HandleRemove, RemovePC
    <2>2. live' \in Roots
      BY <1>1, <1>2, <1>8, <2>1, ChangesTyped, OntoTyped DEF HandleRemove
    <2> QED
      BY <1>8, <2>2 DEF HandleRemove, BestEffort, Keep, KernelHookTypeOK, RemovePC
  <1>9. CASE EnsureHooks
    BY <1>9 DEF EnsureHooks, Keep, KernelHookTypeOK, Roots
  <1>10. CASE Dispatch
    BY <1>10 DEF Dispatch, Keep, KernelHookTypeOK, AddPC, RemovePC
  <1>11. CASE ReadEntry \/ VerifyPaths
    BY <1>11 DEF ReadEntry, VerifyPaths, Keep, KernelHookTypeOK, AddPC
  <1>12. CASE SyncFilesystem
    BY <1>12 DEF SyncFilesystem, KernelHookTypeOK, AddPC
  <1>13. CASE KernelInstall
    BY <1>13 DEF KernelInstall, KernelHookTypeOK, AddPC, RemovePC
  <1>14. CASE Exit \/ Kill
    BY <1>14 DEF Exit, Kill, Idle, KernelHookTypeOK
  <1>15. CASE Commit \/ TakeSnapshot \/ Uninstall
    BY <1>15 DEF Commit, TakeSnapshot, Uninstall, KernelHookTypeOK
  <1>16. CASE PowerLoss \/ Reboot \/ RollBack
    <2>1. PICK v \in Roots : Restart(v) /\ snap' \in Roots
      BY <1>1, <1>16 DEF PowerLoss, Reboot, RollBack
    <2> QED
      BY <2>1 DEF Restart, Idle, Bootable, KernelHookTypeOK
  <1>17. CASE UNCHANGED vars
    BY <1>17 DEF vars, KernelHookTypeOK
  <1> QED
    BY <1>3, <1>4, <1>5, <1>6, <1>7, <1>8, <1>9, <1>10, <1>11, <1>12, <1>13, <1>14,
       <1>15, <1>16, <1>17 DEF Next, Step, HandleAdd

-----------------------------------------------------------------------------
(* The inductive invariant.                                                *)

\* The kernel that runs is not touched: it boots from memory, from disk, and a
\* snapshot has at least one that does.
RunningBoots ==
    /\ running \in Kernels
    /\ BootsEntry(live.boot, running)
    /\ BootsEntry(disk.boot, running)
    /\ Bootable(snap.boot) # {}
    /\ kver # running

Present(part) == <<kver, part>> \in live.boot.files
Linked(part)  == <<kver, part>> \in live.boot.links

\* What the steps of an installation have done so far.  An initramfs is missing
\* only after a failure.
Phases ==
    /\ pc \in AddPC \ {"kernel"} => Present("vmlinuz")
    /\ pc \in AddPC \ {"kernel", "entry", "initramfs"} => erred \/ Present("initramfs")
    /\ pc \in {"link2", "read", "write", "verify", "swap"} => Linked("vmlinuz")
    /\ pc \in {"read", "write", "verify", "swap"} => erred \/ Linked("initramfs")
    /\ pc \in {"initramfs", "plugin", "link1", "link2", "read", "write", "verify", "swap"}
          => live.boot.entry[kver] = "prefixed"
    /\ pc = "swap" => \A part \in Parts : Resolves(live.boot, kver, part)
    /\ pc \in {"sync", "ok"} => BootsEntry(live.boot, kver)
    /\ pc = "ok" => BootsEntry(disk.boot, kver)
    /\ pc = "failed" => erred \/ ~tool
    /\ pc \in AddPC \cup RemovePC => kver \in Kernels

HookInv == KernelHookTypeOK /\ RunningBoots /\ Phases

\* The initial states satisfy the invariant.
LEMMA InitHookInv == Init => HookInv
  <1> SUFFICES ASSUME Init PROVE HookInv
    OBVIOUS
  <1>1. KernelHookTypeOK
    BY InitTyped
  <1>2. BootsEntry(live.boot, running)
    BY DEF Init, Installed, Both, BootsEntry
  <1>3. RunningBoots
    BY <1>2, KernelHookAssumption DEF Init, RunningBoots, Bootable
  <1>4. Phases
    BY DEF Init, Phases, AddPC, RemovePC
  <1> QED
    BY <1>1, <1>3, <1>4 DEF HookInv

\* What a boot entry needs of another kernel is not changed by a step on k.
LEMMA OthersKept ==
    ASSUME NEW b \in BootDirs, NEW k \in Kernels, NEW j \in Kernels, j # k,
           NEW part \in Parts, NEW e \in Entries, BootsEntry(b, j)
    PROVE  /\ BootsEntry([b EXCEPT !.files = @ \cup {<<k, part>>}], j)
           /\ BootsEntry([b EXCEPT !.files = @ \ {<<k, part>>}], j)
           /\ BootsEntry([b EXCEPT !.links = @ \cup {<<k, part>>}], j)
           /\ BootsEntry([b EXCEPT !.links = @ \ {<<k, part>>}], j)
           /\ BootsEntry([b EXCEPT !.entry[k] = e], j)
  BY DEF BootDirs, BootsEntry

\* A step onto a boot directory from which the running kernel boots.
LEMMA OntoKeeps ==
    ASSUME live \in Roots, RunningBoots, NEW b, NEW next, BootsEntry(b, running),
           Onto(b, next) \/ BestEffort(b, next), Keep
    PROVE  RunningBoots'
  BY DEF Onto, BestEffort, Keep, RunningBoots, Roots, Bootable, BootsEntry

\* No step takes the running kernel its entry or its files.
LEMMA RunningKept ==
    ASSUME HookInv, [Next]_vars
    PROVE  RunningBoots'
  <1> USE DEF HookInv
  <1>1. /\ live \in Roots /\ live.boot \in BootDirs
        /\ running \in Kernels /\ BootsEntry(live.boot, running) /\ kver # running
    BY DEF KernelHookTypeOK, Roots, RunningBoots
  <1>2. /\ "vmlinuz" \in Parts /\ "initramfs" \in Parts
        /\ "prefixed" \in Entries /\ "plain" \in Entries /\ "none" \in Entries
    BY DEF Parts, Entries
  <1>3. pc \in AddPC \cup RemovePC => kver \in Kernels
    BY DEF Phases
  <1>4. CASE AddFiles
    <2>1. kver \in Kernels
      BY <1>3, <1>4 DEF AddFiles, AddPC
    <2>2. CASE UNCHANGED live
      BY <1>4, <2>2 DEF AddFiles, Keep, RunningBoots
    <2> QED
      BY <1>1, <1>2, <1>4, <2>1, <2>2, OthersKept, OntoKeeps DEF AddFiles
  <1>5. CASE RemoveFiles
    <2>1. kver \in Kernels
      BY <1>3, <1>5 DEF RemoveFiles, RemovePC
    <2> QED
      BY <1>1, <1>2, <1>5, <2>1, OthersKept, OntoKeeps DEF RemoveFiles
  <1>6. CASE CreateSymlinks
    <2>1. kver \in Kernels
      BY <1>3, <1>6 DEF CreateSymlinks, AddPC
    <2>2. CASE UNCHANGED live
      BY <1>6, <2>2 DEF CreateSymlinks, Keep, RunningBoots
    <2> QED
      BY <1>1, <1>2, <1>6, <2>1, <2>2, OthersKept, OntoKeeps DEF CreateSymlinks, CreateSymlink
  <1>7. CASE WriteEntry
    BY <1>1, <1>7, OntoKeeps DEF WriteEntry
  <1>8. CASE SwapEntry
    <2>1. kver \in Kernels
      BY <1>3, <1>8 DEF SwapEntry, AddPC
    <2> QED
      BY <1>1, <1>2, <1>8, <2>1, OthersKept, OntoKeeps DEF SwapEntry
  <1>9. CASE HandleRemove
    <2>1. kver \in Kernels
      BY <1>3, <1>9 DEF HandleRemove, RemovePC
    <2> QED
      BY <1>1, <1>2, <1>9, <2>1, OthersKept, OntoKeeps DEF HandleRemove
  <1>10. CASE EnsureHooks
    BY <1>1, <1>10 DEF EnsureHooks, Keep, RunningBoots, BootsEntry, Roots
  <1>11. CASE Dispatch \/ ReadEntry \/ VerifyPaths
    BY <1>11 DEF Dispatch, ReadEntry, VerifyPaths, Keep, RunningBoots
  <1>12. CASE SyncFilesystem
    BY <1>12 DEF SyncFilesystem, RunningBoots
  <1>13. CASE KernelInstall
    BY <1>13 DEF KernelInstall, RunningBoots
  <1>14. CASE Exit \/ Kill
    BY <1>14, KernelHookAssumption DEF Exit, Kill, Idle, RunningBoots
  <1>15. CASE Commit \/ TakeSnapshot \/ Uninstall
    BY <1>15 DEF Commit, TakeSnapshot, Uninstall, RunningBoots, Bootable
  <1>16. CASE PowerLoss \/ Reboot \/ RollBack
    <2>1. PICK v : /\ Restart(v) /\ Bootable(v.boot) # {}
                   /\ Bootable(snap'.boot) # {}
      BY <1>16 DEF PowerLoss, Reboot, RollBack, RunningBoots, Bootable
    <2>2. running' \in Bootable(v.boot)
      BY <2>1 DEF Restart
    <2> QED
      BY <2>1, <2>2, KernelHookAssumption DEF Restart, Idle, RunningBoots, Bootable
  <1>17. CASE UNCHANGED vars
    BY <1>17 DEF vars, RunningBoots
  <1> QED
    BY <1>4, <1>5, <1>6, <1>7, <1>8, <1>9, <1>10, <1>11, <1>12, <1>13, <1>14,
       <1>15, <1>16, <1>17 DEF Next, Step, HandleAdd

\* The steps record what they have done.
LEMMA PhasesKept ==
    ASSUME HookInv, [Next]_vars
    PROVE  Phases'
  <1> USE DEF HookInv
  <1>1. /\ live \in Roots /\ live.boot \in BootDirs
        /\ live.boot.links \subseteq Kernels \X Parts
    BY DEF KernelHookTypeOK, Roots, BootDirs
  <1>2. Phases
    OBVIOUS
  <1>3. pc \in AddPC \cup RemovePC => kver \in Kernels
    BY DEF Phases
  <1>4. CASE AddFiles
    BY <1>1, <1>2, <1>4 DEF AddFiles, Onto, Keep, Phases, Present, Linked, AddPC, RemovePC,
       Roots, BootDirs
  <1>5. CASE RemoveFiles
    BY <1>1, <1>2, <1>5 DEF RemoveFiles, Onto, Keep, Phases, AddPC, RemovePC
  <1>6. CASE CreateSymlinks
    BY <1>1, <1>2, <1>6 DEF CreateSymlinks, CreateSymlink, Onto, Keep, Phases, Present,
       Linked, AddPC, RemovePC, Roots, BootDirs
  <1>7. CASE WriteEntry
    BY <1>1, <1>2, <1>7 DEF WriteEntry, Onto, Keep, Phases, Present, Linked, AddPC, RemovePC,
       Roots, BootDirs
  <1>8. CASE ReadEntry
    BY <1>2, <1>8 DEF ReadEntry, Keep, Phases, Present, Linked, AddPC, RemovePC
  <1>9. CASE VerifyPaths
    BY <1>2, <1>9 DEF VerifyPaths, Keep, Phases, Present, Linked, AddPC, RemovePC,
       Resolves, Parts
  <1>10. CASE SwapEntry
    <2>1. CASE pc' = "sync"
      <3>1. /\ live'.boot = [live.boot EXCEPT !.entry[kver] = "plain"]
            /\ kver' = kver /\ kver \in Kernels /\ erred' = erred
        BY <1>1, <1>3, <1>10, <2>1 DEF SwapEntry, Onto, Keep, AddPC, Roots
      <3>2. BootsEntry(live'.boot, kver)
        BY <1>1, <1>2, <1>10, <3>1 DEF SwapEntry, Phases, Resolves, BootsEntry, BootDirs
      <3> QED
        BY <1>1, <1>2, <1>10, <2>1, <3>1, <3>2 DEF SwapEntry, Phases, Present, AddPC,
           RemovePC, BootDirs
    <2> QED
      BY <1>2, <1>10, <2>1 DEF SwapEntry, Onto, Keep, Phases, AddPC, RemovePC
  <1>11. CASE SyncFilesystem
    BY <1>2, <1>11 DEF SyncFilesystem, Phases, Present, AddPC, RemovePC
  <1>12. CASE HandleRemove
    BY <1>2, <1>12 DEF HandleRemove, BestEffort, Keep, Phases, AddPC, RemovePC
  <1>13. CASE Dispatch
    BY <1>2, <1>13 DEF Dispatch, Keep, Phases, Present, Linked, AddPC, RemovePC
  <1>14. CASE EnsureHooks
    BY <1>14 DEF EnsureHooks, Keep, Phases, AddPC, RemovePC
  <1>15. CASE KernelInstall
    BY <1>15 DEF KernelInstall, Phases, AddPC, RemovePC
  <1>16. CASE Exit \/ Kill \/ PowerLoss \/ Reboot \/ RollBack
    BY <1>16 DEF Exit, Kill, PowerLoss, Reboot, RollBack, Restart, Idle, Phases, AddPC, RemovePC
  <1>17. CASE Commit
    BY <1>2, <1>17 DEF Commit, Phases, Present, Linked, AddPC, RemovePC
  <1>18. CASE TakeSnapshot \/ Uninstall
    BY <1>18 DEF TakeSnapshot, Uninstall, Phases, AddPC, RemovePC
  <1>19. CASE UNCHANGED vars
    BY <1>2, <1>19 DEF vars, Phases, Present, Linked
  <1> QED
    BY <1>4, <1>5, <1>6, <1>7, <1>8, <1>9, <1>10, <1>11, <1>12, <1>13, <1>14,
       <1>15, <1>16, <1>17, <1>18, <1>19 DEF Next, Step, HandleAdd

\* The invariant is inductive.
LEMMA HookInvariant == KernelHookSpec => []HookInv
  <1>1. HookInv /\ [Next]_vars => HookInv'
    <2> SUFFICES ASSUME HookInv, [Next]_vars PROVE HookInv'
      OBVIOUS
    <2>1. KernelHookTypeOK'
      BY NextTyped DEF HookInv, Phases
    <2> QED
      BY <2>1, RunningKept, PhasesKept DEF HookInv
  <1> QED
    BY <1>1, InitHookInv, PTL DEF KernelHookSpec

-----------------------------------------------------------------------------
(* The theorems.                                                           *)

\* Whatever happens, kernel_hook.rs and kernel-install leave typed states.
THEOREM KernelHookTyping == KernelHookSpec => []KernelHookTypeOK
  <1>1. HookInv => KernelHookTypeOK
    BY DEF HookInv
  <1> QED
    BY <1>1, HookInvariant, PTL

\* Any number of kernels installed and removed, with every crash, snapshot and
\* rollback, leaves GRUB a kernel to boot, in memory and on disk.
THEOREM SomeKernelAlwaysBoots == KernelHookSpec => []SomeKernelBoots
  <1>1. HookInv => SomeKernelBoots
    BY KernelHookAssumption DEF HookInv, RunningBoots, SomeKernelBoots, Bootable
  <1> QED
    BY <1>1, HookInvariant, PTL

\* A plugin that reports success has made the new kernel bootable and durable.
THEOREM SuccessfulAddBoots == KernelHookSpec => []AddedKernelBoots
  <1>1. HookInv => AddedKernelBoots
    BY DEF HookInv, Phases, AddedKernelBoots
  <1> QED
    BY <1>1, HookInvariant, PTL

\* What earlier attempts leave behind never makes the plugin refuse a kernel.
THEOREM LeftoversAreHarmless == KernelHookSpec => []RefusesOnlyOnFailure
  <1>1. HookInv => RefusesOnlyOnFailure
    BY DEF HookInv, Phases, RefusesOnlyOnFailure
  <1> QED
    BY <1>1, HookInvariant, PTL

\* The exchange in fix_bls_paths puts in place only an entry that boots.
THEOREM ExchangeMakesBootable == KernelHookSpec => SwapMakesBootable
  <1>1. HookInv /\ HookInv' /\ [Next]_vars
           => [pc = "swap" /\ pc' = "sync" => BootsEntry(live'.boot, kver)]_vars
    <2> SUFFICES ASSUME HookInv, HookInv', [Next]_vars, pc = "swap", pc' = "sync"
                 PROVE  BootsEntry(live'.boot, kver)
      OBVIOUS
    <2>1. BootsEntry(live'.boot, kver')
      BY DEF HookInv, Phases
    <2>2. kver' = kver
      BY DEF Next, vars, KernelInstall, Step, AddFiles, RemoveFiles, Dispatch, HandleAdd,
         CreateSymlinks, ReadEntry, WriteEntry, VerifyPaths, SwapEntry, SyncFilesystem,
         HandleRemove, EnsureHooks, Exit, Kill, Commit, PowerLoss, Reboot, Restart, Idle,
         TakeSnapshot, RollBack, Uninstall, Keep
    <2> QED
      BY <2>1, <2>2
  <1> QED
    BY <1>1, HookInvariant, PTL DEF KernelHookSpec, SwapMakesBootable

=============================================================================
