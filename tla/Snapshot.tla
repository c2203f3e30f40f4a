------------------------------ MODULE Snapshot ------------------------------
(***************************************************************************)
(* The snapshot commands: create (by hand, or automatically before an RPM  *)
(* transaction), with the retention that follows an automatic snapshot;    *)
(* delete; list; and the one-shot renaming of the snapshot older versions  *)
(* kept under a fixed name.                                                *)
(***************************************************************************)
EXTENDS Volume

CONSTANTS
    AutoNames,     \* names of the form YYYY-MM-DD_HH-MM-SS
    Legacy,        \* "root.pre-update"
    MaxSnapshots   \* MAX_SNAPSHOTS of the configuration, 0 for no limit

ASSUME SnapshotAssumption ==
    /\ AutoNames \subseteq Names
    /\ Legacy \in Names \ AutoNames
    /\ Root \notin AutoNames \cup {Legacy}
    /\ MaxSnapshots \in Nat

\* sn: create, ev: its retention, dl: delete, ls: list, lg: rename-legacy.
SnapshotPC == {"snMount", "snCreate", "snReleaseNew", "snReleaseOld",
               "snReleaseFailed", "snLookupNew", "snLookupOld",
               "evList", "evLookup", "evDelete",
               "snDone", "snExisted", "snNotBtrfs", "snFailed",
               "dlLookup", "dlDelete", "dlDone", "dlFailed",
               "lsMount", "lsRelease", "lsDone",
               "lgMount", "lgRename", "lgRelease", "lgDone"}

SnapshotHolds(p) ==
    proc[p].pc \in {"snCreate", "snReleaseNew", "snReleaseOld",
                    "snReleaseFailed", "lsRelease", "lgRename", "lgRelease"}

Start(p, pc, n) ==
    /\ At(p, "idle")
    /\ proc' = [proc EXCEPT ![p] = [Idle EXCEPT !.pc = pc, !.name = n]]
    /\ UNCHANGED <<mem, disk, up, toplevel>>

-----------------------------------------------------------------------------
(* create                                                                  *)

\* A name is given by the user, who may not take one of the automatic form, or
\* made from the clock: any automatic name, one that was used before included,
\* since the clock is read to the second and local time may be set back.
\* Bound: a new name is only asked for while the instance has an ID left.
SnapshotCreate(p, n) ==
    /\ Bound(mem, n) \/ mem.next \in Ids
    /\ Start(p, IF Root \in Protected THEN "snMount" ELSE "snNotBtrfs", n)

\* Mutation of SnapshotMount: a mount that is refused is taken for one that is
\* there.
SnapshotMountIfNeeded(p) ==
    /\ At(p, "snMount")
    /\ Mount(p, "snCreate", "snCreate")
    /\ UNCHANGED <<mem, disk, up>>

SnapshotMount(p) ==
    /\ At(p, "snMount")
    /\ Mount(p, "snCreate", "snFailed")
    /\ UNCHANGED <<mem, disk, up>>

\* Mutation of TakeOrKeep: a snapshot that is not committed.
TakeInMemory(p) ==
    /\ At(p, "snCreate")
    /\ CanSnapshot(mem, Root, proc[p].name)
    /\ mem' = TakeSnapshot(mem, Root, proc[p].name)
    /\ Goto(p, "snReleaseNew")
    /\ UNCHANGED <<disk, up, toplevel>>

\* The subvolume under the root name is captured, which is not the running one
\* between a rollback and the reboot.  Making a snapshot commits the volume.
TakeOrKeep(p) ==
    LET n == proc[p].name
    IN  /\ At(p, "snCreate")
        /\ \/ /\ Bound(mem, n)
              /\ Goto(p, "snReleaseOld")
              /\ UNCHANGED <<mem, disk>>
           \/ /\ CanSnapshot(mem, Root, n)
              /\ mem' = TakeSnapshot(mem, Root, n)
              /\ disk' = mem'
              /\ Goto(p, "snReleaseNew")
           \/ /\ ~Bound(mem, n)
              /\ IOError \/ ~CanSnapshot(mem, Root, n)
              /\ Goto(p, "snReleaseFailed")
              /\ UNCHANGED <<mem, disk>>
        /\ UNCHANGED <<up, toplevel>>

\* Mutation of SnapshotRelease: an early return when the name is taken.
ReleaseUnlessOld(p) ==
    /\ \/ At(p, "snReleaseNew")    /\ Unmount(p, "snLookupNew")
       \/ At(p, "snReleaseOld")    /\ Goto(p, "snLookupOld") /\ UNCHANGED toplevel
       \/ At(p, "snReleaseFailed") /\ Unmount(p, "snFailed")
    /\ UNCHANGED <<mem, disk, up>>

SnapshotRelease(p) ==
    /\ \/ At(p, "snReleaseNew")    /\ Unmount(p, "snLookupNew")
       \/ At(p, "snReleaseOld")    /\ Unmount(p, "snLookupOld")
       \/ At(p, "snReleaseFailed") /\ Unmount(p, "snFailed")
    /\ UNCHANGED <<mem, disk, up>>

\* The ID is only wanted for the message, but failing to find it is an error.
\* Retention follows a new snapshot with an automatic name.
SnapshotLookup(p) ==
    LET n == proc[p].name
    IN  /\ \/ /\ At(p, "snLookupNew")
              /\ Bound(mem, n)
              /\ Goto(p, IF n \in AutoNames /\ MaxSnapshots > 0
                           THEN "evList" ELSE "snDone")
           \/ /\ At(p, "snLookupOld")
              /\ Bound(mem, n)
              /\ Goto(p, "snExisted")
           \/ /\ At(p, "snLookupNew") \/ At(p, "snLookupOld")
              /\ IOError \/ ~Bound(mem, n)
              /\ Goto(p, "snFailed")
        /\ UNCHANGED <<mem, disk, up, toplevel>>

-----------------------------------------------------------------------------
(* retention and delete                                                    *)

AutoEntries(v) ==
    {[id |-> v.names[n], name |-> n] : n \in (Entries(v) \cap AutoNames) \ Protected}

\* Mutations of Oldest: one too many, and one too few.
OneMore(entries) ==
    {e \in entries :
        Cardinality({f \in entries : f.id >= e.id}) >= MaxSnapshots}
OneLess(entries) ==
    {e \in entries :
        Cardinality({f \in entries : f.id > e.id}) > MaxSnapshots}

\* The count - MaxSnapshots oldest of a set of entries, by subvolume ID.
Oldest(entries) ==
    {e \in entries :
        Cardinality({f \in entries : f.id >= e.id}) > MaxSnapshots}

\* A list or an fstab that cannot be read only makes the command skip retention.
RetainList(p) ==
    /\ At(p, "evList")
    /\ LET evict == Oldest(AutoEntries(mem))
       IN  \/ /\ evict # {}
              /\ proc' = [proc EXCEPT ![p].pc = "evLookup", ![p].todo = evict]
           \/ /\ evict = {} \/ IOError
              /\ Goto(p, "snDone")
    /\ UNCHANGED <<mem, disk, up, toplevel>>

\* The argument of delete is resolved to a name, as that of rollback is.
DeleteArgument(p, n) ==
    /\ At(p, "idle")
    /\ n \in Entries(mem)
    /\ proc' = [proc EXCEPT ![p] =
                   [Idle EXCEPT !.pc   = "dlLookup",
                                !.name = n,
                                !.todo = {[id |-> mem.names[n], name |-> n]}]]
    /\ UNCHANGED <<mem, disk, up, toplevel>>

Current(p) == CHOOSE e \in proc[p].todo : \A f \in proc[p].todo : e.id <= f.id

\* After one entry: retention goes on with the next, whatever happened to this.
Finish(p, outcome) ==
    LET rest == proc[p].todo \ {Current(p)}
    IN  proc' = [proc EXCEPT
            ![p].todo = rest,
            ![p].id   = NoId,
            ![p].pc   = IF At(p, "dlLookup") \/ At(p, "dlDelete") THEN outcome
                        ELSE IF rest = {} THEN "snDone" ELSE "evLookup"]

\* Mutation of DeleteLookup: without the fstab guard.
DeleteLookupUnguarded(p) ==
    LET n == Current(p).name
    IN  /\ At(p, "evLookup") \/ At(p, "dlLookup")
        /\ \/ /\ Bound(mem, n)
              /\ proc' = [proc EXCEPT
                    ![p].id = mem.names[n],
                    ![p].pc = IF At(p, "evLookup") THEN "evDelete" ELSE "dlDelete"]
           \/ /\ ~Bound(mem, n) \/ IOError
              /\ Finish(p, "dlFailed")
        /\ UNCHANGED <<mem, disk, up, toplevel>>

\* delete(), first half: the fstab guard and the subvolume the name stands for.
DeleteLookup(p) ==
    LET n == Current(p).name
    IN  /\ At(p, "evLookup") \/ At(p, "dlLookup")
        /\ \/ /\ n \notin Protected
              /\ Bound(mem, n)
              /\ proc' = [proc EXCEPT
                    ![p].id = mem.names[n],
                    ![p].pc = IF At(p, "evLookup") THEN "evDelete" ELSE "dlDelete"]
           \/ /\ n \in Protected \/ ~Bound(mem, n) \/ IOError
              /\ Finish(p, "dlFailed")
        /\ UNCHANGED <<mem, disk, up, toplevel>>

\* delete(), second half: btrfs deletes by the ID, not by the name.
DeleteById(p) ==
    LET id == proc[p].id
    IN  /\ At(p, "evDelete") \/ At(p, "dlDelete")
        /\ \/ /\ CanDelete(mem, id)
              /\ mem' = DeleteSubvol(mem, id)
              /\ Finish(p, "dlDone")
           \/ /\ ~CanDelete(mem, id) \/ IOError
              /\ Finish(p, "dlFailed")
              /\ UNCHANGED mem
        /\ UNCHANGED <<disk, up, toplevel>>

-----------------------------------------------------------------------------
(* list, rename-legacy-snapshot                                            *)

SnapshotList(p) ==
    /\ \/ At(p, "lsMount")   /\ Mount(p, "lsRelease", "lsDone")
       \/ At(p, "lsRelease") /\ Unmount(p, "lsDone")
    /\ UNCHANGED <<mem, disk, up>>

\* The new name is the creation time of the legacy snapshot.  Nothing is renamed
\* when there is none, or when a subvolume has the new name already, which
\* rename(2) does not replace.
RenameLegacy(p) ==
    /\ \/ /\ At(p, "lgMount")
          /\ Mount(p, "lgRename", "lgDone")
          /\ UNCHANGED mem
       \/ /\ At(p, "lgRename")
          /\ \/ \E n \in AutoNames :
                   /\ Bound(mem, Legacy) /\ ~Bound(mem, n)
                   /\ mem' = Renamed(mem, Legacy, n)
             \/ UNCHANGED mem
          /\ Goto(p, "lgRelease")
          /\ UNCHANGED toplevel
       \/ /\ At(p, "lgRelease")
          /\ Unmount(p, "lgDone")
          /\ UNCHANGED mem
    /\ UNCHANGED <<disk, up>>

-----------------------------------------------------------------------------
SnapshotExit(p) ==
    /\ proc[p].pc \in {"snDone", "snExisted", "snNotBtrfs", "snFailed",
                       "dlDone", "dlFailed", "lsDone", "lgDone"}
    /\ proc' = [proc EXCEPT ![p] = Idle]
    /\ UNCHANGED <<mem, disk, up, toplevel>>

DeleteStart(p) == \E n \in Names : DeleteArgument(p, n)
CreateStart(p) == \E n \in Names : SnapshotCreate(p, n)
ListStart(p)   == Start(p, "lsMount", Root)
LegacyStart(p) == Start(p, "lgMount", Legacy)

SnapshotStep(p) ==
    \/ SnapshotMount(p)
    \/ TakeOrKeep(p)
    \/ SnapshotRelease(p)
    \/ SnapshotLookup(p)
    \/ RetainList(p)
    \/ DeleteLookup(p)
    \/ DeleteById(p)
    \/ SnapshotList(p)
    \/ RenameLegacy(p)
    \/ SnapshotExit(p)

=============================================================================
