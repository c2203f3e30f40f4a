----------------------------- MODULE AtomicSwap -----------------------------
(***************************************************************************)
(* What a rollback promises, seen by everything else on the machine: in    *)
(* one step the root name and the name of a bootable snapshot trade their  *)
(* subvolumes and the new root becomes the default subvolume; or nothing   *)
(* happens.  The one exception is an exchange that could not be undone,    *)
(* and then the command is on record as CRITICAL.                          *)
(***************************************************************************)
CONSTANTS Names, Root, Ids, NoId, Procs

VARIABLES
    names,     \* which subvolume each name stands for
    default,   \* the default subvolume
    bootable,  \* the subvolumes whose boot chain verifies
    critical   \* the processes that report a swap they could not undo

vars == <<names, default, bootable, critical>>

Traded(n) == [names EXCEPT ![Root] = names[n], ![n] = names[Root]]

Init ==
    /\ names \in [Names -> Ids \cup {NoId}]
    /\ names[Root] # NoId
    /\ default = names[Root]
    /\ bootable \subseteq Ids
    /\ critical = {}

Rollback(n) ==
    /\ names[n] \in bootable
    /\ names' = Traded(n)
    /\ default' = names[n]
    /\ UNCHANGED <<bootable, critical>>

HalfDone(p, n) ==
    /\ p \notin critical
    /\ names[n] \in bootable
    /\ names' = Traded(n)
    /\ critical' = critical \cup {p}
    /\ UNCHANGED <<default, bootable>>

Report(p) ==
    /\ p \in critical
    /\ critical' = critical \ {p}
    /\ UNCHANGED <<names, default, bootable>>

Next ==
    \/ \E n \in Names : Rollback(n)
    \/ \E p \in Procs : \E n \in Names : HalfDone(p, n)
    \/ \E p \in Procs : Report(p)

Spec == Init /\ [][Next]_vars

=============================================================================
