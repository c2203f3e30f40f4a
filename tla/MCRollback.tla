----------------------------- MODULE MCRollback -----------------------------
(* Instances of Rollback for TLC: a root, a separate /var and two snapshots, *)
(* whose boot files may or may not verify and whose fstab may or may not     *)
(* mount /var.                                                               *)
EXTENDS Rollback, TLC

CONSTANTS root, var, s1, s2

MCNames == {root, var, s1, s2}
MCMaxId == 4
MCRevs == {"good", "bad", "none"}

Image(r, m) == [rev |-> r, mounts |-> m]

\* A freshly migrated system with two snapshots, IDs in the order of creation;
\* v is the subvolume named var (NoId: /var was never separated), r, i and j are
\* the images of the root and of the two snapshots.
MCVolume(v, r, i, j) ==
    [names   |-> root :> 1 @@ var :> v @@ s1 :> 3 @@ s2 :> 4,
     default |-> 1,
     next    |-> 5,
     image   |-> <<r, NoImage, i, j>>]

Plain == Image("good", {root})
Full  == Image("good", {root, var})

MCStart ==
    {\* the running root and one snapshot do not boot any more
     MCVolume(2, Image("bad", {root}), Full, Image("bad", {root, var})),
     \* one snapshot mounts a /var that does not exist
     MCVolume(NoId, Plain, Full, Plain)}

\* The above, and a system on which a rollback may be repeated to either
\* snapshot before the reboot.
MCStartAll == MCStart \cup {MCVolume(2, Full, Full, Plain)}

Symmetry == Permutations(Procs)

=============================================================================
