---------------------------- MODULE MCLifecycle ----------------------------
(* Instances of Lifecycle for TLC. *)
EXTENDS Lifecycle, TLC

CONSTANTS root, a1, a2, old

MCNames == {root, a1, a2, old}
MCAuto  == {a1, a2}
MCRevs  == {"v1", "v2", "none"}

Image(r) == [rev |-> r, mounts |-> {root}]

\* A freshly migrated system without snapshots, and one that was upgraded from
\* the fixed-name era.
MCStart(n) ==
    {[names   |-> root :> 1 @@ a1 :> NoId @@ a2 :> NoId @@ old :> l,
      default |-> 1,
      next    |-> IF l = NoId THEN 2 ELSE 3,
      image   |-> [i \in 1..n |-> IF i = 1 \/ i = l THEN Image("v1") ELSE NoImage]] :
        l \in {NoId, 2}}

MCStart3 == MCStart(3)

Symmetry == Permutations(Procs)

\* The automatic names are interchangeable: the code orders snapshots by ID.
AutoSymmetry == Permutations(MCAuto)

=============================================================================
