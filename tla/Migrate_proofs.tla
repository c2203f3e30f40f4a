--------------------------- MODULE Migrate_proofs ---------------------------
(***************************************************************************)
(* What setup and migrate keep, for every choice of commands, of faults    *)
(* and of what else happens: the gate is sound, the chain to the root      *)
(* stays, and a command that says complete is.  With power losses alone,   *)
(* fstab names no subvolume that is not filled, and the steps are those of *)
(* proof.rs in their order.                                                *)
(***************************************************************************)
EXTENDS Migrate, TLAPS

\* What GRUB needs of the volume v once the ESP points to it, when it boots what is under
\* the name s there.
BtrfsReady(v, s) ==
    /\ BootFiles \subseteq v[s].boot
    /\ v[s].links
    /\ v[s].nocow
    /\ v.default = "root"

\* The subvolume that fstab names is there.
VarFound(v) == "/var" \in v.root.fstab => v.var # "absent"

\* The layout the command c makes of the volume v when it runs from the subvolume s of it.
Migrated(v, s, c) ==
    /\ "/var" \in v[s].fstab /\ v.var # "absent"
    /\ v.default = "root"
    /\ c = "migrate" => "/boot" \notin v[s].fstab

\* The steps behind that of the name.
AfterEsp     == {"gate9", "look10", "top", "snap", "clean", "create", "fill", "drop",
                 "untop", "varfstab", "mountvar", "gate10", "sync", "hook", "chmod", "done"}
AfterGrubenv == {"gate8", "stub", "esp"} \cup AfterEsp
AfterFstab   == {"gate5", "initramfs", "gate6", "grubcfg", "gate7", "grubenv"} \cup AfterGrubenv
AfterSwitch  == {"mountefi4", "gate4", "fstab"} \cup AfterFstab
AfterDefault == {"gate3", "look4", "umountefi4", "umountboot4"} \cup AfterSwitch
AfterLinks   == {"gate2", "default"} \cup AfterDefault
AfterCopy    == {"umountold", "mountboot1", "mountefi1", "links"} \cup AfterLinks

\* What the steps of migrate before pc have made in the root the system runs from; no step,
\* and no rollback, takes it back.
BootMade ==
    command = "migrate" =>
      /\ pc \in AfterCopy => BootFiles \subseteq Here.boot
      /\ pc = "gate1" /\ "/boot" \in mounts => BootFiles \subseteq Here.boot
      /\ pc \in AfterLinks => Here.links
      /\ pc \in AfterSwitch => "/boot" \notin mounts
      /\ pc \in AfterFstab => "/boot" \notin Here.fstab
      /\ pc \in AfterGrubenv => Here.nocow
      /\ pc \in AfterEsp => esp = "btrfs"

\* What step 10, and the steps of both commands before it, have made.
VarMade ==
    /\ pc \in AfterDefault => live.default = "root"
    /\ "/var" \in mounts => "/var" \in Here.fstab /\ "top" \notin mounts
    /\ pc = "top" => "/var" \notin mounts
    /\ pc \in {"varfstab", "mountvar"} => "top" \notin mounts
    /\ pc = "mountvar" => "/var" \in Here.fstab
    /\ pc \in {"gate10", "sync", "hook", "chmod", "done"} => "/var" \in mounts
    /\ pc \in {"sync", "hook", "chmod", "done"} => live.var # "absent"
    /\ pc \in {"hook", "chmod", "done"} =>
         /\ Migrated(disk, running, command)
         /\ esp = "btrfs" => BtrfsReady(disk, running)

\* The partition that an interrupted step 1 leaves mounted apart: the ESP stays unmounted as
\* long as it is, so that no command gets past its first gate.
OldBootMade ==
    /\ "/mnt/old-boot" \in mounts => "/boot/efi" \notin mounts
    /\ pc \in {"mountold", "copy", "umountold"} => "/boot/efi" \notin mounts
    /\ pc \in {"mountboot1", "mountefi1", "look4", "umountefi4", "umountboot4", "mountefi4"} =>
         "/mnt/old-boot" \notin mounts
    /\ pc \in {"sync", "hook", "chmod", "done"} => "/boot/efi" \in mounts

\* The inductive invariant of setup and migrate, whatever interrupts them.
MigrateInv ==
    /\ MigrateTypeOK
    /\ esp = "btrfs" => BtrfsReady(live, running)
    /\ BootMade
    /\ VarMade
    /\ OldBootMade

-----------------------------------------------------------------------------
(* The plans.                                                              *)

\* The plan of migrate, step by step; no step comes twice.
LEMMA MigratePlanSteps ==
    /\ DOMAIN MigratePlan = 1..45
    /\ MigratePlan[1] = "gate0" /\ MigratePlan[2] = "look1" /\ MigratePlan[3] = "umountefi1"
    /\ MigratePlan[4] = "umountboot1" /\ MigratePlan[5] = "mountold" /\ MigratePlan[6] = "copy"
    /\ MigratePlan[7] = "umountold" /\ MigratePlan[8] = "mountboot1"
    /\ MigratePlan[9] = "mountefi1" /\ MigratePlan[10] = "gate1" /\ MigratePlan[11] = "links"
    /\ MigratePlan[12] = "gate2" /\ MigratePlan[13] = "default" /\ MigratePlan[14] = "gate3"
    /\ MigratePlan[15] = "look4" /\ MigratePlan[16] = "umountefi4"
    /\ MigratePlan[17] = "umountboot4" /\ MigratePlan[18] = "mountefi4"
    /\ MigratePlan[19] = "gate4" /\ MigratePlan[20] = "fstab" /\ MigratePlan[21] = "gate5"
    /\ MigratePlan[22] = "initramfs" /\ MigratePlan[23] = "gate6" /\ MigratePlan[24] = "grubcfg"
    /\ MigratePlan[25] = "gate7" /\ MigratePlan[26] = "grubenv" /\ MigratePlan[27] = "gate8"
    /\ MigratePlan[28] = "stub" /\ MigratePlan[29] = "esp" /\ MigratePlan[30] = "gate9"
    /\ MigratePlan[31] = "look10" /\ MigratePlan[32] = "top" /\ MigratePlan[33] = "snap"
    /\ MigratePlan[34] = "clean" /\ MigratePlan[35] = "create" /\ MigratePlan[36] = "fill"
    /\ MigratePlan[37] = "drop" /\ MigratePlan[38] = "untop" /\ MigratePlan[39] = "varfstab"
    /\ MigratePlan[40] = "mountvar" /\ MigratePlan[41] = "gate10" /\ MigratePlan[42] = "sync"
    /\ MigratePlan[43] = "hook" /\ MigratePlan[44] = "chmod" /\ MigratePlan[45] = "done"
    /\ \A i, j \in 1..45 : MigratePlan[i] = MigratePlan[j] => i = j
<1>1. DOMAIN MigratePlan = 1..45
  BY DEF MigratePlan, SeparateVar
<1>2. /\ MigratePlan[1] = "gate0" /\ MigratePlan[2] = "look1" /\ MigratePlan[3] = "umountefi1"
      /\ MigratePlan[4] = "umountboot1" /\ MigratePlan[5] = "mountold"
      /\ MigratePlan[6] = "copy" /\ MigratePlan[7] = "umountold"
      /\ MigratePlan[8] = "mountboot1" /\ MigratePlan[9] = "mountefi1"
      /\ MigratePlan[10] = "gate1" /\ MigratePlan[11] = "links" /\ MigratePlan[12] = "gate2"
      /\ MigratePlan[13] = "default" /\ MigratePlan[14] = "gate3" /\ MigratePlan[15] = "look4"
      /\ MigratePlan[16] = "umountefi4" /\ MigratePlan[17] = "umountboot4"
      /\ MigratePlan[18] = "mountefi4" /\ MigratePlan[19] = "gate4" /\ MigratePlan[20] = "fstab"
      /\ MigratePlan[21] = "gate5" /\ MigratePlan[22] = "initramfs" /\ MigratePlan[23] = "gate6"
      /\ MigratePlan[24] = "grubcfg" /\ MigratePlan[25] = "gate7" /\ MigratePlan[26] = "grubenv"
      /\ MigratePlan[27] = "gate8" /\ MigratePlan[28] = "stub" /\ MigratePlan[29] = "esp"
      /\ MigratePlan[30] = "gate9" /\ MigratePlan[31] = "look10" /\ MigratePlan[32] = "top"
      /\ MigratePlan[33] = "snap" /\ MigratePlan[34] = "clean" /\ MigratePlan[35] = "create"
      /\ MigratePlan[36] = "fill" /\ MigratePlan[37] = "drop" /\ MigratePlan[38] = "untop"
      /\ MigratePlan[39] = "varfstab" /\ MigratePlan[40] = "mountvar"
      /\ MigratePlan[41] = "gate10" /\ MigratePlan[42] = "sync" /\ MigratePlan[43] = "hook"
      /\ MigratePlan[44] = "chmod" /\ MigratePlan[45] = "done"
  BY DEF MigratePlan, SeparateVar
<1>3. \A i, j \in 1..45 : MigratePlan[i] = MigratePlan[j] => i = j
  BY DEF MigratePlan, SeparateVar
<1>4. QED BY <1>1, <1>2, <1>3

\* What follows each step of migrate.
LEMMA MigrateOnward ==
    LET F == Following["migrate"]
    IN  /\ F["gate0"] = "look1" /\ F["look1"] = "umountefi1" /\ F["umountefi1"] = "umountboot1"
        /\ F["umountboot1"] = "mountold" /\ F["mountold"] = "copy" /\ F["copy"] = "umountold"
        /\ F["umountold"] = "mountboot1" /\ F["mountboot1"] = "mountefi1"
        /\ F["mountefi1"] = "gate1" /\ F["gate1"] = "links" /\ F["links"] = "gate2"
        /\ F["gate2"] = "default" /\ F["default"] = "gate3" /\ F["gate3"] = "look4"
        /\ F["look4"] = "umountefi4" /\ F["umountefi4"] = "umountboot4"
        /\ F["umountboot4"] = "mountefi4" /\ F["mountefi4"] = "gate4" /\ F["gate4"] = "fstab"
        /\ F["fstab"] = "gate5" /\ F["gate5"] = "initramfs" /\ F["initramfs"] = "gate6"
        /\ F["gate6"] = "grubcfg" /\ F["grubcfg"] = "gate7" /\ F["gate7"] = "grubenv"
        /\ F["grubenv"] = "gate8" /\ F["gate8"] = "stub" /\ F["stub"] = "esp"
        /\ F["esp"] = "gate9" /\ F["gate9"] = "look10" /\ F["look10"] = "top"
        /\ F["top"] = "snap" /\ F["snap"] = "clean" /\ F["clean"] = "create"
        /\ F["create"] = "fill" /\ F["fill"] = "drop" /\ F["drop"] = "untop"
        /\ F["untop"] = "varfstab" /\ F["varfstab"] = "mountvar" /\ F["mountvar"] = "gate10"
        /\ F["gate10"] = "sync" /\ F["sync"] = "hook" /\ F["hook"] = "chmod"
        /\ F["chmod"] = "done"
<1> DEFINE P == MigratePlan
<1>1. Plan["migrate"] = P /\ "migrate" \in DOMAIN Plan
  BY DEF Plan
<1>2. ASSUME NEW i \in 1..44
      PROVE  Following["migrate"][P[i]] = P[1 + i]
  <2>1. P[i] \in Labels("migrate") \ {"done"}
    BY <1>1, MigratePlanSteps DEF Labels
  <2>2. (CHOOSE j \in DOMAIN P : P[j] = P[i]) = i
    BY MigratePlanSteps
  <2>3. QED BY <1>1, <2>1, <2>2 DEF Following
<1>3. QED BY <1>2, MigratePlanSteps

\* The steps of migrate are the labels it has.
LEMMA MigrateLabels ==
    Labels("migrate") = {
        "gate0", "look1", "umountefi1", "umountboot1", "mountold", "copy", "umountold",
        "mountboot1", "mountefi1", "gate1", "links", "gate2", "default", "gate3", "look4",
        "umountefi4", "umountboot4", "mountefi4", "gate4", "fstab", "gate5", "initramfs",
        "gate6", "grubcfg", "gate7", "grubenv", "gate8", "stub", "esp", "gate9", "look10",
        "top", "snap", "clean", "create", "fill", "drop", "untop", "varfstab", "mountvar",
        "gate10", "sync", "hook", "chmod", "done"}
<1>1. Plan["migrate"] = MigratePlan
  BY DEF Plan
<1>2. QED BY <1>1, MigratePlanSteps DEF Labels

\* The plan of setup, step by step; no step comes twice.
LEMMA SetupPlanSteps ==
    /\ DOMAIN SetupPlan = 1..16
    /\ SetupPlan[1] = "gate0" /\ SetupPlan[2] = "default" /\ SetupPlan[3] = "gate3"
    /\ SetupPlan[4] = "look10" /\ SetupPlan[5] = "top" /\ SetupPlan[6] = "snap"
    /\ SetupPlan[7] = "clean" /\ SetupPlan[8] = "create" /\ SetupPlan[9] = "fill"
    /\ SetupPlan[10] = "drop" /\ SetupPlan[11] = "untop" /\ SetupPlan[12] = "varfstab"
    /\ SetupPlan[13] = "mountvar" /\ SetupPlan[14] = "gate10" /\ SetupPlan[15] = "sync"
    /\ SetupPlan[16] = "done"
    /\ \A i, j \in 1..16 : SetupPlan[i] = SetupPlan[j] => i = j
<1>1. DOMAIN SetupPlan = 1..16
  BY DEF SetupPlan, SeparateVar
<1>2. /\ SetupPlan[1] = "gate0" /\ SetupPlan[2] = "default" /\ SetupPlan[3] = "gate3"
      /\ SetupPlan[4] = "look10" /\ SetupPlan[5] = "top" /\ SetupPlan[6] = "snap"
      /\ SetupPlan[7] = "clean" /\ SetupPlan[8] = "create" /\ SetupPlan[9] = "fill"
      /\ SetupPlan[10] = "drop" /\ SetupPlan[11] = "untop" /\ SetupPlan[12] = "varfstab"
      /\ SetupPlan[13] = "mountvar" /\ SetupPlan[14] = "gate10" /\ SetupPlan[15] = "sync"
      /\ SetupPlan[16] = "done"
  BY DEF SetupPlan, SeparateVar
<1>3. \A i, j \in 1..16 : SetupPlan[i] = SetupPlan[j] => i = j
  BY DEF SetupPlan, SeparateVar
<1>4. QED BY <1>1, <1>2, <1>3

\* What follows each step of setup.
LEMMA SetupOnward ==
    LET F == Following["setup"]
    IN  /\ F["gate0"] = "default" /\ F["default"] = "gate3" /\ F["gate3"] = "look10"
        /\ F["look10"] = "top" /\ F["top"] = "snap" /\ F["snap"] = "clean"
        /\ F["clean"] = "create" /\ F["create"] = "fill" /\ F["fill"] = "drop"
        /\ F["drop"] = "untop" /\ F["untop"] = "varfstab" /\ F["varfstab"] = "mountvar"
        /\ F["mountvar"] = "gate10" /\ F["gate10"] = "sync" /\ F["sync"] = "done"
<1> DEFINE P == SetupPlan
<1>1. Plan["setup"] = P /\ "setup" \in DOMAIN Plan
  BY DEF Plan
<1>2. ASSUME NEW i \in 1..15
      PROVE  Following["setup"][P[i]] = P[1 + i]
  <2>1. P[i] \in Labels("setup") \ {"done"}
    BY <1>1, SetupPlanSteps DEF Labels
  <2>2. (CHOOSE j \in DOMAIN P : P[j] = P[i]) = i
    BY SetupPlanSteps
  <2>3. QED BY <1>1, <2>1, <2>2 DEF Following
<1>3. QED BY <1>2, SetupPlanSteps

\* The steps of setup are the labels it has.
LEMMA SetupLabels ==
    Labels("setup") = {
        "gate0", "default", "gate3", "look10", "top", "snap", "clean", "create", "fill",
        "drop", "untop", "varfstab", "mountvar", "gate10", "sync", "done"}
<1>1. Plan["setup"] = SetupPlan
  BY DEF Plan
<1>2. QED BY <1>1, SetupPlanSteps DEF Labels

\* Where a command goes on from each of its steps.
LEMMA OnwardFrom ==
    ASSUME command \in {"migrate", "setup"}, pc \in Labels(command), pc # "done", Onward
    PROVE  /\ pc' \in Labels(command)
           /\ pc = "gate0" => pc' = IF command = "migrate" THEN "look1" ELSE "default"
           /\ pc = "look1" => command = "migrate" /\ pc' = "umountefi1"
           /\ pc = "umountefi1" => command = "migrate" /\ pc' = "umountboot1"
           /\ pc = "umountboot1" => command = "migrate" /\ pc' = "mountold"
           /\ pc = "mountold" => command = "migrate" /\ pc' = "copy"
           /\ pc = "copy" => command = "migrate" /\ pc' = "umountold"
           /\ pc = "umountold" => command = "migrate" /\ pc' = "mountboot1"
           /\ pc = "mountboot1" => command = "migrate" /\ pc' = "mountefi1"
           /\ pc = "mountefi1" => command = "migrate" /\ pc' = "gate1"
           /\ pc = "gate1" => command = "migrate" /\ pc' = "links"
           /\ pc = "links" => command = "migrate" /\ pc' = "gate2"
           /\ pc = "gate2" => command = "migrate" /\ pc' = "default"
           /\ pc = "default" => pc' = "gate3"
           /\ pc = "gate3" => pc' = IF command = "migrate" THEN "look4" ELSE "look10"
           /\ pc = "look4" => command = "migrate" /\ pc' = "umountefi4"
           /\ pc = "umountefi4" => command = "migrate" /\ pc' = "umountboot4"
           /\ pc = "umountboot4" => command = "migrate" /\ pc' = "mountefi4"
           /\ pc = "mountefi4" => command = "migrate" /\ pc' = "gate4"
           /\ pc = "gate4" => command = "migrate" /\ pc' = "fstab"
           /\ pc = "fstab" => command = "migrate" /\ pc' = "gate5"
           /\ pc = "gate5" => command = "migrate" /\ pc' = "initramfs"
           /\ pc = "initramfs" => command = "migrate" /\ pc' = "gate6"
           /\ pc = "gate6" => command = "migrate" /\ pc' = "grubcfg"
           /\ pc = "grubcfg" => command = "migrate" /\ pc' = "gate7"
           /\ pc = "gate7" => command = "migrate" /\ pc' = "grubenv"
           /\ pc = "grubenv" => command = "migrate" /\ pc' = "gate8"
           /\ pc = "gate8" => command = "migrate" /\ pc' = "stub"
           /\ pc = "stub" => command = "migrate" /\ pc' = "esp"
           /\ pc = "esp" => command = "migrate" /\ pc' = "gate9"
           /\ pc = "gate9" => command = "migrate" /\ pc' = "look10"
           /\ pc = "look10" => pc' = "top"
           /\ pc = "top" => pc' = "snap"
           /\ pc = "snap" => pc' = "clean"
           /\ pc = "clean" => pc' = "create"
           /\ pc = "create" => pc' = "fill"
           /\ pc = "fill" => pc' = "drop"
           /\ pc = "drop" => pc' = "untop"
           /\ pc = "untop" => pc' = "varfstab"
           /\ pc = "varfstab" => pc' = "mountvar"
           /\ pc = "mountvar" => pc' = "gate10"
           /\ pc = "gate10" => pc' = "sync"
           /\ pc = "sync" => pc' = IF command = "migrate" THEN "hook" ELSE "done"
           /\ pc = "hook" => command = "migrate" /\ pc' = "chmod"
           /\ pc = "chmod" => command = "migrate" /\ pc' = "done"
<1>1. CASE command = "migrate"
  BY <1>1, MigrateOnward, MigrateLabels DEF Onward
<1>2. CASE command = "setup"
  BY <1>2, SetupOnward, SetupLabels DEF Onward
<1>3. QED BY <1>1, <1>2

-----------------------------------------------------------------------------
(* Types.                                                                  *)

\* A label that both commands have, and no other, does not tell which one runs.
LEMMA CommandLabels ==
    ASSUME MigrateTypeOK
    PROVE  /\ command \in {"migrate", "setup"}
           /\ Labels("setup") \subseteq Labels("migrate")
           /\ "gate0" \in Labels(command) /\ "gate10" \in Labels(command)
           /\ "done" \in Labels(command)
           /\ "idle" \notin Labels(command) /\ "failed" \notin Labels(command)
           /\ pc \in {"look1", "look4"} =>
                  command = "migrate" /\ "gate1" \in Labels(command) /\ "gate4" \in Labels(command)
  BY MigrateAssumption, MigrateLabels, SetupLabels DEF MigrateTypeOK

\* Every change a step makes inside a root gives a root.
LEMMA ImageChanges ==
    ASSUME NEW r \in RootImages
    PROVE  /\ [r EXCEPT !.boot = BootFiles, !.rebuilt = {}] \in RootImages
           /\ \A f \in BootFiles : [r EXCEPT !.boot = @ \cup {f}, !.rebuilt = {}] \in RootImages
           /\ [r EXCEPT !.links = TRUE] \in RootImages
           /\ [r EXCEPT !.nocow = TRUE] \in RootImages
           /\ [r EXCEPT !.fstab = @ \ {"/boot"}] \in RootImages
           /\ [r EXCEPT !.fstab = @ \cup {"/var"}] \in RootImages
           /\ [r EXCEPT !.rebuilt = @ \cup {"initramfs"}] \in RootImages
           /\ [r EXCEPT !.rebuilt = @ \cup {"grub.cfg"}] \in RootImages
           /\ [r EXCEPT !.hook = "plain"] \in RootImages
           /\ [r EXCEPT !.hook = "executable"] \in RootImages
  BY DEF RootImages

\* Every change a step makes of the rest of the volume gives a volume.
LEMMA VolumeChanges ==
    ASSUME NEW v \in VolumeStates
    PROVE  /\ v.root \in RootImages /\ v.snap \in RootImages
           /\ v.root.var \in VarContents
           /\ [v EXCEPT !.default = "root"] \in VolumeStates
           /\ [v EXCEPT !.var = "absent"] \in VolumeStates
           /\ [v EXCEPT !.var = "empty"] \in VolumeStates
           /\ [v EXCEPT !.var = v.aside] \in VolumeStates
           /\ [v EXCEPT !.aside = "absent"] \in VolumeStates
           /\ [v EXCEPT !.aside = v.root.var] \in VolumeStates
           /\ [v EXCEPT !.snap = v.root] \in VolumeStates
           /\ [v EXCEPT !.root = v.snap, !.snap = v.root, !.default = "root"] \in VolumeStates
  BY DEF VolumeStates, RootImages, VarContents

\* A step that leaves the root it runs from alone.
HereStays == Here' = Here

\* A step that changes nothing but that root.
ApartStays == live'.var = live.var /\ live'.aside = live.aside /\ live'.default = live.default

\* What is mounted as /, with another content.
LEMMA WithHereIs ==
    ASSUME live \in VolumeStates, running \in {"root", "snap"}, running' = running,
           NEW r \in RootImages, live' = WithHere(r)
    PROVE  live' \in VolumeStates /\ Here' = r /\ ApartStays
<1>1. live' = [live EXCEPT ![running] = r]
  BY DEF WithHere
<1>2. CASE running = "root"
  BY <1>1, <1>2 DEF VolumeStates, Here, ApartStays
<1>3. CASE running = "snap"
  BY <1>1, <1>3 DEF VolumeStates, Here, ApartStays
<1>4. QED BY <1>2, <1>3

\* What is mounted as / when something else of the volume changes.
LEMMA HereKept ==
    ASSUME live \in VolumeStates, running \in {"root", "snap"}, running' = running
    PROVE  /\ Here \in RootImages
           /\ UNCHANGED live => HereStays /\ ApartStays
           /\ live' = [live EXCEPT !.default = "root"] =>
                /\ HereStays /\ live'.default = "root"
                /\ live'.var = live.var /\ live'.aside = live.aside
           /\ \A x \in VarContents \cup {"absent"} :
                /\ live' = [live EXCEPT !.var = x] =>
                     /\ HereStays /\ live'.var = x
                     /\ live'.default = live.default /\ live'.aside = live.aside
                /\ live' = [live EXCEPT !.aside = x] =>
                     /\ HereStays /\ live'.aside = x
                     /\ live'.default = live.default /\ live'.var = live.var
<1>1. CASE running = "root"
  BY <1>1 DEF VolumeStates, Here, HereStays, ApartStays
<1>2. CASE running = "snap"
  BY <1>2 DEF VolumeStates, Here, HereStays, ApartStays
<1>3. QED BY <1>1, <1>2

\* A step changes the root to r and goes on, or fails and changes nothing.
Edits(r) ==
    /\ live' \in VolumeStates
    /\ \/ Here' = r /\ ApartStays /\ Onward
       \/ IOError /\ Fail /\ UNCHANGED live /\ HereStays
    /\ UNCHANGED <<disk, esp, espDisk, mounts>>

\* A tool that changes the root.
LEMMA ChangesEdit ==
    ASSUME live \in VolumeStates, running \in {"root", "snap"}, running' = running,
           NEW r \in RootImages, Changes(WithHere(r))
    PROVE  Edits(r)
<1>1. CASE live' = WithHere(r) /\ Onward
  BY <1>1, WithHereIs DEF Changes, Edits
<1>2. CASE IOError /\ Fail /\ UNCHANGED live
  BY <1>2, HereKept DEF Changes, Edits
<1>3. QED BY <1>1, <1>2 DEF Changes

\* The steps that change the root, seen in it.
LEMMA RootSteps ==
    ASSUME live \in VolumeStates, running \in {"root", "snap"}, running' = running
    PROVE  /\ CreateSymlinks => pc = "links" /\ Edits([Here EXCEPT !.links = TRUE])
           /\ UpdateFstab => pc = "fstab" /\ Edits([Here EXCEPT !.fstab = @ \ {"/boot"}])
           /\ FixGrubenv => pc = "grubenv" /\ Edits([Here EXCEPT !.nocow = TRUE])
           /\ Regenerate =>
                \/ pc = "initramfs" /\ Edits([Here EXCEPT !.rebuilt = @ \cup {"initramfs"}])
                \/ pc = "grubcfg" /\ Edits([Here EXCEPT !.rebuilt = @ \cup {"grub.cfg"}])
           /\ AddVarToFstab =>
                pc = "varfstab" /\ Edits([Here EXCEPT !.fstab = @ \cup {"/var"}])
<1> USE HereKept, ImageChanges, ChangesEdit
<1>1. CreateSymlinks => pc = "links" /\ Edits([Here EXCEPT !.links = TRUE])
  BY DEF CreateSymlinks
<1>2. UpdateFstab => pc = "fstab" /\ Edits([Here EXCEPT !.fstab = @ \ {"/boot"}])
  BY DEF UpdateFstab
<1>3. FixGrubenv => pc = "grubenv" /\ Edits([Here EXCEPT !.nocow = TRUE])
  BY DEF FixGrubenv
<1>4. Regenerate =>
        \/ pc = "initramfs" /\ Edits([Here EXCEPT !.rebuilt = @ \cup {"initramfs"}])
        \/ pc = "grubcfg" /\ Edits([Here EXCEPT !.rebuilt = @ \cup {"grub.cfg"}])
  BY DEF Regenerate
<1>5. AddVarToFstab => pc = "varfstab" /\ Edits([Here EXCEPT !.fstab = @ \cup {"/var"}])
  BY DEF AddVarToFstab
<1>6. QED BY <1>1, <1>2, <1>3, <1>4, <1>5

\* rsync adds files to /boot and leaves the rest of the volume alone.
LEMMA CopyChanges ==
    ASSUME live \in VolumeStates, running \in {"root", "snap"}, running' = running, CopyBoot
    PROVE  /\ live' \in VolumeStates /\ ApartStays
           /\ Here.boot \subseteq Here'.boot
           /\ Here'.links = Here.links /\ Here'.nocow = Here.nocow
           /\ Here'.fstab = Here.fstab /\ Here'.var = Here.var
           /\ \/ Onward /\ Here'.boot = BootFiles
              \/ Fail /\ HereStays
              \/ UNCHANGED pc
<1>1. Here \in RootImages
  BY HereKept
<1>2. CASE Changes(WithHere([Here EXCEPT !.boot = BootFiles, !.rebuilt = {}]))
  <2> DEFINE r == [Here EXCEPT !.boot = BootFiles, !.rebuilt = {}]
  <2>1. r \in RootImages
    BY <1>1, ImageChanges
  <2>2. /\ r.boot = BootFiles /\ r.links = Here.links /\ r.nocow = Here.nocow
        /\ r.fstab = Here.fstab /\ r.var = Here.var /\ Here.boot \subseteq BootFiles
    BY <1>1 DEF RootImages
  <2> HIDE DEF r
  <2>3. Edits(r)
    BY <1>2, <2>1, ChangesEdit DEF r
  <2>4. QED BY <2>2, <2>3 DEF Edits, HereStays, ApartStays
<1>3. CASE \E f \in BootFiles \ Here.boot :
              live' = WithHere([Here EXCEPT !.boot = @ \cup {f}, !.rebuilt = {}]) /\ UNCHANGED pc
  <2>1. PICK f \in BootFiles :
               live' = WithHere([Here EXCEPT !.boot = @ \cup {f}, !.rebuilt = {}]) /\ UNCHANGED pc
    BY <1>3
  <2> DEFINE r == [Here EXCEPT !.boot = @ \cup {f}, !.rebuilt = {}]
  <2>2. r \in RootImages
    BY <1>1, ImageChanges
  <2>3. /\ r.links = Here.links /\ r.nocow = Here.nocow
        /\ r.fstab = Here.fstab /\ r.var = Here.var /\ Here.boot \subseteq r.boot
    BY <1>1 DEF RootImages
  <2> HIDE DEF r
  <2>4. live' \in VolumeStates /\ Here' = r /\ ApartStays
    BY <2>1, <2>2, WithHereIs DEF r
  <2>5. QED BY <2>1, <2>3, <2>4
<1>4. QED BY <1>2, <1>3 DEF CopyBoot

\* The steps that change the rest of the volume leave the root alone.
LEMMA ApartSteps ==
    ASSUME live \in VolumeStates, running \in {"root", "snap"}, running' = running,
           SetDefaultSubvol \/ FillVar \/ SnapshotRoot
    PROVE  /\ live' \in VolumeStates /\ HereStays
           /\ SetDefaultSubvol =>
                /\ live'.var = live.var /\ live'.aside = live.aside
                /\ (Fail /\ live'.default = live.default) \/ live'.default = "root"
           /\ SnapshotRoot => live'.var = live.var /\ live'.default = live.default
           /\ FillVar => live'.default = live.default
<1>1. /\ live.root.var \in VarContents \cup {"absent"}
      /\ live.aside \in VarContents \cup {"absent"}
      /\ "empty" \in VarContents \cup {"absent"}
  BY DEF VolumeStates, RootImages, VarContents
<1> USE HereKept, VolumeChanges
<1>2. CASE SetDefaultSubvol
  BY <1>2 DEF SetDefaultSubvol, Changes, ApartStays, FillVar, SnapshotRoot
<1>3. CASE FillVar
  BY <1>1, <1>3 DEF FillVar, Changes, ApartStays, SetDefaultSubvol, SnapshotRoot
<1>4. CASE SnapshotRoot
  <2>1. CASE live' = live
    BY <1>4, <2>1 DEF SnapshotRoot, ApartStays, SetDefaultSubvol, FillVar
  <2>2. CASE live' = [live EXCEPT !.aside = live.root.var]
    BY <1>1, <1>4, <2>2 DEF SnapshotRoot, SetDefaultSubvol, FillVar
  <2>3. CASE live' = [live EXCEPT !.aside = "absent"]
    BY <1>1, <1>4, <2>3 DEF SnapshotRoot, SetDefaultSubvol, FillVar
  <2>4. QED BY <1>4, <2>1, <2>2, <2>3 DEF SnapshotRoot
<1>5. QED BY <1>2, <1>3, <1>4

\* The hook is a file of the root.
LEMMA HookSteps ==
    ASSUME live \in VolumeStates, running \in {"root", "snap"}, running' = running, EnsureHooks
    PROVE  /\ live' \in VolumeStates /\ ApartStays
           /\ Here'.boot = Here.boot /\ Here'.links = Here.links /\ Here'.nocow = Here.nocow
           /\ Here'.fstab = Here.fstab /\ Here'.var = Here.var
<1>1. Here \in RootImages
  BY HereKept
<1>2. CASE UNCHANGED live
  BY <1>2, HereKept DEF HereStays
<1>3. ASSUME NEW h \in {"plain", "executable"}, live' = WithHere([Here EXCEPT !.hook = h])
      PROVE  /\ live' \in VolumeStates /\ ApartStays
             /\ Here' = [Here EXCEPT !.hook = h]
  <2>1. [Here EXCEPT !.hook = h] \in RootImages
    BY <1>1, ImageChanges
  <2>2. QED BY <1>3, <2>1, WithHereIs
<1>4. ASSUME NEW h \in {"plain", "executable"}, Here' = [Here EXCEPT !.hook = h]
      PROVE  /\ Here'.boot = Here.boot /\ Here'.links = Here.links /\ Here'.nocow = Here.nocow
             /\ Here'.fstab = Here.fstab /\ Here'.var = Here.var
  BY <1>1, <1>4 DEF RootImages
<1>5. CASE live' = WithHere([Here EXCEPT !.hook = "plain"])
  BY <1>3, <1>4, <1>5
<1>6. CASE live' = WithHere([Here EXCEPT !.hook = "executable"])
  BY <1>3, <1>4, <1>6
<1>7. QED BY <1>2, <1>5, <1>6 DEF EnsureHooks

\* The typing of the initial states.
LEMMA MigrateInitTyped == Init => MigrateTypeOK
<1> SUFFICES ASSUME Init PROVE MigrateTypeOK
  OBVIOUS
<1>1. Fresh \in VolumeStates /\ Cloud \in VolumeStates
  BY DEF Fresh, Cloud, Stock, VolumeStates, RootImages, VarContents, BootFiles
<1>2. \A v \in {Fresh, Cloud} : FstabMounts(v) \subseteq {"/boot", "/boot/efi", "/var"}
  BY <1>1 DEF VolumeStates, RootImages, FstabMounts
<1>3. QED BY <1>1, <1>2 DEF Init, MigrateTypeOK

\* A step leaves every variable in its range.
LEMMA MigrateStepTyped == MigrateTypeOK /\ [Next]_vars => MigrateTypeOK'
<1> SUFFICES ASSUME MigrateTypeOK, [Next]_vars PROVE MigrateTypeOK'
  OBVIOUS
<1> USE DEF MigrateTypeOK
<1>1. live \in VolumeStates /\ running \in {"root", "snap"}
  OBVIOUS
<1>2. \A v \in VolumeStates : FstabMounts(v) \subseteq {"/boot", "/boot/efi", "/var"}
  BY DEF VolumeStates, RootImages, FstabMounts
<1>3. CASE UNCHANGED vars
  BY <1>3 DEF vars
<1>4. CASE Start
  BY <1>4, CommandLabels, MigrateAssumption, MigrateLabels, SetupLabels DEF Start
<1>5. CASE Step
  <2>1. command' = command /\ running' = running
    BY <1>5 DEF Step
  <2> USE <2>1
  <2>2. CASE Gate
    BY <2>2, CommandLabels, OnwardFrom DEF Gate, Gates, Fail
  <2>3. CASE LookAtBoot
    BY <2>3, CommandLabels, OnwardFrom DEF LookAtBoot, Fail
  <2>4. CASE UmountBoot
    BY <2>4, CommandLabels, OnwardFrom DEF UmountBoot, Mounts, Fail
  <2>5. CASE OldBoot
    BY <2>5, CommandLabels, OnwardFrom DEF OldBoot, Mounts, Fail
  <2>6. CASE CopyBoot
    <3>1. live' \in VolumeStates
      BY <1>1, <2>6, CopyChanges
    <3>2. QED BY <2>6, <3>1, CommandLabels, OnwardFrom DEF CopyBoot, Changes, Fail
  <2>7. CASE MountBack
    BY <2>7, CommandLabels, OnwardFrom DEF MountBack, Mounts, Fail
  <2>8. CASE CreateSymlinks \/ UpdateFstab \/ Regenerate \/ FixGrubenv \/ AddVarToFstab
    <3>1. /\ live' \in VolumeStates /\ UNCHANGED <<disk, esp, espDisk, mounts>>
          /\ Onward \/ Fail
          /\ pc \in {"links", "fstab", "initramfs", "grubcfg", "grubenv", "varfstab"}
      BY <1>1, <2>8, RootSteps DEF Edits
    <3>2. QED BY <3>1, CommandLabels, OnwardFrom DEF Fail
  <2>9. CASE SetDefaultSubvol \/ FillVar \/ SnapshotRoot
    <3>1. live' \in VolumeStates
      BY <1>1, <2>9, ApartSteps
    <3>2. QED BY <2>9, <3>1, CommandLabels, OnwardFrom
      DEF SetDefaultSubvol, FillVar, SnapshotRoot, Changes, Fail
  <2>10. CASE UpdateEsp
    BY <2>10, CommandLabels, OnwardFrom DEF UpdateEsp, Fail
  <2>11. CASE LookAtVar
    BY <2>11, CommandLabels, OnwardFrom DEF LookAtVar
  <2>12. CASE MountTop
    BY <2>12, CommandLabels, OnwardFrom DEF MountTop, Mounts, Fail
  <2>13. CASE MountVar
    BY <2>13, CommandLabels, OnwardFrom DEF MountVar, Mounts, Fail
  <2>14. CASE SyncFilesystem
    BY <2>14, CommandLabels, OnwardFrom DEF SyncFilesystem, Fail
  <2>15. CASE EnsureHooks
    <3>1. live' \in VolumeStates
      BY <1>1, <2>15, HookSteps
    <3>2. QED BY <2>15, <3>1, CommandLabels, OnwardFrom DEF EnsureHooks
  <2>16. CASE Exit
    BY <2>16 DEF Exit
  <2>17. QED BY <1>5, <2>2, <2>3, <2>4, <2>5, <2>6, <2>7, <2>8, <2>9, <2>10, <2>11, <2>12,
                <2>13, <2>14, <2>15, <2>16 DEF Step
<1>6. CASE Kill \/ Commit \/ FlushEsp
  BY <1>6 DEF Kill, Commit, FlushEsp
<1>7. CASE PowerLoss \/ Reboot
  BY <1>7, <1>2 DEF PowerLoss, Reboot, Restart
<1>8. CASE TakeSnapshot
  BY <1>8, VolumeChanges DEF TakeSnapshot
<1>9. CASE RollBack
  BY <1>9, VolumeChanges DEF RollBack
<1>10. QED BY <1>3, <1>4, <1>5, <1>6, <1>7, <1>8, <1>9 DEF Next

-----------------------------------------------------------------------------
(* The boot chain.                                                         *)

\* What proof.rs asks of a volume, said of the volume itself: an ESP that points to the
\* ext4 partition finds its own kernel there, one that points to btrfs needs all of
\* BtrfsReady, and systemd stops at a subvolume that fstab names and that is not there.
LEMMA BootsMeaning ==
    ASSUME NEW v, NEW e \in {"ext4", "btrfs"}
    PROVE  Boots(v, e) <=> (e = "btrfs" => BtrfsReady(v, "root")) /\ VarFound(v)
<1> DEFINE m == ModelState(v, e)
<1>1. /\ m.esp_target_uuid = (IF e = "btrfs" THEN "Btrfs" ELSE "Ext4")
      /\ m.esp_has_btrfs_relative = (e = "btrfs")
      /\ m.esp_prefix_has_boot = (e = "btrfs")
      /\ m.grub_cfg_on_ext4 = TRUE /\ m.kernel_on_ext4 = TRUE
      /\ m.grub_cfg_on_btrfs = ("grub.cfg" \in v.root.boot)
      /\ m.kernel_on_btrfs = ("kernel" \in v.root.boot)
      /\ m.symlinks_exist = v.root.links
      /\ m.var_is_subvol = ("/var" \in v.root.fstab /\ v.var # "absent")
      /\ m.fstab_has_var_mount = ("/var" \in v.root.fstab)
      /\ m.root_device_ref = "Uuid" /\ m.var_device_ref = "Uuid"
      /\ m.default_subvol = (IF v.default = "root" THEN "Id256" ELSE "toplevel")
      /\ m.root_subvol = "Id256"
      /\ m.grubenv_nocow = v.root.nocow
  BY DEF ModelState
<1>2. /\ "grub_follows_esp_uuid" \in Model!AxiomNames
      /\ "grub_resolves_from_default_subvol" \in Model!AxiomNames
      /\ "grub_prefix_determines_config" \in Model!AxiomNames
      /\ "grub_follows_btrfs_symlinks" \in Model!AxiomNames
      /\ "grub_loadenv_requires_nocow" \in Model!AxiomNames
      /\ "grub_skips_config_verification" \in Model!AxiomNames
      /\ "kernel_subvol_overrides_default" \in Model!AxiomNames
      /\ "systemd_fstab_fatal" \in Model!AxiomNames
  BY DEF Model!AxiomNames
<1> HIDE DEF m
<1>3. CASE e = "btrfs"
  BY <1>1, <1>2, <1>3
  DEF Boots, Model!boots, Model!GrubFindsKernelOnBtrfs, BtrfsReady, VarFound, BootFiles, m
<1>4. CASE e = "ext4"
  BY <1>1, <1>2, <1>4
  DEF Boots, Model!boots, Model!GrubFindsKernelOnBtrfs, BtrfsReady, VarFound, BootFiles, m
<1>5. QED BY <1>3, <1>4

-----------------------------------------------------------------------------
(* The partition that is mounted apart.                                    *)

\* What OldBootMade is about, step by step.
LEMMA OldBootStep ==
    ASSUME MigrateTypeOK, OldBootMade, [Next]_vars
    PROVE  OldBootMade'
<1>1. /\ command \in {"migrate", "setup"}
      /\ pc \notin {"idle", "failed"} => pc \in Labels(command)
  BY CommandLabels DEF MigrateTypeOK
<1>2. ASSUME mounts' \subseteq mounts \/ "/mnt/old-boot" \notin mounts',
             "/boot/efi" \in mounts' => "/boot/efi" \in mounts \/ "/mnt/old-boot" \notin mounts',
             pc' \in {"idle", "failed", "gate0", "gate1", "gate4", "gate10"}
      PROVE  OldBootMade'
  BY <1>2 DEF OldBootMade
<1>3. CASE UNCHANGED <<mounts, pc>>
  BY <1>3 DEF OldBootMade
<1>4. CASE Step /\ Onward /\ pc \notin {"idle", "failed", "done"}
  <2>1. CASE Gate
    BY <1>1, <1>4, <2>1, OnwardFrom DEF Gate, Gates, GatePasses, OldBootMade, Fail
  <2>2. CASE LookAtBoot
    BY <1>1, <1>4, <2>2, OnwardFrom DEF LookAtBoot, OldBootMade, Fail
  <2>3. CASE UmountBoot
    BY <1>1, <1>4, <2>3, OnwardFrom DEF UmountBoot, Mounts, OldBootMade, Fail
  <2>4. CASE OldBoot
    BY <1>1, <1>4, <2>4, OnwardFrom DEF OldBoot, Mounts, OldBootMade, Fail
  <2>5. CASE CopyBoot
    BY <1>1, <1>4, <2>5, OnwardFrom DEF CopyBoot, Changes, OldBootMade, Fail
  <2>6. CASE MountBack
    BY <1>1, <1>4, <2>6, OnwardFrom DEF MountBack, Mounts, OldBootMade, Fail
  <2>7. CASE MountTop \/ MountVar
    BY <1>1, <1>4, <2>7, OnwardFrom DEF MountTop, MountVar, Mounts, OldBootMade, Fail
  <2>8. CASE UpdateEsp \/ LookAtVar \/ SnapshotRoot \/ SyncFilesystem \/ EnsureHooks
    BY <1>1, <1>4, <2>8, OnwardFrom
    DEF UpdateEsp, LookAtVar, SnapshotRoot, SyncFilesystem, EnsureHooks, OldBootMade, Fail
  <2>9. CASE CreateSymlinks \/ SetDefaultSubvol \/ UpdateFstab \/ Regenerate \/ FixGrubenv
             \/ FillVar \/ AddVarToFstab
    BY <1>1, <1>4, <2>9, OnwardFrom
    DEF CreateSymlinks, SetDefaultSubvol, UpdateFstab, Regenerate, FixGrubenv, FillVar,
        AddVarToFstab, Changes, OldBootMade, Fail
  <2>10. QED BY <1>4, <2>1, <2>2, <2>3, <2>4, <2>5, <2>6, <2>7, <2>8, <2>9 DEF Step, Exit
<1>5. CASE Step /\ ~(Onward /\ pc \notin {"idle", "failed", "done"})
  <2>1. /\ mounts' = mounts
        /\ \/ pc' \in {"idle", "failed", "gate1", "gate4", "gate10"}
           \/ pc' = pc
           \/ pc = "hook" /\ pc' = "done"
    BY <1>5 DEF Step, Gate, Gates, LookAtBoot, UmountBoot, OldBoot, CopyBoot, MountBack,
      CreateSymlinks, SetDefaultSubvol, UpdateFstab, Regenerate, FixGrubenv, UpdateEsp, LookAtVar,
      MountTop, SnapshotRoot, FillVar, AddVarToFstab, MountVar, SyncFilesystem, EnsureHooks, Exit,
      Changes, Mounts, Fail
  <2>2. QED BY <2>1 DEF OldBootMade
<1>6. CASE UNCHANGED vars \/ Commit \/ FlushEsp \/ TakeSnapshot \/ RollBack
  BY <1>3, <1>6 DEF vars, Commit, FlushEsp, TakeSnapshot, RollBack
<1>7. CASE Start \/ Kill
  BY <1>2, <1>7 DEF Start, Kill
<1>8. CASE PowerLoss \/ Reboot
  <2>1. \A v \in VolumeStates : "/mnt/old-boot" \notin FstabMounts(v)
    BY DEF VolumeStates, RootImages, FstabMounts
  <2>2. QED BY <1>2, <1>8, <2>1 DEF PowerLoss, Reboot, Restart, MigrateTypeOK
<1>9. QED BY <1>4, <1>5, <1>6, <1>7, <1>8 DEF Next

-----------------------------------------------------------------------------
(* The inductive invariant.                                                *)

\* The invariant holds at the start.
LEMMA MigrateInitInv == Init => MigrateInv
<1> SUFFICES ASSUME Init PROVE MigrateInv
  OBVIOUS
<1>1. MigrateTypeOK /\ pc = "idle" /\ esp = "ext4"
  BY MigrateInitTyped DEF Init
<1>2. /\ "top" \notin mounts /\ "/mnt/old-boot" \notin mounts
      /\ "/var" \in mounts => "/var" \in Here.fstab
  BY <1>1 DEF Init, FstabMounts, MigrateTypeOK, VolumeStates, RootImages, Here
<1>3. BootMade
  BY <1>1 DEF BootMade, AfterCopy, AfterLinks, AfterDefault, AfterSwitch, AfterFstab,
              AfterGrubenv, AfterEsp
<1>4. VarMade
  BY <1>1, <1>2 DEF VarMade, AfterDefault, AfterSwitch, AfterFstab, AfterGrubenv, AfterEsp
<1>5. OldBootMade
  BY <1>1, <1>2 DEF OldBootMade
<1>6. QED BY <1>1, <1>3, <1>4, <1>5 DEF MigrateInv

\* What GRUB needs of the root that is mounted as /, and the layout of it.
LEMMA HereReady ==
    /\ BtrfsReady(live, running) <=>
         BootFiles \subseteq Here.boot /\ Here.links /\ Here.nocow /\ live.default = "root"
    /\ BtrfsReady(live', running') <=>
         BootFiles \subseteq Here'.boot /\ Here'.links /\ Here'.nocow /\ live'.default = "root"
    /\ Migrated(live, running, command) <=>
         /\ "/var" \in Here.fstab /\ live.var # "absent" /\ live.default = "root"
         /\ command = "migrate" => "/boot" \notin Here.fstab
  BY DEF BtrfsReady, Migrated, Here

\* A command that is not running has no step behind it.
LEMMA AtRest ==
    ASSUME MigrateInv,
           pc' \in {"idle", "failed", "gate0"},
           esp' = "btrfs" => BtrfsReady(live', running'),
           "/var" \in mounts' => "/var" \in Here'.fstab /\ "top" \notin mounts',
           MigrateTypeOK', OldBootMade'
    PROVE  MigrateInv'
<1>1. BootMade'
  BY DEF BootMade, AfterCopy, AfterLinks, AfterDefault, AfterSwitch, AfterFstab,
         AfterGrubenv, AfterEsp
<1>2. VarMade'
  BY DEF VarMade, AfterDefault, AfterSwitch, AfterFstab, AfterGrubenv, AfterEsp
<1>3. QED BY <1>1, <1>2 DEF MigrateInv

\* Starting from what is on a disk.
LEMMA RestartInv ==
    ASSUME MigrateInv, NEW v \in VolumeStates, NEW e \in {"ext4", "btrfs"}, Restart(v, e),
           MigrateTypeOK', OldBootMade'
    PROVE  MigrateInv'
<1>1. e = "btrfs" => BtrfsReady(v, "root")
  BY BootsMeaning DEF Restart
<1>2. live' = v /\ running' = "root" /\ Here' = v.root
  BY DEF Restart, Here
<1>3. /\ "top" \notin mounts'
      /\ "/var" \in mounts' => "/var" \in v.root.fstab
  BY DEF Restart, FstabMounts, VolumeStates, RootImages
<1>4. QED BY <1>1, <1>2, <1>3, AtRest DEF Restart

\* A tool that fails leaves the command at rest.
LEMMA FailInv ==
    ASSUME MigrateInv, MigrateTypeOK', OldBootMade', Fail, UNCHANGED esp,
           BtrfsReady(live, running) => BtrfsReady(live', running'),
           "/var" \in Here.fstab => "/var" \in Here'.fstab,
           mounts' \subseteq mounts
    PROVE  MigrateInv'
<1>1. "/var" \in mounts' => "/var" \in Here'.fstab /\ "top" \notin mounts'
  BY DEF MigrateInv, VarMade
<1>2. QED BY <1>1, AtRest DEF Fail, MigrateInv

\* A step of the command that is neither a failure nor one of many copies.
Moves ==
    \/ Onward
    \/ pc = "look1"  /\ pc' = "gate1"
    \/ pc = "look4"  /\ pc' = "gate4"
    \/ pc = "look10" /\ pc' = "gate10"
    \/ pc = "hook"   /\ pc' = "done"

\* What is behind the step a command moves to was behind it before, or is the step it
\* makes.
LEMMA Behind ==
    ASSUME command \in {"migrate", "setup"}, pc \in Labels(command), pc # "done", Moves
    PROVE  /\ command = "migrate" =>
                /\ pc' \in AfterCopy => pc \in AfterCopy \cup {"copy", "gate1"}
                /\ pc' = "gate1" => pc \in {"mountefi1", "look1"}
                /\ pc' \in AfterLinks => pc \in AfterLinks \cup {"links"}
                /\ pc' \in AfterSwitch => 
                     \/ pc \in AfterSwitch \cup {"umountboot4"}
                     \/ pc = "look4" /\ pc' = "gate4"
                /\ pc' \in AfterFstab => pc \in AfterFstab \cup {"fstab"}
                /\ pc' \in AfterGrubenv => pc \in AfterGrubenv \cup {"grubenv"}
                /\ pc' \in AfterEsp => pc \in AfterEsp \cup {"esp"}
           /\ pc' \in AfterDefault => pc \in AfterDefault \cup {"default"}
           /\ pc' = "top" => pc = "look10"
           /\ pc' = "varfstab" => pc = "untop"
           /\ pc' = "mountvar" => pc = "varfstab"
           /\ pc' = "gate10" => pc \in {"mountvar", "look10"}
           /\ pc' = "sync" => pc = "gate10"
           /\ pc' \in {"hook", "chmod", "done"} => pc \in {"sync", "hook", "chmod"}
<1> USE DEF AfterCopy, AfterLinks, AfterDefault, AfterSwitch, AfterFstab, AfterGrubenv, AfterEsp
<1>1. CASE Onward
  <2>1. CASE command = "migrate"
    BY <1>1, <2>1, OnwardFrom, MigrateLabels
  <2>2. CASE command = "setup"
    BY <1>1, <2>2, OnwardFrom, SetupLabels
  <2>3. QED BY <2>1, <2>2
<1>2. CASE ~Onward
  BY <1>2 DEF Moves
<1>3. QED BY <1>1, <1>2

\* No step takes back what the invariant counts on.
NothingLost ==
    /\ BootFiles \subseteq Here.boot => BootFiles \subseteq Here'.boot
    /\ Here.links => Here'.links
    /\ Here.nocow => Here'.nocow
    /\ live.default = "root" => live'.default = "root"
    /\ "/boot" \notin Here.fstab => "/boot" \notin Here'.fstab
    /\ "/var" \in Here.fstab => "/var" \in Here'.fstab
    /\ esp = "btrfs" => esp' = "btrfs"
    /\ "/var" \in mounts => "/var" \in mounts'

\* What the steps bring about, where the invariant counts on it.
Brought ==
    /\ pc = "copy" => BootFiles \subseteq Here'.boot
    /\ pc = "gate1" => "/boot" \in mounts \/ BootFiles \subseteq Here'.boot
    /\ pc = "look1" /\ pc' = "gate1" => "/boot" \notin mounts'
    /\ pc = "links" => Here'.links
    /\ pc = "default" => live'.default = "root"
    /\ pc = "umountboot4" \/ (pc = "look4" /\ pc' = "gate4") => "/boot" \notin mounts'
    /\ "/boot" \in mounts' => "/boot" \in mounts \/ pc = "mountboot1"
    /\ pc = "fstab" => "/boot" \notin Here'.fstab
    /\ pc = "grubenv" => Here'.nocow
    /\ pc = "esp" => esp' = "btrfs"
    /\ esp' # esp => pc = "esp"
    /\ pc = "look10" => IF pc' = "gate10" THEN "/var" \in mounts' ELSE "/var" \notin mounts'
    /\ "/var" \in mounts' => "/var" \in mounts \/ pc = "mountvar"
    /\ "top" \in mounts' => "top" \in mounts \/ pc = "top"
    /\ pc = "untop" => "top" \notin mounts'
    /\ pc = "varfstab" => "/var" \in Here'.fstab
    /\ pc = "mountvar" => "/var" \in mounts'
    /\ pc = "gate10" /\ "/var" \in Here.fstab => live.var # "absent"
    /\ pc \in {"gate10", "sync", "hook", "chmod"} => live'.var = live.var
    /\ pc = "sync" => disk' = live
    /\ pc \in {"hook", "chmod"} => disk' = disk

\* Steps that move keep the invariant when they lose nothing and bring their part about.
LEMMA MoveInv ==
    ASSUME MigrateInv, MigrateTypeOK', OldBootMade', command' = command,
           running' = running, Moves, NothingLost, Brought,
           pc \in Labels(command), pc # "done"
    PROVE  MigrateInv'
<1>1. command \in {"migrate", "setup"}
  BY CommandLabels DEF MigrateInv
<1>2. (esp = "btrfs" => BtrfsReady(live, running)) /\ BootMade /\ VarMade
  BY DEF MigrateInv
<1>3. BootMade'
  <2> SUFFICES ASSUME command = "migrate" PROVE BootMade'
    BY DEF BootMade
  <2>1. /\ "mountefi1" \in AfterCopy /\ "mountboot1" \notin AfterSwitch
    BY DEF AfterCopy, AfterLinks, AfterDefault, AfterSwitch, AfterFstab, AfterGrubenv, AfterEsp
  <2>2. pc' \in AfterCopy => BootFiles \subseteq Here'.boot
    <3>1. CASE pc = "gate1"
      BY <1>2, <3>1 DEF BootMade, NothingLost, Brought
    <3>2. CASE pc # "gate1"
      BY <1>1, <1>2, <3>2, Behind DEF BootMade, NothingLost, Brought
    <3>3. QED BY <3>1, <3>2
  <2>3. pc' = "gate1" /\ "/boot" \in mounts' => BootFiles \subseteq Here'.boot
    BY <1>1, <1>2, <2>1, Behind DEF BootMade, NothingLost, Brought
  <2>4. pc' \in AfterSwitch => "/boot" \notin mounts'
    BY <1>1, <1>2, <2>1, Behind DEF BootMade, Brought
  <2>5. /\ pc' \in AfterLinks => Here'.links
        /\ pc' \in AfterFstab => "/boot" \notin Here'.fstab
        /\ pc' \in AfterGrubenv => Here'.nocow
        /\ pc' \in AfterEsp => esp' = "btrfs"
    BY <1>1, <1>2, Behind DEF BootMade, NothingLost, Brought
  <2>6. QED BY <2>2, <2>3, <2>4, <2>5 DEF BootMade
<1>4. esp' = "btrfs" => BtrfsReady(live', running')
  <2>1. CASE esp' = esp
    BY <1>2, <2>1, HereReady DEF NothingLost
  <2>2. CASE pc = "esp"
    <3>1. /\ "esp" \in AfterCopy /\ "esp" \in AfterLinks /\ "esp" \in AfterGrubenv
          /\ "esp" \in AfterDefault
      BY DEF AfterCopy, AfterLinks, AfterDefault, AfterSwitch, AfterFstab, AfterGrubenv, AfterEsp
    <3>2. command = "migrate"
      BY <1>1, <2>2, SetupLabels
    <3>3. QED BY <1>2, <2>2, <3>1, <3>2, HereReady DEF NothingLost, BootMade, VarMade
  <2>3. QED BY <2>1, <2>2 DEF Brought
<1>5. VarMade'
  <2>1. pc' \in {"hook", "chmod", "done"} =>
          Migrated(disk', running', command) /\ (esp' = "btrfs" => BtrfsReady(disk', running'))
    <3> SUFFICES ASSUME pc' \in {"hook", "chmod", "done"}
                 PROVE  Migrated(disk', running', command) /\ (esp' = "btrfs" => BtrfsReady(disk', running'))
      OBVIOUS
    <3>1. pc \in {"sync", "hook", "chmod"}
      BY <1>1, Behind
    <3>2. esp' = esp
      BY <3>1 DEF Brought
    <3>3. CASE pc = "sync"
      <4>1. "sync" \in AfterDefault /\ "sync" \in AfterFstab
        BY DEF AfterDefault, AfterSwitch, AfterFstab, AfterGrubenv, AfterEsp
      <4>2. Migrated(live, running, command) /\ (esp = "btrfs" => BtrfsReady(live, running))
        BY <1>2, <3>3, <4>1, HereReady DEF VarMade, BootMade
      <4>3. QED BY <3>2, <3>3, <4>2 DEF Brought
    <3>4. CASE pc \in {"hook", "chmod"}
      BY <1>2, <3>2, <3>4 DEF Brought, VarMade
    <3>5. QED BY <3>1, <3>3, <3>4
  <2>2. QED BY <1>1, <1>2, <2>1, Behind DEF VarMade, NothingLost, Brought
<1>6. QED BY <1>3, <1>4, <1>5 DEF MigrateInv

\* The steps that change the root keep the invariant.
LEMMA EditInv ==
    ASSUME MigrateInv, MigrateTypeOK', OldBootMade', command' = command, running' = running,
           pc \notin {"idle", "failed"} => pc \in Labels(command),
           CreateSymlinks \/ UpdateFstab \/ Regenerate \/ FixGrubenv \/ AddVarToFstab
    PROVE  MigrateInv'
<1>1. live \in VolumeStates /\ running \in {"root", "snap"} /\ Here \in RootImages
  BY HereKept DEF MigrateInv, MigrateTypeOK
<1>2. ASSUME NEW r \in RootImages, Edits(r),
             pc \in {"links", "fstab", "initramfs", "grubcfg", "grubenv", "varfstab"},
             r.boot = Here.boot,
             Here.links => r.links, pc = "links" => r.links,
             Here.nocow => r.nocow, pc = "grubenv" => r.nocow,
             "/boot" \in r.fstab => "/boot" \in Here.fstab /\ pc # "fstab",
             "/var" \in Here.fstab \/ pc = "varfstab" => "/var" \in r.fstab
      PROVE  MigrateInv'
  <2>1. CASE IOError /\ Fail /\ UNCHANGED live /\ HereStays
    BY <1>2, <2>1, FailInv, HereReady DEF Edits, HereStays
  <2>2. CASE Here' = r /\ ApartStays /\ Onward
    <3>1. NothingLost
      BY <1>2, <2>2 DEF Edits, NothingLost, ApartStays
    <3>2. Brought
      BY <1>2, <2>2 DEF Edits, Brought, ApartStays
    <3>3. QED BY <1>2, <2>2, <3>1, <3>2, MoveInv DEF Moves
  <2>3. QED BY <1>2, <2>1, <2>2 DEF Edits
<1>3. CASE CreateSymlinks
  <2> DEFINE r == [Here EXCEPT !.links = TRUE]
  <2>1. r \in RootImages /\ Edits(r) /\ pc = "links"
    BY <1>1, <1>3, ImageChanges, RootSteps
  <2>2. r.boot = Here.boot /\ r.links = TRUE /\ r.nocow = Here.nocow /\ r.fstab = Here.fstab
    BY <1>1 DEF RootImages
  <2> HIDE DEF r
  <2>3. QED BY <1>2, <2>1, <2>2
<1>4. CASE UpdateFstab
  <2> DEFINE r == [Here EXCEPT !.fstab = @ \ {"/boot"}]
  <2>1. r \in RootImages /\ Edits(r) /\ pc = "fstab"
    BY <1>1, <1>4, ImageChanges, RootSteps
  <2>2. /\ r.boot = Here.boot /\ r.links = Here.links /\ r.nocow = Here.nocow
        /\ r.fstab = Here.fstab \ {"/boot"}
    BY <1>1 DEF RootImages
  <2> HIDE DEF r
  <2>3. QED BY <1>2, <2>1, <2>2
<1>5. CASE Regenerate
  <2>1. PICK x \in {"initramfs", "grub.cfg"} :
              /\ pc \in {"initramfs", "grubcfg"}
              /\ Edits([Here EXCEPT !.rebuilt = @ \cup {x}])
    BY <1>1, <1>5, RootSteps
  <2> DEFINE r == [Here EXCEPT !.rebuilt = @ \cup {x}]
  <2>2. r \in RootImages
    BY <1>1, ImageChanges
  <2>3. /\ r.boot = Here.boot /\ r.links = Here.links /\ r.nocow = Here.nocow
        /\ r.fstab = Here.fstab
    BY <1>1 DEF RootImages
  <2> HIDE DEF r
  <2>4. Edits(r)
    BY <2>1 DEF r
  <2>5. QED BY <1>2, <2>1, <2>2, <2>3, <2>4
<1>6. CASE FixGrubenv
  <2> DEFINE r == [Here EXCEPT !.nocow = TRUE]
  <2>1. r \in RootImages /\ Edits(r) /\ pc = "grubenv"
    BY <1>1, <1>6, ImageChanges, RootSteps
  <2>2. r.boot = Here.boot /\ r.links = Here.links /\ r.nocow = TRUE /\ r.fstab = Here.fstab
    BY <1>1 DEF RootImages
  <2> HIDE DEF r
  <2>3. QED BY <1>2, <2>1, <2>2
<1>7. CASE AddVarToFstab
  <2> DEFINE r == [Here EXCEPT !.fstab = @ \cup {"/var"}]
  <2>1. r \in RootImages /\ Edits(r) /\ pc = "varfstab"
    BY <1>1, <1>7, ImageChanges, RootSteps
  <2>2. /\ r.boot = Here.boot /\ r.links = Here.links /\ r.nocow = Here.nocow
        /\ r.fstab = Here.fstab \cup {"/var"}
    BY <1>1 DEF RootImages
  <2> HIDE DEF r
  <2>3. QED BY <1>2, <2>1, <2>2
<1>8. QED BY <1>3, <1>4, <1>5, <1>6, <1>7

\* The steps of the commands keep the invariant.
LEMMA MigrateStepsInv == MigrateInv /\ Step => MigrateInv'
<1> SUFFICES ASSUME MigrateInv, Step PROVE MigrateInv'
  OBVIOUS
<1>1. /\ MigrateTypeOK /\ MigrateTypeOK' /\ command' = command /\ running' = running
      /\ live \in VolumeStates /\ live' \in VolumeStates /\ running \in {"root", "snap"}
      /\ OldBootMade'
  BY MigrateStepTyped, OldBootStep DEF MigrateInv, Step, Next, MigrateTypeOK
<1>40. UNCHANGED live => Here' = Here
  BY <1>1, HereKept DEF HereStays
<1>2. /\ pc \notin {"idle", "failed"} => pc \in Labels(command)
      /\ command \in {"migrate", "setup"}
  BY <1>1, <1>40, CommandLabels DEF MigrateTypeOK
<1>30. pc \notin {"idle", "failed", "done"} /\ Onward => ~Fail
  BY <1>1, <1>40, <1>2, OnwardFrom, CommandLabels DEF Fail
<1>3. CASE Gate
  <2>1. CASE Fail
    BY <1>1, <1>40, <1>3, <2>1, FailInv, HereReady DEF Gate
  <2>2. CASE GatePasses /\ Onward
    <3>1. NothingLost
      BY <1>3, <1>40 DEF Gate, NothingLost
    <3>2. Brought
      BY <1>3, <1>40, <2>2 DEF Gate, GatePasses, Gates, VisibleBoot, Brought
    <3>3. QED BY <1>1, <1>40, <1>2, <1>3, <2>2, <3>1, <3>2, MoveInv DEF Moves, Gate, Gates
  <2>3. QED BY <1>3, <2>1, <2>2 DEF Gate
<1>4. CASE LookAtBoot
  <2>1. NothingLost
    BY <1>1, <1>40, <1>4 DEF LookAtBoot, NothingLost
  <2>2. CASE Fail
    BY <1>1, <1>40, <1>4, <2>1, <2>2, FailInv, HereReady DEF LookAtBoot, NothingLost
  <2>3. CASE ~Fail
    <3>1. Brought
      BY <1>1, <1>40, <1>2, <1>4, <2>3, OnwardFrom DEF LookAtBoot, Brought
    <3>2. Moves
      BY <1>4, <2>3 DEF LookAtBoot, Moves
    <3>3. QED BY <1>1, <1>40, <1>2, <1>4, <2>1, <3>1, <3>2, MoveInv DEF LookAtBoot
  <2>4. QED BY <2>2, <2>3
<1>5. CASE UmountBoot
  <2>1. NothingLost
    BY <1>1, <1>40, <1>5 DEF UmountBoot, Mounts, NothingLost
  <2>2. CASE Fail
    BY <1>1, <1>40, <1>5, <2>1, <2>2, FailInv, HereReady DEF UmountBoot, Mounts, NothingLost
  <2>3. CASE ~Fail
    <3>1. Brought
      BY <1>1, <1>40, <1>5, <2>3 DEF UmountBoot, Mounts, Brought
    <3>2. Moves
      BY <1>5, <2>3 DEF UmountBoot, Mounts, Moves
    <3>3. QED BY <1>1, <1>40, <1>2, <1>5, <2>1, <3>1, <3>2, MoveInv DEF UmountBoot, Mounts
  <2>4. QED BY <2>2, <2>3
<1>6. CASE MountBack
  <2>1. NothingLost
    BY <1>1, <1>40, <1>6 DEF MountBack, Mounts, NothingLost
  <2>2. CASE Fail
    BY <1>1, <1>40, <1>30, <1>6, <2>1, <2>2, FailInv, HereReady DEF MountBack, Mounts, NothingLost
  <2>3. CASE ~Fail
    <3>1. Brought
      BY <1>1, <1>40, <1>6, <2>3 DEF MountBack, Mounts, Brought
    <3>2. Moves
      BY <1>6, <2>3 DEF MountBack, Mounts, Moves
    <3>3. QED BY <1>1, <1>40, <1>2, <1>6, <2>1, <3>1, <3>2, MoveInv DEF MountBack, Mounts
  <2>4. QED BY <2>2, <2>3
<1>8. CASE SetDefaultSubvol
  <2>0. Here' = Here
    BY <1>1, <1>40, <1>8, ApartSteps DEF HereStays
  <2>1. NothingLost
    BY <1>1, <1>40, <1>8, <2>0, ApartSteps DEF SetDefaultSubvol, Changes, NothingLost
  <2>2. CASE Fail
    BY <1>1, <1>40, <1>8, <2>0, <2>1, <2>2, FailInv, HereReady DEF SetDefaultSubvol, Changes, NothingLost
  <2>3. CASE ~Fail
    <3>1. Brought
      BY <1>1, <1>40, <1>8, <2>0, <2>3, ApartSteps DEF SetDefaultSubvol, Changes, Brought
    <3>2. Moves
      BY <1>8, <2>3 DEF SetDefaultSubvol, Changes, Moves
    <3>3. QED BY <1>1, <1>40, <1>2, <1>8, <2>1, <3>1, <3>2, MoveInv DEF SetDefaultSubvol, Changes
  <2>4. QED BY <2>2, <2>3
<1>12. CASE UpdateEsp
  <2>1. NothingLost
    BY <1>1, <1>40, <1>12 DEF UpdateEsp, NothingLost
  <2>2. CASE Fail
    BY <1>1, <1>40, <1>30, <1>12, <2>1, <2>2, FailInv, HereReady DEF UpdateEsp, NothingLost
  <2>3. CASE ~Fail
    <3>1. Brought
      BY <1>1, <1>40, <1>12, <2>3 DEF UpdateEsp, Brought
    <3>2. Moves
      BY <1>12, <2>3 DEF UpdateEsp, Moves
    <3>3. QED BY <1>1, <1>40, <1>2, <1>12, <2>1, <3>1, <3>2, MoveInv DEF UpdateEsp
  <2>4. QED BY <2>2, <2>3
<1>13. CASE LookAtVar
  <2>1. NothingLost
    BY <1>1, <1>40, <1>13 DEF LookAtVar, NothingLost
  <2>2. CASE Fail
    BY <1>1, <1>40, <1>13, <2>1, <2>2, FailInv, HereReady DEF LookAtVar, NothingLost
  <2>3. CASE ~Fail
    <3>1. Brought
      BY <1>1, <1>40, <1>2, <1>13, <2>3, OnwardFrom DEF LookAtVar, Brought
    <3>2. Moves
      BY <1>13, <2>3 DEF LookAtVar, Moves
    <3>3. QED BY <1>1, <1>40, <1>2, <1>13, <2>1, <3>1, <3>2, MoveInv DEF LookAtVar
  <2>4. QED BY <2>2, <2>3
<1>14. CASE MountTop
  <2>1. NothingLost
    BY <1>1, <1>40, <1>14 DEF MountTop, Mounts, NothingLost
  <2>2. CASE Fail
    BY <1>1, <1>40, <1>30, <1>14, <2>1, <2>2, FailInv, HereReady DEF MountTop, Mounts, NothingLost
  <2>3. CASE ~Fail
    <3>1. Brought
      BY <1>1, <1>40, <1>14, <2>3 DEF MountTop, Mounts, Brought
    <3>2. Moves
      BY <1>14, <2>3 DEF MountTop, Mounts, Moves
    <3>3. QED BY <1>1, <1>40, <1>2, <1>14, <2>1, <3>1, <3>2, MoveInv DEF MountTop, Mounts
  <2>4. QED BY <2>2, <2>3
<1>15. CASE SnapshotRoot
  <2>0. Here' = Here
    BY <1>1, <1>40, <1>15, ApartSteps DEF HereStays
  <2>1. NothingLost
    BY <1>1, <1>40, <1>15, <2>0, ApartSteps DEF SnapshotRoot, NothingLost
  <2>2. CASE Fail
    BY <1>1, <1>40, <1>15, <2>0, <2>1, <2>2, FailInv, HereReady DEF SnapshotRoot, NothingLost
  <2>3. CASE ~Fail
    <3>1. Brought
      BY <1>1, <1>40, <1>15, <2>0, <2>3, ApartSteps DEF SnapshotRoot, Brought
    <3>2. Moves
      BY <1>15, <2>3 DEF SnapshotRoot, Moves
    <3>3. QED BY <1>1, <1>40, <1>2, <1>15, <2>1, <3>1, <3>2, MoveInv DEF SnapshotRoot
  <2>4. QED BY <2>2, <2>3
<1>16. CASE FillVar
  <2>0. Here' = Here
    BY <1>1, <1>40, <1>16, ApartSteps DEF HereStays
  <2>1. NothingLost
    BY <1>1, <1>40, <1>16, <2>0, ApartSteps DEF FillVar, Changes, NothingLost
  <2>2. CASE Fail
    BY <1>1, <1>40, <1>16, <2>0, <2>1, <2>2, FailInv, HereReady DEF FillVar, Changes, NothingLost
  <2>3. CASE ~Fail
    <3>1. Brought
      BY <1>1, <1>40, <1>16, <2>0, <2>3, ApartSteps DEF FillVar, Changes, Brought
    <3>2. Moves
      BY <1>16, <2>3 DEF FillVar, Changes, Moves
    <3>3. QED BY <1>1, <1>40, <1>2, <1>16, <2>1, <3>1, <3>2, MoveInv DEF FillVar, Changes
  <2>4. QED BY <2>2, <2>3
<1>18. CASE MountVar
  <2>1. NothingLost
    BY <1>1, <1>40, <1>18 DEF MountVar, Mounts, NothingLost
  <2>2. CASE Fail
    BY <1>1, <1>40, <1>30, <1>18, <2>1, <2>2, FailInv, HereReady DEF MountVar, Mounts, NothingLost
  <2>3. CASE ~Fail
    <3>1. Brought
      BY <1>1, <1>40, <1>18, <2>3 DEF MountVar, Mounts, Brought
    <3>2. Moves
      BY <1>18, <2>3 DEF MountVar, Mounts, Moves
    <3>3. QED BY <1>1, <1>40, <1>2, <1>18, <2>1, <3>1, <3>2, MoveInv DEF MountVar, Mounts
  <2>4. QED BY <2>2, <2>3
<1>19. CASE SyncFilesystem
  <2>1. NothingLost
    BY <1>1, <1>40, <1>19 DEF SyncFilesystem, NothingLost
  <2>2. CASE Fail
    BY <1>1, <1>40, <1>19, <2>1, <2>2, FailInv, HereReady DEF SyncFilesystem, NothingLost
  <2>3. CASE ~Fail
    <3>1. Brought
      BY <1>1, <1>40, <1>19, <2>3 DEF SyncFilesystem, Brought
    <3>2. Moves
      BY <1>19, <2>3 DEF SyncFilesystem, Moves
    <3>3. QED BY <1>1, <1>40, <1>2, <1>19, <2>1, <3>1, <3>2, MoveInv DEF SyncFilesystem
  <2>4. QED BY <2>2, <2>3
<1>20. CASE EnsureHooks
  <2>1. NothingLost
    BY <1>1, <1>20, HookSteps DEF EnsureHooks, NothingLost, ApartStays
  <2>2. CASE Fail
    BY <1>1, <1>40, <1>20, <2>1, <2>2, FailInv, HereReady DEF EnsureHooks, NothingLost
  <2>3. CASE ~Fail
    <3>1. Brought
      BY <1>1, <1>20, <2>3, HookSteps DEF EnsureHooks, Brought, ApartStays
    <3>2. Moves
      BY <1>20, <2>3 DEF EnsureHooks, Moves
    <3>3. QED BY <1>1, <1>40, <1>2, <1>20, <2>1, <3>1, <3>2, MoveInv DEF EnsureHooks
  <2>4. QED BY <2>2, <2>3
<1>7. CASE CreateSymlinks \/ UpdateFstab \/ Regenerate \/ FixGrubenv \/ AddVarToFstab
  BY <1>1, <1>2, <1>7, EditInv
<1>17. CASE OldBoot
  <2>1. NothingLost
    BY <1>1, <1>40, <1>17 DEF OldBoot, Mounts, NothingLost
  <2>2. CASE Fail
    BY <1>1, <1>40, <1>30, <1>17, <2>1, <2>2, FailInv, HereReady DEF OldBoot, Mounts, NothingLost
  <2>3. CASE ~Fail
    <3>1. Brought
      BY <1>1, <1>40, <1>17, <2>3 DEF OldBoot, Mounts, Brought
    <3>2. Moves
      BY <1>17, <2>3 DEF OldBoot, Mounts, Moves
    <3>3. QED BY <1>1, <1>2, <1>17, <2>1, <3>1, <3>2, MoveInv DEF OldBoot, Mounts
  <2>4. QED BY <2>2, <2>3
<1>21. CASE CopyBoot
  <2>1. /\ NothingLost /\ (BtrfsReady(live, running) => BtrfsReady(live', running'))
        /\ pc = "copy" /\ UNCHANGED <<disk, esp, espDisk, mounts>>
    BY <1>1, <1>21, CopyChanges, HereReady DEF CopyBoot, Changes, NothingLost, ApartStays
  <2>2. CASE Fail
    BY <1>1, <2>1, <2>2, FailInv DEF NothingLost
  <2>3. CASE Onward /\ Here'.boot = BootFiles
    <3>1. Brought
      BY <1>1, <2>1, <2>3 DEF Brought
    <3>2. QED BY <1>1, <1>2, <2>1, <2>3, <3>1, MoveInv DEF Moves
  <2>4. CASE UNCHANGED pc
    <3>1. /\ "copy" \notin AfterCopy /\ "copy" \notin AfterDefault
          /\ "copy" \notin AfterLinks /\ "copy" \notin AfterSwitch
          /\ "copy" \notin AfterFstab /\ "copy" \notin AfterGrubenv /\ "copy" \notin AfterEsp
      BY DEF AfterCopy, AfterLinks, AfterDefault, AfterSwitch, AfterFstab, AfterGrubenv, AfterEsp
    <3>2. BootMade' /\ VarMade'
      BY <1>1, <2>1, <2>4, <3>1 DEF NothingLost, MigrateInv, BootMade, VarMade
    <3>3. QED BY <1>1, <2>1, <3>2 DEF MigrateInv
  <2>5. QED BY <1>1, <1>21, <2>2, <2>3, <2>4, CopyChanges
<1>22. CASE Exit
  BY <1>1, <1>40, <1>22, AtRest DEF Exit, MigrateInv, VarMade
<1>23. QED BY <1>3, <1>4, <1>5, <1>6, <1>7, <1>8, <1>12, <1>13, <1>14, <1>15, <1>16, <1>17,
              <1>18, <1>19, <1>20, <1>21, <1>22 DEF Step

\* A rollback leaves the system on the same root, under its other name.
LEMMA RollBackHere ==
    ASSUME MigrateTypeOK, RollBack
    PROVE  /\ Here' = Here /\ live'.var = live.var /\ live'.default = "root"
           /\ disk' = live' /\ UNCHANGED <<esp, espDisk, mounts, command, pc>>
<1>1. live \in VolumeStates
  BY DEF MigrateTypeOK
<1>2. CASE running = "root"
  BY <1>1, <1>2 DEF RollBack, VolumeStates, Here
<1>3. CASE running = "snap"
  BY <1>1, <1>3 DEF RollBack, VolumeStates, Here
<1>4. QED BY <1>2, <1>3 DEF MigrateTypeOK

\* A commit of a volume that is as the invariant has it; what is mounted as / is the same.
LEMMA CommitInv ==
    ASSUME MigrateInv, MigrateTypeOK', OldBootMade', Here' = Here, live'.var = live.var,
           live.default = "root" => live'.default = "root", disk' = live',
           UNCHANGED <<esp, espDisk, mounts, command, pc>>
    PROVE  MigrateInv'
<1>1. pc \in {"hook", "chmod", "done"} => pc \in AfterDefault /\ pc \in AfterFstab
  BY DEF AfterDefault, AfterSwitch, AfterFstab, AfterGrubenv, AfterEsp
<1>2. /\ BtrfsReady(disk', running') <=> BtrfsReady(live', running')
      /\ BtrfsReady(live, running) => BtrfsReady(live', running')
      /\ Migrated(live, running, command) => Migrated(disk', running', command')
  BY DEF BtrfsReady, Migrated, Here
<1>3. pc \in {"hook", "chmod", "done"} => Migrated(live, running, command)
  BY <1>1, HereReady DEF MigrateInv, BootMade, VarMade
<1>4. VarMade'
  BY <1>2, <1>3 DEF MigrateInv, VarMade
<1>5. BootMade'
  BY DEF MigrateInv, BootMade
<1>6. QED BY <1>2, <1>4, <1>5 DEF MigrateInv

\* Every action keeps the invariant.
LEMMA MigrateStepInv == MigrateInv /\ [Next]_vars => MigrateInv'
<1> SUFFICES ASSUME MigrateInv, [Next]_vars PROVE MigrateInv'
  OBVIOUS
<1>1. /\ MigrateTypeOK /\ MigrateTypeOK' /\ OldBootMade'
      /\ live \in VolumeStates /\ disk \in VolumeStates
      /\ esp \in {"ext4", "btrfs"} /\ espDisk \in {"ext4", "btrfs"}
  BY MigrateStepTyped, OldBootStep DEF MigrateInv, MigrateTypeOK
<1>2. UNCHANGED <<live, running>> => /\ Here' = Here
                                     /\ BtrfsReady(live', running') <=> BtrfsReady(live, running)
  BY DEF Here, BtrfsReady
<1>3. CASE UNCHANGED vars
  <2>1. BootMade' /\ VarMade'
    BY <1>2, <1>3 DEF vars, MigrateInv, BootMade, VarMade
  <2>2. QED BY <1>1, <1>2, <1>3, <2>1 DEF vars, MigrateInv
<1>4. CASE Start
  BY <1>1, <1>2, <1>4, AtRest DEF Start, MigrateInv, VarMade
<1>5. CASE Step
  BY <1>5, MigrateStepsInv
<1>6. CASE Kill
  BY <1>1, <1>2, <1>6, AtRest DEF Kill, MigrateInv, VarMade
<1>7. CASE Commit
  BY <1>1, <1>2, <1>7, CommitInv DEF Commit
<1>8. CASE FlushEsp
  <2>1. BootMade' /\ VarMade'
    BY <1>2, <1>8 DEF FlushEsp, MigrateInv, BootMade, VarMade
  <2>2. QED BY <1>1, <1>2, <1>8, <2>1 DEF FlushEsp, MigrateInv
<1>9. CASE PowerLoss \/ Reboot
  BY <1>1, <1>9, RestartInv DEF PowerLoss, Reboot
<1>10. CASE TakeSnapshot
  <2>1. /\ live'.default = live.default /\ live'.var = live.var
        /\ Here' = Here
    BY <1>1, <1>10 DEF TakeSnapshot, SnapshotFree, VolumeStates, Here
  <2>2. QED BY <1>1, <1>10, <2>1, CommitInv DEF TakeSnapshot
<1>11. CASE RollBack
  BY <1>1, <1>11, RollBackHere, CommitInv
<1>12. QED BY <1>3, <1>4, <1>5, <1>6, <1>7, <1>8, <1>9, <1>10, <1>11 DEF Next

\* The inductive invariant of setup and migrate holds throughout, whatever of tool
\* failures, kills, power losses, snapshots and rollbacks may happen.
THEOREM MigrateInvariant == MigrateSpec => []MigrateInv
<1>1. Init => MigrateInv
  BY MigrateInitInv
<1>2. MigrateInv /\ [Next]_vars => MigrateInv'
  BY MigrateStepInv
<1>3. QED BY <1>1, <1>2, PTL DEF MigrateSpec

\* The variables of setup and migrate stay in their ranges.
THEOREM MigrateTyped == MigrateSpec => []MigrateTypeOK
<1>1. MigrateInv => MigrateTypeOK
  BY DEF MigrateInv
<1>2. QED BY <1>1, MigrateInvariant, PTL

\* The gate is sound: when verify_bootable() accepts what it sees on the mounted system, and
\* that is what boots next, the volume boots.  It does not look at grubenv, and /boot may hide
\* the directory below it; that both are in order once the ESP points to btrfs is the invariant.
THEOREM MigrateGateSound == MigrateSpec => []GateSound
<1>1. MigrateInv => GateSound
  BY BootsMeaning DEF MigrateInv, MigrateTypeOK, GateSound, GatePasses, VarFound, Here
<1>2. QED BY <1>1, MigrateInvariant, PTL

\* GRUB finds its grub.cfg, a kernel and the default subvolume in every state, whatever
\* of the commands failed, was killed or cut off, and after a rollback that is taken back.
THEOREM MigrateChainToRoot == MigrateSpec => []ChainToRoot
<1>1. MigrateInv => ChainToRoot
  <2> SUFFICES ASSUME MigrateInv, running = "root"
               PROVE  Boots([live EXCEPT !.root.fstab = {}], esp)
    BY DEF ChainToRoot
  <2> DEFINE v == [live EXCEPT !.root.fstab = {}]
  <2>1. /\ v.root.boot = live.root.boot /\ v.root.links = live.root.links
        /\ v.root.nocow = live.root.nocow /\ v.default = live.default
        /\ v.root.fstab = {}
    BY DEF MigrateInv, MigrateTypeOK, VolumeStates, RootImages
  <2>2. (esp = "btrfs" => BtrfsReady(v, "root")) /\ VarFound(v)
    BY <2>1 DEF MigrateInv, BtrfsReady, VarFound
  <2>3. QED BY <2>2, BootsMeaning DEF MigrateInv, MigrateTypeOK
<1>2. QED BY <1>1, MigrateInvariant, PTL

\* When a command says complete, and the system runs from what boots next, the new layout is
\* there and on the disk, nothing of it or of an interrupted run is left mounted, and the
\* machine boots with either ESP.
THEOREM MigrateComplete == MigrateSpec => []CompleteIsMigrated
<1>1. MigrateInv => CompleteIsMigrated
  <2> SUFFICES ASSUME MigrateInv, pc = "done", running = "root" PROVE CompleteIsMigrated
    BY DEF CompleteIsMigrated
  <2>1. /\ "done" \in AfterEsp /\ "done" \in AfterSwitch
        /\ "done" \in AfterCopy /\ "done" \in AfterLinks
    BY DEF AfterCopy, AfterLinks, AfterDefault, AfterSwitch, AfterFstab, AfterGrubenv, AfterEsp
  <2>2. /\ Migrated(disk, "root", command) /\ (esp = "btrfs" => BtrfsReady(disk, "root"))
        /\ "/var" \in mounts /\ "top" \notin mounts /\ live.var # "absent"
        /\ "/boot/efi" \in mounts /\ "/mnt/old-boot" \notin mounts
        /\ esp \in {"ext4", "btrfs"}
    BY DEF MigrateInv, VarMade, OldBootMade, MigrateTypeOK
  <2>3. Boots(disk, "ext4") /\ Boots(disk, esp)
    BY <2>2, BootsMeaning DEF Migrated, VarFound
  <2>4. command = "migrate" =>
          /\ esp = "btrfs" /\ "/boot" \notin mounts
          /\ SnapshotVerifies(live.root)
    BY <2>1, <2>2 DEF MigrateInv, BootMade, SnapshotVerifies, Here
  <2>5. mounts \cap {"top", "/mnt/old-boot"} = {}
    BY <2>2
  <2>6. QED BY <2>2, <2>3, <2>4, <2>5 DEF CompleteIsMigrated, Migrated
<1>2. QED BY <1>1, MigrateInvariant, PTL

-----------------------------------------------------------------------------
(* Power losses alone.                                                     *)

\* Nothing fails without an I/O error but the gate and a look at what is mounted.
BeforeName == {"top", "snap", "clean", "create", "fill", "drop", "untop", "varfstab"}

\* Where step 10 goes on, seen from where it goes to.
LEMMA BehindName ==
    ASSUME command \in {"migrate", "setup"}, pc \in Labels(command), pc # "done", Onward
    PROVE  /\ pc' \in BeforeName => pc \in BeforeName \cup {"look10"}
           /\ pc' \in {"clean", "create", "fill"} => pc \in {"snap", "clean", "create"}
           /\ pc' \in {"drop", "untop", "varfstab"} => pc \in {"fill", "drop", "untop"}
           /\ pc' \in {"fill", "drop", "untop", "varfstab"} =>
                pc \in {"create", "fill", "drop", "untop"}
           /\ pc' \in {"umountefi1", "umountboot1"} => pc \in {"look1", "umountefi1"}
           /\ pc' = "mountvar" <=> pc = "varfstab"
           /\ pc = "mountvar" => pc' = "gate10"
<1>1. CASE command = "migrate"
  BY <1>1, OnwardFrom, MigrateLabels DEF BeforeName
<1>2. CASE command = "setup"
  BY <1>2, OnwardFrom, SetupLabels DEF BeforeName
<1>3. QED BY <1>1, <1>2

\* The steps around the copy of /boot, seen from where they go to.
LEMMA BehindBoot ==
    ASSUME command \in {"migrate", "setup"}, pc \in Labels(command), pc # "done", Onward
    PROVE  /\ pc' = "mountold" <=> pc = "umountboot1"
           /\ pc' = "copy" <=> pc = "mountold"
           /\ pc' = "umountold" <=> pc = "copy"
           /\ pc' = "mountboot1" <=> pc = "umountold"
<1>1. CASE command = "migrate"
  BY <1>1, OnwardFrom, MigrateLabels
<1>2. CASE command = "setup"
  BY <1>2, OnwardFrom, SetupLabels
<1>3. QED BY <1>1, <1>2

\* What the steps count on that they do not look at.
Prepared ==
    /\ pc \in {"umountefi1", "umountboot1"} => "/boot" \in mounts
    /\ pc \in {"clean", "create", "fill"} => live.aside # "absent"
    /\ pc \in {"fill", "drop", "untop", "varfstab"} => live.var # "absent"

\* The inductive invariant when power losses are the only faults and nothing is rolled back:
\* what fstab names is mounted, so that no run begins step 10 again on a subvolume that is in
\* use.
NamedInv ==
    /\ MigrateInv
    /\ running = "root"
    /\ "/var" \in live.root.fstab /\ pc # "mountvar" => "/var" \in mounts
    /\ pc \in BeforeName => "/var" \notin live.root.fstab
    /\ Prepared

\* The steps 1 to 9, the gate and what comes after step 10.
AroundStep10 ==
    Gate \/ LookAtBoot \/ UmountBoot \/ OldBoot \/ CopyBoot \/ MountBack \/ CreateSymlinks
    \/ SetDefaultSubvol \/ UpdateFstab \/ Regenerate \/ FixGrubenv \/ UpdateEsp
    \/ SyncFilesystem \/ EnsureHooks \/ Exit

\* The root that is mounted as / is the one under the root's name.
LEMMA AtRoot ==
    ASSUME running = "root", running' = "root"
    PROVE  Here = live.root /\ Here' = live'.root
  BY DEF Here

\* Without rollbacks the system runs from it.
LEMMA StaysAtRoot ==
    ASSUME "rollback" \notin Others, running = "root", [Next]_vars
    PROVE  running' = "root" /\ ~RollBack
  BY DEF Next, vars, Start, Step, Kill, Commit, FlushEsp, PowerLoss, Reboot, Restart,
         TakeSnapshot, RollBack

\* They have nothing to do with /var.
LEMMA AroundStep10Quiet ==
    ASSUME MigrateInv, AroundStep10, command' = command, running = "root", running' = "root"
    PROVE  /\ "/var" \in live'.root.fstab <=> "/var" \in live.root.fstab
           /\ live'.var = live.var /\ live'.aside = live.aside
           /\ live'.root.var = live.root.var
           /\ "/var" \in mounts' <=> "/var" \in mounts
           /\ disk' = disk \/ disk' = live
           /\ pc \notin BeforeName \cup {"mountvar"}
           /\ pc' \notin BeforeName \cup {"mountvar"}
<1>1. live \in VolumeStates
  BY DEF MigrateInv, MigrateTypeOK
<1>2. /\ pc \notin {"idle", "failed"} => pc \in Labels(command)
      /\ command \in {"migrate", "setup"}
  BY CommandLabels DEF MigrateInv, MigrateTypeOK
<1>3. pc \notin BeforeName \cup {"mountvar"}
  BY DEF AroundStep10, Gate, Gates, LookAtBoot, UmountBoot, OldBoot, CopyBoot, MountBack, CreateSymlinks,
         SetDefaultSubvol, UpdateFstab, Regenerate, FixGrubenv, UpdateEsp, SyncFilesystem,
         EnsureHooks, Exit, BeforeName
<1>4. pc # "look10"
  BY DEF AroundStep10, Gate, Gates, LookAtBoot, UmountBoot, OldBoot, CopyBoot, MountBack, CreateSymlinks,
         SetDefaultSubvol, UpdateFstab, Regenerate, FixGrubenv, UpdateEsp, SyncFilesystem,
         EnsureHooks, Exit
<1>5. \/ Onward /\ pc \notin {"idle", "failed", "done"}
      \/ pc' \in {"gate1", "gate4", "failed", "done", "idle", pc}
  BY DEF AroundStep10, Gate, Gates, LookAtBoot, UmountBoot, OldBoot, CopyBoot, MountBack, CreateSymlinks,
         SetDefaultSubvol, UpdateFstab, Regenerate, FixGrubenv, UpdateEsp, SyncFilesystem,
         EnsureHooks, Exit, Changes, Mounts, Fail
<1>6. pc' \notin BeforeName \cup {"mountvar"}
  <2>1. CASE Onward /\ pc \notin {"idle", "failed", "done"}
    <3>1. "varfstab" \in BeforeName
      BY DEF BeforeName
    <3>2. QED BY <1>2, <1>3, <1>4, <2>1, <3>1, BehindName
  <2>2. CASE pc' \in {"gate1", "gate4", "failed", "done", "idle", pc}
    BY <1>3, <2>2 DEF BeforeName
  <2>3. QED BY <1>5, <2>1, <2>2
<1>7. /\ "/var" \in mounts' <=> "/var" \in mounts
      /\ disk' = disk \/ disk' = live
  BY DEF AroundStep10, Gate, Gates, LookAtBoot, UmountBoot, OldBoot, CopyBoot, MountBack, CreateSymlinks,
         SetDefaultSubvol, UpdateFstab, Regenerate, FixGrubenv, UpdateEsp, SyncFilesystem,
         EnsureHooks, Exit, Changes, Mounts
<1>8. /\ "/var" \in live'.root.fstab <=> "/var" \in live.root.fstab
      /\ live'.var = live.var /\ live'.aside = live.aside
      /\ live'.root.var = live.root.var
  <2>1. CASE UNCHANGED live
    BY <2>1
  <2>2. CASE CopyBoot
    BY <1>1, <2>2, CopyChanges, AtRoot DEF ApartStays
  <2>3. CASE CreateSymlinks \/ UpdateFstab \/ Regenerate \/ FixGrubenv
    <3>1. ASSUME NEW r, Edits(r), r.var = Here.var, "/var" \in r.fstab <=> "/var" \in Here.fstab
          PROVE  /\ "/var" \in Here'.fstab <=> "/var" \in Here.fstab
                 /\ live'.var = live.var /\ live'.aside = live.aside
                 /\ Here'.var = Here.var
      BY <3>1 DEF Edits, HereStays, ApartStays
    <3>2. Here \in RootImages
      BY <1>1, HereKept
    <3>3. PICK r : /\ Edits(r) /\ r.var = Here.var
                   /\ "/var" \in r.fstab <=> "/var" \in Here.fstab
      <4>1. CASE CreateSymlinks
        BY <1>1, <3>2, <4>1, RootSteps DEF RootImages
      <4>2. CASE UpdateFstab
        BY <1>1, <3>2, <4>2, RootSteps DEF RootImages
      <4>3. CASE Regenerate
        BY <1>1, <3>2, <4>3, RootSteps DEF RootImages
      <4>4. CASE FixGrubenv
        BY <1>1, <3>2, <4>4, RootSteps DEF RootImages
      <4>5. QED BY <2>3, <4>1, <4>2, <4>3, <4>4
    <3>4. QED BY <3>1, <3>3, AtRoot
  <2>4. CASE SetDefaultSubvol
    BY <1>1, <2>4, ApartSteps, AtRoot DEF HereStays
  <2>5. CASE EnsureHooks
    BY <1>1, <2>5, HookSteps, AtRoot DEF ApartStays
  <2>6. QED BY <2>1, <2>2, <2>3, <2>4, <2>5
    DEF AroundStep10, Gate, LookAtBoot, UmountBoot, OldBoot, MountBack, UpdateEsp,
        SyncFilesystem, Exit
<1>9. QED BY <1>3, <1>6, <1>7, <1>8

\* Without tool failures, the steps of step 10 go on, but for an attempt to mount the top
\* level a second time.
LEMMA Step10GoesOn ==
    ASSUME Faults \subseteq {"power"}, Step, ~AroundStep10
    PROVE  /\ pc \in {"look10", "top", "untop", "snap", "clean", "create", "fill", "drop",
                      "varfstab", "mountvar"}
           /\ \/ Onward
              \/ pc = "look10" /\ pc' = "gate10"
              \/ pc = "top" /\ pc' = "failed" /\ UNCHANGED <<live, disk, esp, espDisk, mounts>>
<1>1. ~IOError
  BY DEF IOError
<1>2. LookAtVar \/ MountTop \/ SnapshotRoot \/ FillVar \/ AddVarToFstab \/ MountVar
  BY DEF Step, AroundStep10
<1>3. CASE LookAtVar
  BY <1>3 DEF LookAtVar
<1>4. CASE MountTop
  BY <1>1, <1>4 DEF MountTop, Mounts, Fail
<1>5. CASE SnapshotRoot
  BY <1>1, <1>5 DEF SnapshotRoot
<1>6. CASE FillVar \/ AddVarToFstab
  BY <1>1, <1>6 DEF FillVar, AddVarToFstab, Changes
<1>7. CASE MountVar
  BY <1>1, <1>7 DEF MountVar, Mounts
<1>8. QED BY <1>2, <1>3, <1>4, <1>5, <1>6, <1>7

\* The label tells which step is made.
LEMMA ActionAt ==
    ASSUME Step
    PROVE  /\ pc \in {"look1", "look4"} => LookAtBoot
           /\ pc \in {"umountefi1", "umountboot1", "umountefi4", "umountboot4"} => UmountBoot
           /\ pc \in {"mountold", "umountold"} => OldBoot
           /\ pc = "copy" => CopyBoot
           /\ pc \in {"mountboot1", "mountefi1", "mountefi4"} => MountBack
           /\ pc = "fstab" => UpdateFstab
           /\ pc \in {"top", "untop"} => MountTop
           /\ pc = "snap" => SnapshotRoot
           /\ pc \in {"clean", "create", "fill", "drop"} => FillVar
  BY DEF Step, Gate, Gates, LookAtBoot, UmountBoot, OldBoot, CopyBoot, MountBack, CreateSymlinks,
         SetDefaultSubvol, UpdateFstab, Regenerate, FixGrubenv, UpdateEsp, LookAtVar, MountTop,
         SnapshotRoot, FillVar, AddVarToFstab, MountVar, SyncFilesystem, EnsureHooks, Exit

\* Every action keeps what those steps count on.
LEMMA PreparedStep ==
    ASSUME Faults \subseteq {"power"}, "rollback" \notin Others, NamedInv, [Next]_vars
    PROVE  Prepared'
<1>1. /\ MigrateInv /\ Prepared /\ live \in VolumeStates /\ live.root.var \in VarContents
      /\ command \in {"migrate", "setup"}
      /\ pc \notin {"idle", "failed"} => pc \in Labels(command)
  BY CommandLabels DEF NamedInv, MigrateInv, MigrateTypeOK, VolumeStates, RootImages
<1>2. CASE pc' \in {"idle", "failed", "gate0", "gate1", "gate4", "gate10", "done", "copy"}
  BY <1>2 DEF Prepared
<1>3. CASE pc' = pc /\ live'.var = live.var /\ live'.aside = live.aside /\ UNCHANGED mounts
  BY <1>1, <1>3 DEF Prepared
<1>4. CASE Step /\ Onward /\ pc \notin {"idle", "failed", "done"}
  <2>1. pc \in Labels(command)
    BY <1>1, <1>4
  <2>2. pc' \in {"umountefi1", "umountboot1"} => "/boot" \in mounts'
    <3>1. CASE pc = "look1"
      BY <1>1, <1>4, <2>1, <3>1, ActionAt, OnwardFrom DEF LookAtBoot, Fail
    <3>2. CASE pc = "umountefi1"
      BY <1>1, <1>4, <3>2, ActionAt DEF Prepared, UmountBoot
    <3>3. QED BY <1>1, <1>4, <2>1, <3>1, <3>2, BehindName
  <2>3. pc' \in {"clean", "create", "fill"} => live'.aside # "absent"
    <3>1. CASE pc = "snap"
      <4>1. SnapshotRoot
        BY <1>4, <3>1, ActionAt
      <4>2. live'.aside = live.root.var
        BY <1>1, <4>1 DEF SnapshotRoot, VolumeStates, IOError
      <4>3. QED BY <1>1, <4>2 DEF VarContents
    <3>2. CASE pc \in {"clean", "create"}
      <4>1. FillVar
        BY <1>4, <3>2, ActionAt
      <4>2. live'.aside = live.aside
        BY <1>1, <3>2, <4>1 DEF FillVar, Changes, VolumeStates
      <4>3. QED BY <1>1, <3>2, <4>2 DEF Prepared
    <3>3. QED BY <1>1, <1>4, <2>1, <3>1, <3>2, BehindName
  <2>4. pc' \in {"fill", "drop", "untop", "varfstab"} => live'.var # "absent"
    <3>1. CASE pc \in {"create", "fill", "drop"}
      <4>1. FillVar
        BY <1>4, <3>1, ActionAt
      <4>2. /\ pc = "create" => live'.var = "empty"
            /\ pc = "fill" => live'.var = live.aside
            /\ pc = "drop" => live'.var = live.var
        BY <1>1, <3>1, <4>1 DEF FillVar, Changes, VolumeStates, IOError
      <4>3. QED BY <1>1, <3>1, <4>2 DEF Prepared
    <3>2. CASE pc = "untop"
      BY <1>1, <1>4, <3>2, ActionAt DEF Prepared, MountTop
    <3>3. QED BY <1>1, <1>4, <2>1, <3>1, <3>2, BehindName
  <2>5. QED BY <2>2, <2>3, <2>4 DEF Prepared
<1>5. CASE Step
  <2>1. \/ Onward /\ pc \notin {"idle", "failed", "done"}
        \/ pc' \in {"idle", "failed", "gate0", "gate1", "gate4", "gate10", "done", "copy"}
    BY <1>5 DEF Step, Gate, Gates, LookAtBoot, UmountBoot, OldBoot, CopyBoot, MountBack, CreateSymlinks,
      SetDefaultSubvol, UpdateFstab, Regenerate, FixGrubenv, UpdateEsp, LookAtVar, MountTop,
      SnapshotRoot, FillVar, AddVarToFstab, MountVar, SyncFilesystem, EnsureHooks, Exit,
      Changes, Mounts, Fail
  <2>2. QED BY <1>2, <1>4, <1>5, <2>1
<1>6. CASE TakeSnapshot
  <2>1. live'.var = live.var /\ live'.aside = live.aside
    BY <1>1, <1>6 DEF TakeSnapshot, VolumeStates
  <2>2. QED BY <1>3, <1>6, <2>1 DEF TakeSnapshot
<1>7. CASE UNCHANGED vars \/ Commit \/ FlushEsp
  BY <1>3, <1>7 DEF vars, Commit, FlushEsp
<1>8. CASE Start \/ Kill \/ PowerLoss \/ Reboot
  BY <1>2, <1>8 DEF Start, Kill, PowerLoss, Reboot, Restart
<1>9. QED BY <1>5, <1>6, <1>7, <1>8, StaysAtRoot DEF Next, NamedInv

\* Every action keeps what is said of power losses alone.
LEMMA NamedStep ==
    ASSUME Faults \subseteq {"power"}, "rollback" \notin Others, NamedInv, [Next]_vars
    PROVE  NamedInv'
<1>1. /\ MigrateInv /\ MigrateInv' /\ Prepared' /\ live \in VolumeStates /\ disk \in VolumeStates
      /\ running = "root" /\ running' = "root" /\ ~RollBack
      /\ command \in {"migrate", "setup"}
      /\ pc \notin {"idle", "failed"} => pc \in Labels(command)
  BY MigrateStepInv, PreparedStep, StaysAtRoot, CommandLabels DEF NamedInv, MigrateInv, MigrateTypeOK
<1>2. \A v \in VolumeStates, e \in {"ext4", "btrfs"} : Restart(v, e) => NamedInv'
  <2> SUFFICES ASSUME NEW v \in VolumeStates, NEW e \in {"ext4", "btrfs"}, Restart(v, e)
               PROVE  NamedInv'
    OBVIOUS
  <2>1. "idle" \notin BeforeName
    BY DEF BeforeName
  <2>2. QED BY <1>1, <2>1 DEF Restart, FstabMounts, NamedInv
<1>3. CASE UNCHANGED vars \/ Commit \/ FlushEsp
  BY <1>1, <1>3 DEF vars, Commit, FlushEsp, NamedInv
<1>4. CASE Start
  BY <1>1, <1>4 DEF Start, NamedInv, BeforeName
<1>5. CASE Step /\ AroundStep10
  BY <1>1, <1>5, AroundStep10Quiet DEF Step, NamedInv
<1>6. CASE Step /\ ~AroundStep10
  <2>1. command' = command
    BY <1>6 DEF Step
  <2>2. pc \in Labels(command) /\ pc # "done"
    BY <1>1, <1>6, Step10GoesOn
  <2>3. CASE LookAtVar
    <3>1. CASE "/var" \in mounts
      BY <1>1, <2>3, <3>1 DEF LookAtVar, NamedInv, BeforeName
    <3>2. CASE "/var" \notin mounts
      <4>1. "/var" \notin live'.root.fstab
        BY <2>3, <3>2 DEF LookAtVar, NamedInv
      <4>2. QED BY <1>1, <4>1 DEF NamedInv
    <3>3. QED BY <3>1, <3>2
  <2>4. CASE MountTop
    BY <1>1, <1>6, <2>2, <2>4, BehindName, Step10GoesOn DEF MountTop, Mounts, NamedInv, BeforeName
  <2>5. CASE SnapshotRoot
    <3>1. "/var" \in live'.root.fstab <=> "/var" \in live.root.fstab
      BY <1>1, <2>5 DEF SnapshotRoot, VolumeStates
    <3>2. QED BY <1>1, <1>6, <2>2, <2>5, <3>1, BehindName, Step10GoesOn
      DEF SnapshotRoot, NamedInv, BeforeName
  <2>6. CASE FillVar
    <3>1. "/var" \in live'.root.fstab <=> "/var" \in live.root.fstab
      BY <1>1, <2>6 DEF FillVar, Changes, VolumeStates
    <3>2. QED BY <1>1, <1>6, <2>2, <2>6, <3>1, BehindName, Step10GoesOn
      DEF FillVar, Changes, NamedInv, BeforeName
  <2>7. CASE AddVarToFstab
    <3>1. pc = "varfstab" /\ Onward
      BY <1>6, <2>7, Step10GoesOn DEF AddVarToFstab
    <3>2. pc' = "mountvar"
      BY <1>1, <2>2, <3>1, BehindName
    <3>3. QED BY <1>1, <3>2 DEF NamedInv, BeforeName
  <2>8. CASE MountVar
    <3>1. pc = "mountvar" /\ Onward /\ "/var" \in mounts'
      BY <2>8 DEF MountVar, Mounts, IOError
    <3>2. pc' = "gate10"
      BY <1>1, <2>2, <3>1, BehindName
    <3>3. QED BY <1>1, <3>1, <3>2 DEF NamedInv, BeforeName
  <2>9. QED BY <1>6, <2>3, <2>4, <2>5, <2>6, <2>7, <2>8 DEF Step, AroundStep10
<1>7. CASE PowerLoss \/ Reboot
  BY <1>1, <1>2, <1>7 DEF PowerLoss, Reboot, MigrateInv, MigrateTypeOK
<1>8. CASE TakeSnapshot
  <2>1. live'.root = live.root
    BY <1>1, <1>8 DEF TakeSnapshot, VolumeStates
  <2>2. QED BY <1>1, <1>8, <2>1 DEF TakeSnapshot, NamedInv
<1>9. CASE Kill
  BY <1>9 DEF Kill
<1>10. QED BY <1>1, <1>3, <1>4, <1>5, <1>6, <1>7, <1>8, <1>9 DEF Next

\* What fstab names is mounted as long as power losses are the only faults.
THEOREM MigrateNamed ==
    ASSUME Faults \subseteq {"power"}, "rollback" \notin Others
    PROVE  MigrateSpec => []NamedInv
<1>1. Init => NamedInv
  <2> SUFFICES ASSUME Init PROVE NamedInv
    OBVIOUS
  <2>1. MigrateInv /\ pc = "idle" /\ mounts = FstabMounts(live) /\ running = "root"
    BY MigrateInitInv DEF Init
  <2>2. QED BY <2>1 DEF NamedInv, FstabMounts, BeforeName, Prepared
<1>2. NamedInv /\ [Next]_vars => NamedInv'
  BY NamedStep
<1>3. QED BY <1>1, <1>2, PTL DEF MigrateSpec

\* What fstab names is there, in memory and on the disk.
FoundInv == NamedInv /\ VarFound(live) /\ VarFound(disk)

\* Every action keeps that.
LEMMA FoundStep ==
    ASSUME Faults \subseteq {"power"}, "rollback" \notin Others, FoundInv, [Next]_vars
    PROVE  FoundInv'
<1>1. /\ NamedInv /\ NamedInv' /\ MigrateInv /\ live \in VolumeStates /\ disk \in VolumeStates
      /\ running = "root" /\ running' = "root" /\ ~RollBack
      /\ command \in {"migrate", "setup"}
      /\ pc \notin {"idle", "failed"} => pc \in Labels(command)
  BY NamedStep, StaysAtRoot, CommandLabels DEF FoundInv, NamedInv, MigrateInv, MigrateTypeOK
<1>2. CASE UNCHANGED vars \/ Commit \/ FlushEsp
  BY <1>1, <1>2 DEF vars, Commit, FlushEsp, FoundInv, VarFound
<1>3. CASE Start
  BY <1>1, <1>3 DEF Start, FoundInv, VarFound
<1>4. CASE Step /\ AroundStep10
  BY <1>1, <1>4, AroundStep10Quiet DEF Step, FoundInv, VarFound
<1>5. CASE Step /\ ~AroundStep10
  <2>1. CASE LookAtVar \/ MountTop \/ MountVar
    BY <1>1, <2>1 DEF LookAtVar, MountTop, MountVar, Mounts, FoundInv, VarFound
  <2>2. CASE SnapshotRoot
    <3>1. live' = [live EXCEPT !.aside = live.root.var] /\ disk' = live'
      BY <1>5, <2>2 DEF SnapshotRoot, IOError
    <3>2. live'.root = live.root /\ live'.var = live.var
      BY <1>1, <3>1 DEF VolumeStates
    <3>3. QED BY <1>1, <3>1, <3>2 DEF FoundInv, VarFound
  <2>3. CASE FillVar
    <3>1. live'.root = live.root /\ disk' = disk
      BY <1>1, <2>3 DEF FillVar, Changes, VolumeStates, IOError
    <3>2. "/var" \notin live.root.fstab
      BY <1>1, <2>3 DEF FillVar, NamedInv, BeforeName
    <3>3. QED BY <1>1, <3>1, <3>2 DEF FoundInv, VarFound
  <2>4. CASE AddVarToFstab
    <3>1. pc = "varfstab" /\ live'.var = live.var /\ disk' = disk
      BY <1>1, <1>5, <2>4, RootSteps DEF Edits, ApartStays
    <3>2. QED BY <1>1, <3>1 DEF FoundInv, NamedInv, Prepared, VarFound
  <2>5. QED BY <1>5, <2>1, <2>2, <2>3, <2>4 DEF Step, AroundStep10
<1>6. CASE PowerLoss \/ Reboot
  <2>1. PICK v : \E e \in {"ext4", "btrfs"} : Restart(v, e)
    BY <1>1, <1>6 DEF PowerLoss, Reboot, MigrateInv, MigrateTypeOK
  <2>2. VarFound(v) /\ live' = v /\ disk' = v
    BY <2>1, BootsMeaning DEF Restart
  <2>3. QED BY <1>1, <2>2 DEF FoundInv, VarFound
<1>7. CASE TakeSnapshot
  <2>1. live'.root = live.root /\ live'.var = live.var /\ disk' = live'
    BY <1>1, <1>7 DEF TakeSnapshot, VolumeStates
  <2>2. QED BY <1>1, <2>1 DEF FoundInv, VarFound
<1>8. CASE Kill
  BY <1>8 DEF Kill
<1>9. QED BY <1>1, <1>2, <1>3, <1>4, <1>5, <1>6, <1>7, <1>8 DEF Next

\* Until the new ESP reaches its own disk, a power loss leaves a volume that boots, also
\* when snapshots are taken in between.
THEOREM MigratePowerLossBoots ==
    ASSUME Faults \subseteq {"power"}, "rollback" \notin Others
    PROVE  MigrateSpec => []PowerLossBootsBeforeEsp
<1>1. Init => FoundInv
  <2> SUFFICES ASSUME Init PROVE FoundInv
    OBVIOUS
  <2>1. MigrateInv /\ pc = "idle" /\ mounts = FstabMounts(live) /\ running = "root" /\ disk = live
    BY MigrateInitInv DEF Init
  <2>2. NamedInv
    BY <2>1 DEF NamedInv, FstabMounts, BeforeName, Prepared
  <2>3. \A v \in {Fresh, Cloud} : VarFound(v)
    <3>1. Fresh.root.fstab = {"/boot"} /\ Cloud.var = "full"
      BY DEF Fresh, Cloud, Stock
    <3>2. QED BY <3>1 DEF VarFound
  <2>4. QED BY <2>1, <2>2, <2>3 DEF Init, FoundInv
<1>2. FoundInv /\ [Next]_vars => FoundInv'
  BY FoundStep
<1>3. FoundInv => PowerLossBootsBeforeEsp
  BY BootsMeaning DEF FoundInv, PowerLossBootsBeforeEsp
<1>4. QED BY <1>1, <1>2, <1>3, PTL DEF MigrateSpec

\* What a power loss keeps of the volume v: fstab names the subvolume only when it holds
\* the data, which the root holds until then.
Filled(v) == IF "/var" \in v.root.fstab THEN v.var = "full" ELSE v.root.var = "full"

\* The copy is full before fstab names it, in memory and on the disk.
FillInv ==
    /\ NamedInv
    /\ Filled(live) /\ Filled(disk)
    /\ pc \in {"clean", "create", "fill"} => live.aside = "full"
    /\ pc \in {"drop", "untop", "varfstab"} => live.var = "full"

\* Every action keeps that.
LEMMA FillStep ==
    ASSUME Faults \subseteq {"power"}, "rollback" \notin Others, FillInv, [Next]_vars
    PROVE  FillInv'
<1>1. /\ NamedInv /\ NamedInv' /\ MigrateInv /\ live \in VolumeStates /\ disk \in VolumeStates
      /\ running = "root" /\ running' = "root" /\ ~RollBack
      /\ command \in {"migrate", "setup"}
      /\ pc \notin {"idle", "failed"} => pc \in Labels(command)
  BY NamedStep, StaysAtRoot, CommandLabels DEF FillInv, NamedInv, MigrateInv, MigrateTypeOK
<1>2. CASE UNCHANGED vars \/ Commit \/ FlushEsp
  BY <1>1, <1>2 DEF vars, Commit, FlushEsp, FillInv, Filled
<1>3. CASE Start
  BY <1>1, <1>3 DEF Start, FillInv, Filled
<1>4. CASE Step /\ AroundStep10
  <2>1. Filled(live') /\ Filled(disk')
    BY <1>1, <1>4, AroundStep10Quiet DEF Step, FillInv, Filled
  <2>2. pc' \notin {"clean", "create", "fill", "drop", "untop", "varfstab"}
    BY <1>1, <1>4, AroundStep10Quiet DEF Step, BeforeName
  <2>3. QED BY <1>1, <2>1, <2>2 DEF FillInv
<1>5. CASE Step /\ ~AroundStep10
  <2>1. pc \in Labels(command) /\ pc # "done"
    BY <1>1, <1>5, Step10GoesOn
  <2>2. CASE LookAtVar \/ MountTop \/ MountVar
    <3>1. UNCHANGED <<live, disk>>
      BY <2>2 DEF LookAtVar, MountTop, MountVar, Mounts
    <3>2. QED BY <1>1, <1>5, <2>1, <2>2, <3>1, OnwardFrom, Step10GoesOn
      DEF LookAtVar, MountTop, MountVar, Mounts, FillInv, Filled
  <2>3. CASE SnapshotRoot
    <3>1. Onward /\ pc = "snap" /\ live' = [live EXCEPT !.aside = live.root.var] /\ disk' = live'
      BY <1>5, <2>3 DEF SnapshotRoot, IOError
    <3>2. /\ live'.root = live.root /\ live'.var = live.var
          /\ live'.aside = live.root.var
      BY <1>1, <3>1 DEF VolumeStates
    <3>3. "/var" \notin live.root.fstab /\ pc' = "clean"
      BY <1>1, <2>1, <3>1, OnwardFrom DEF NamedInv, BeforeName
    <3>4. QED BY <1>1, <3>1, <3>2, <3>3 DEF FillInv, Filled
  <2>4. CASE FillVar
    <3>1. /\ live'.root = live.root
          /\ pc = "fill" => live'.var = live.aside
          /\ pc \in {"clean", "create"} => live'.aside = live.aside
          /\ pc = "drop" => live'.var = live.var
          /\ disk' = disk
      BY <1>1, <1>5, <2>4 DEF FillVar, Changes, VolumeStates, IOError
    <3>2. "/var" \notin live.root.fstab /\ pc \in {"clean", "create", "fill", "drop"}
      BY <1>1, <2>4 DEF FillVar, NamedInv, BeforeName
    <3>3. Onward
      BY <1>5, <2>4 DEF FillVar, Changes, IOError
    <3>4. QED BY <1>1, <2>1, <3>1, <3>2, <3>3, OnwardFrom DEF FillInv, Filled
  <2>5. CASE AddVarToFstab
    <3>1. Onward /\ pc = "varfstab" /\ live'.var = live.var /\ disk' = disk
          /\ live'.root.fstab = live.root.fstab \cup {"/var"}
      <4>1. ~IOError /\ Here \in RootImages
        BY <1>1, HereKept DEF IOError
      <4>2. /\ pc = "varfstab" /\ Onward /\ ApartStays /\ disk' = disk
            /\ Here' = [Here EXCEPT !.fstab = @ \cup {"/var"}]
        BY <1>1, <2>5, <4>1, RootSteps DEF Edits
      <4>3. Here'.fstab = Here.fstab \cup {"/var"}
        BY <4>1, <4>2 DEF RootImages
      <4>4. QED BY <1>1, <4>2, <4>3, AtRoot DEF ApartStays
    <3>2. QED BY <1>1, <2>1, <3>1, OnwardFrom DEF FillInv, Filled
  <2>6. QED BY <1>5, <2>2, <2>3, <2>4, <2>5 DEF Step, AroundStep10
<1>6. CASE PowerLoss \/ Reboot
  BY <1>1, <1>6 DEF PowerLoss, Reboot, Restart, FillInv, Filled
<1>7. CASE TakeSnapshot
  <2>1. /\ live'.root = live.root /\ live'.var = live.var /\ live'.aside = live.aside
        /\ disk' = live'
    BY <1>1, <1>7 DEF TakeSnapshot, VolumeStates
  <2>2. QED BY <1>1, <1>7, <2>1 DEF TakeSnapshot, FillInv, Filled
<1>8. CASE Kill
  BY <1>8 DEF Kill
<1>9. QED BY <1>1, <1>2, <1>3, <1>4, <1>5, <1>6, <1>7, <1>8 DEF Next

\* Power losses find /var filled, wherever they cut setup or migrate off, on the volume
\* the system runs on and on the one it would start from.
THEOREM MigrateFills ==
    ASSUME Faults \subseteq {"power"}, "rollback" \notin Others
    PROVE  MigrateSpec => []FillInv
<1>1. Init => FillInv
  <2> SUFFICES ASSUME Init PROVE FillInv
    OBVIOUS
  <2>1. MigrateInv /\ pc = "idle" /\ mounts = FstabMounts(live) /\ running = "root" /\ disk = live
    BY MigrateInitInv DEF Init
  <2>2. NamedInv
    BY <2>1 DEF NamedInv, FstabMounts, BeforeName, Prepared
  <2>3. \A v \in {Fresh, Cloud} : Filled(v)
    <3>1. /\ Fresh.root.fstab = {"/boot"} /\ Fresh.root.var = "full"
          /\ Cloud.root.fstab = {"/boot"} \cup {"/var"} /\ Cloud.var = "full"
      BY DEF Fresh, Cloud, Stock
    <3>2. QED BY <3>1 DEF Filled
  <2>4. QED BY <2>1, <2>2, <2>3 DEF Init, FillInv
<1>2. FillInv /\ [Next]_vars => FillInv'
  BY FillStep
<1>3. QED BY <1>1, <1>2, PTL DEF MigrateSpec

\* The copy of /var is full before fstab names it, now and after a power loss.
THEOREM MigrateVarIsFilled ==
    ASSUME Faults \subseteq {"power"}, "rollback" \notin Others
    PROVE  MigrateSpec => []VarIsFilled
<1>1. FillInv => VarIsFilled
  BY DEF FillInv, Filled, VarIsFilled
<1>2. QED BY <1>1, MigrateFills, PTL

-----------------------------------------------------------------------------
(* The steps of proof.rs.                                                  *)

\* What is mounted at /boot is in fstab, and the partition is mounted apart for the copy alone,
\* when nothing fails: the mounts of steps 1 and 4 are there to be made.
KeptInv ==
    /\ NamedInv
    /\ "/boot" \in mounts => "/boot" \in live.root.fstab
    /\ pc \in {"mountold", "copy", "umountold", "mountboot1"} => "/boot" \in live.root.fstab
    /\ "/mnt/old-boot" \in mounts => pc \in {"copy", "umountold"}

\* Step 5 alone changes what fstab has for /boot.
LEMMA FstabBoot ==
    ASSUME MigrateInv, running = "root", running' = "root", Step, ~UpdateFstab
    PROVE  "/boot" \in live'.root.fstab <=> "/boot" \in live.root.fstab
<1>1. live \in VolumeStates /\ Here \in RootImages
  BY HereKept DEF MigrateInv, MigrateTypeOK
<1>2. CASE UNCHANGED live
  BY <1>2
<1>3. CASE CopyBoot
  BY <1>1, <1>3, CopyChanges, AtRoot
<1>4. CASE CreateSymlinks \/ Regenerate \/ FixGrubenv \/ AddVarToFstab
  <2>1. ASSUME NEW r, Edits(r), "/boot" \in r.fstab <=> "/boot" \in Here.fstab
        PROVE  "/boot" \in Here'.fstab <=> "/boot" \in Here.fstab
    BY <2>1 DEF Edits, HereStays
  <2>2. PICK r : Edits(r) /\ ("/boot" \in r.fstab <=> "/boot" \in Here.fstab)
    <3>1. CASE CreateSymlinks
      BY <1>1, <3>1, RootSteps DEF RootImages
    <3>2. CASE Regenerate
      BY <1>1, <3>2, RootSteps DEF RootImages
    <3>3. CASE FixGrubenv
      BY <1>1, <3>3, RootSteps DEF RootImages
    <3>4. CASE AddVarToFstab
      BY <1>1, <3>4, RootSteps DEF RootImages
    <3>5. QED BY <1>4, <3>1, <3>2, <3>3, <3>4
  <2>3. QED BY <2>1, <2>2, AtRoot
<1>5. CASE SetDefaultSubvol \/ FillVar \/ SnapshotRoot
  BY <1>1, <1>5, ApartSteps, AtRoot DEF HereStays
<1>6. CASE EnsureHooks
  BY <1>1, <1>6, HookSteps, AtRoot
<1>7. QED BY <1>2, <1>3, <1>4, <1>5, <1>6
  DEF Step, Gate, LookAtBoot, UmountBoot, OldBoot, MountBack, UpdateEsp, LookAtVar, MountTop,
      MountVar, SyncFilesystem, Exit

\* Every action keeps that.
LEMMA KeptStep ==
    ASSUME Faults \subseteq {"power"}, "rollback" \notin Others, KeptInv, [Next]_vars
    PROVE  KeptInv'
<1>1. /\ NamedInv' /\ MigrateInv /\ Prepared /\ live \in VolumeStates /\ disk \in VolumeStates
      /\ running = "root" /\ running' = "root" /\ ~RollBack
      /\ command \in {"migrate", "setup"}
      /\ pc \notin {"idle", "failed"} => pc \in Labels(command)
  BY NamedStep, StaysAtRoot, CommandLabels DEF KeptInv, NamedInv, MigrateInv, MigrateTypeOK
<1>2. ~IOError
  BY DEF IOError
<1>3. CASE UNCHANGED vars \/ Commit \/ FlushEsp
  BY <1>1, <1>3 DEF vars, Commit, FlushEsp, KeptInv
<1>4. CASE Start \/ Kill
  BY <1>1, <1>4 DEF Start, Kill, KeptInv
<1>5. CASE TakeSnapshot
  <2>1. live'.root = live.root
    BY <1>1, <1>5 DEF TakeSnapshot, VolumeStates
  <2>2. QED BY <1>1, <1>5, <2>1 DEF TakeSnapshot, KeptInv
<1>6. CASE PowerLoss \/ Reboot
  <2>1. PICK v \in VolumeStates : \E e \in {"ext4", "btrfs"} : Restart(v, e)
    BY <1>1, <1>6 DEF PowerLoss, Reboot, MigrateInv, MigrateTypeOK
  <2>2. live' = v /\ mounts' = FstabMounts(v) /\ pc' = "idle"
    BY <2>1 DEF Restart
  <2>3. v.root.fstab \subseteq {"/boot", "/var"}
    BY DEF VolumeStates, RootImages
  <2>4. QED BY <1>1, <2>2, <2>3 DEF FstabMounts, KeptInv
<1>7. CASE Step /\ UpdateFstab
  <2>1. pc = "fstab" /\ UNCHANGED mounts
    BY <1>1, <1>7, RootSteps DEF Edits
  <2>2. "/boot" \notin mounts
    <3>1. command = "migrate" /\ "fstab" \in AfterSwitch
      BY <1>1, <2>1, SetupLabels DEF AfterSwitch
    <3>2. QED BY <1>1, <2>1, <3>1 DEF MigrateInv, BootMade
  <2>3. pc' \notin {"mountold", "copy", "umountold", "mountboot1"}
    <3>1. Onward
      BY <1>2, <1>7 DEF UpdateFstab, Changes
    <3>2. QED BY <1>1, <2>1, <3>1, BehindBoot
  <2>4. QED BY <1>1, <2>1, <2>2, <2>3 DEF KeptInv
<1>8. CASE Step /\ ~UpdateFstab
  <2>1. "/boot" \in live'.root.fstab <=> "/boot" \in live.root.fstab
    BY <1>1, <1>8, FstabBoot
  <2>2. CASE OldBoot
    <3>1. \/ pc = "mountold" /\ mounts' = mounts \cup {"/mnt/old-boot"}
          \/ pc = "umountold" /\ mounts' = mounts \ {"/mnt/old-boot"}
      BY <1>1, <1>2, <2>2, AtRoot DEF OldBoot, Mounts, KeptInv
    <3>2. Onward
      BY <1>1, <1>2, <2>2, AtRoot DEF OldBoot, Mounts, KeptInv
    <3>3. pc' = "copy" \/ (pc = "umountold" /\ pc' = "mountboot1")
      BY <1>1, <3>1, <3>2, OnwardFrom
    <3>4. QED BY <1>1, <2>1, <3>1, <3>3 DEF KeptInv
  <2>3. CASE CopyBoot
    <3>1. pc = "copy" /\ UNCHANGED mounts /\ (pc' = pc \/ Onward)
      BY <1>2, <2>3 DEF CopyBoot, Changes
    <3>2. pc' = "copy" \/ pc' = "umountold"
      BY <1>1, <3>1, OnwardFrom
    <3>3. QED BY <1>1, <2>1, <3>1, <3>2 DEF KeptInv
  <2>4. CASE UmountBoot
    <3>1. mounts' \subseteq mounts /\ (Onward \/ Fail)
          /\ pc \in {"umountefi1", "umountboot1", "umountefi4", "umountboot4"}
      BY <2>4 DEF UmountBoot, Mounts
    <3>2. pc' \notin {"copy", "umountold", "mountboot1"}
      BY <1>1, <3>1, BehindBoot DEF Fail
    <3>3. pc' = "mountold" => "/boot" \in mounts
      BY <1>1, <3>1, BehindBoot DEF Fail, Prepared
    <3>4. QED BY <1>1, <2>1, <3>1, <3>2, <3>3 DEF KeptInv
  <2>5. CASE MountBack
    <3>1. /\ mounts' \subseteq mounts \cup {"/boot", "/boot/efi"} /\ (Onward \/ Fail)
          /\ pc \in {"mountboot1", "mountefi1", "mountefi4"}
          /\ "/boot" \in mounts' => "/boot" \in mounts \/ pc = "mountboot1"
      BY <2>5 DEF MountBack, Mounts
    <3>2. pc' \notin {"mountold", "copy", "umountold", "mountboot1"}
      BY <1>1, <3>1, BehindBoot DEF Fail
    <3>3. QED BY <1>1, <2>1, <3>1, <3>2 DEF KeptInv
  <2>6. CASE ~OldBoot /\ ~CopyBoot /\ ~UmountBoot /\ ~MountBack
    <3>1. /\ mounts' \subseteq mounts \cup {"top", "/var"}
          /\ pc \notin {"mountold", "copy", "umountold", "mountboot1", "umountboot1"}
          /\ \/ Onward /\ pc \notin {"idle", "failed", "done"}
             \/ pc' \in {"failed", "gate1", "gate4", "gate10", "done", "idle"}
      BY <1>8, <2>6 DEF Step, Gate, Gates, LookAtBoot, CreateSymlinks, SetDefaultSubvol,
        UpdateFstab, Regenerate, FixGrubenv, UpdateEsp, LookAtVar, MountTop, SnapshotRoot, FillVar,
        AddVarToFstab, MountVar, SyncFilesystem, EnsureHooks, Exit, Changes, Mounts, Fail
    <3>2. pc' \notin {"mountold", "copy", "umountold", "mountboot1"}
      BY <1>1, <3>1, BehindBoot
    <3>3. QED BY <1>1, <2>1, <3>1, <3>2 DEF KeptInv
  <2>7. QED BY <2>2, <2>3, <2>4, <2>5, <2>6
<1>9. QED BY <1>1, <1>3, <1>4, <1>5, <1>6, <1>7, <1>8 DEF Next

\* What is mounted at /boot is in fstab as long as nothing fails.
THEOREM MigrateKept ==
    ASSUME Faults \subseteq {"power"}, "rollback" \notin Others
    PROVE  MigrateSpec => []KeptInv
<1>1. Init => KeptInv
  <2> SUFFICES ASSUME Init PROVE KeptInv
    OBVIOUS
  <2>1. /\ MigrateInv /\ pc = "idle" /\ mounts = FstabMounts(live) /\ running = "root"
        /\ live \in VolumeStates
    BY MigrateInitInv DEF Init, MigrateInv, MigrateTypeOK
  <2>2. NamedInv
    BY <2>1 DEF NamedInv, FstabMounts, BeforeName, Prepared
  <2>3. live.root.fstab \subseteq {"/boot", "/var"}
    BY <2>1 DEF VolumeStates, RootImages
  <2>4. QED BY <2>1, <2>2, <2>3 DEF KeptInv, FstabMounts
<1>2. KeptInv /\ [Next]_vars => KeptInv'
  BY KeptStep
<1>3. QED BY <1>1, <1>2, PTL DEF MigrateSpec

\* The fields of a state of proof.rs.
Fields ==
    {"esp_target_uuid", "esp_has_btrfs_relative", "esp_prefix_has_boot",
     "grub_cfg_on_ext4", "grub_cfg_on_btrfs", "kernel_on_ext4", "kernel_on_btrfs",
     "symlinks_exist", "fstab_has_ext4_boot", "ext4_boot_mounted", "var_is_subvol",
     "fstab_has_var_mount", "root_device_ref", "root_compression", "var_device_ref",
     "var_compression", "default_subvol", "root_subvol", "grubenv_nocow",
     "artifact_verified", "durable"}

\* A record of these fields.
IsState(a) == a = [f \in Fields |-> a[f]]

\* The states a and b agree but for the fields X.
Agree(a, b, X) ==
    /\ a.esp_target_uuid = b.esp_target_uuid \/ "esp_target_uuid" \in X
    /\ a.esp_has_btrfs_relative = b.esp_has_btrfs_relative \/ "esp_has_btrfs_relative" \in X
    /\ a.esp_prefix_has_boot = b.esp_prefix_has_boot \/ "esp_prefix_has_boot" \in X
    /\ a.grub_cfg_on_ext4 = b.grub_cfg_on_ext4 \/ "grub_cfg_on_ext4" \in X
    /\ a.grub_cfg_on_btrfs = b.grub_cfg_on_btrfs \/ "grub_cfg_on_btrfs" \in X
    /\ a.kernel_on_ext4 = b.kernel_on_ext4 \/ "kernel_on_ext4" \in X
    /\ a.kernel_on_btrfs = b.kernel_on_btrfs \/ "kernel_on_btrfs" \in X
    /\ a.symlinks_exist = b.symlinks_exist \/ "symlinks_exist" \in X
    /\ a.fstab_has_ext4_boot = b.fstab_has_ext4_boot \/ "fstab_has_ext4_boot" \in X
    /\ a.ext4_boot_mounted = b.ext4_boot_mounted \/ "ext4_boot_mounted" \in X
    /\ a.var_is_subvol = b.var_is_subvol \/ "var_is_subvol" \in X
    /\ a.fstab_has_var_mount = b.fstab_has_var_mount \/ "fstab_has_var_mount" \in X
    /\ a.root_device_ref = b.root_device_ref \/ "root_device_ref" \in X
    /\ a.root_compression = b.root_compression \/ "root_compression" \in X
    /\ a.var_device_ref = b.var_device_ref \/ "var_device_ref" \in X
    /\ a.var_compression = b.var_compression \/ "var_compression" \in X
    /\ a.default_subvol = b.default_subvol \/ "default_subvol" \in X
    /\ a.root_subvol = b.root_subvol \/ "root_subvol" \in X
    /\ a.grubenv_nocow = b.grubenv_nocow \/ "grubenv_nocow" \in X
    /\ a.artifact_verified = b.artifact_verified \/ "artifact_verified" \in X
    /\ a.durable = b.durable \/ "durable" \in X

\* The boot chain of a state is one.
LEMMA ChainFields ==
    ASSUME NEW m, IsState(m)
    PROVE  LET a == Chain(m)
           IN  /\ IsState(a) /\ a.artifact_verified = TRUE /\ a.durable = FALSE
               /\ \A f \in Fields \ {"artifact_verified", "durable"} : a[f] = m[f]
  BY DEF Chain, IsState, Fields

\* The boot chain of the program is a state of proof.rs.
LEMMA ModelStateFields ==
    ASSUME NEW v, NEW e
    PROVE  IsState(ModelState(v, e))
  BY DEF ModelState, IsState, Fields

\* The same of the next state.
LEMMA NextModelStateFields == IsState(ModelState(live, esp)')
  BY DEF ModelState, IsState, Fields

\* What it is to agree, field by field.
LEMMA Agreement ==
    ASSUME NEW a, NEW b, NEW X, Agree(a, b, X)
    PROVE  \A f \in Fields \ X : a[f] = b[f]
  BY DEF Agree, Fields

\* States that agree are the same.
LEMMA AgreeIsEqual ==
    ASSUME NEW a, NEW b, IsState(a), IsState(b), Agree(a, b, {})
    PROVE  b = a
<1>1. \A f \in Fields : a[f] = b[f]
  BY Agreement
<1>2. QED BY <1>1 DEF IsState

\* A state is the boot chain of itself.
LEMMA Chained ==
    ASSUME NEW a, IsState(a), a.artifact_verified = TRUE, a.durable = FALSE
    PROVE  Chain(a) = a
  BY DEF Chain, IsState, Fields

\* What is said of one state after another.
LEMMA Chosen ==
    ASSUME NEW a, NEW t, NEW k, Chain(a) = a, Model!Stepped(k, a, Model!AxiomNames) = {t}
    PROVE  Chain(t) \in Modelled(k, a)
  BY DEF Modelled

\* The copy of a kernel is step 1 of proof.rs.
LEMMA IsStep1 ==
    ASSUME NEW a, NEW b, IsState(a), IsState(b), a.artifact_verified = TRUE,
           a.durable = FALSE,
           Agree(a, b, {"kernel_on_btrfs"}),
           b.kernel_on_btrfs = TRUE,
           b.artifact_verified = TRUE, b.durable = FALSE
    PROVE  b \in Modelled(1, a)
<1> DEFINE t == Model!Change([a EXCEPT !.kernel_on_btrfs = TRUE])
<1>1. Model!Stepped(1, a, Model!AxiomNames) = {t}
  BY DEF Model!Stepped, Model!step1_copy_boot
<1>2. \A f \in Fields \ {"kernel_on_btrfs"} : a[f] = b[f]
  BY Agreement
<1>3. Chain(t) = b
  BY <1>2 DEF Chain, IsState, Fields, Model!Change
<1>4. QED BY <1>1, <1>3, Chained, Chosen

\* The symlinks is step 2 of proof.rs.
LEMMA IsStep2 ==
    ASSUME NEW a, NEW b, IsState(a), IsState(b), a.artifact_verified = TRUE,
           a.durable = FALSE,
           Agree(a, b, {"symlinks_exist"}),
           b.symlinks_exist = TRUE,
           b.artifact_verified = TRUE, b.durable = FALSE
    PROVE  b \in Modelled(2, a)
<1> DEFINE t == Model!Change([a EXCEPT !.symlinks_exist = TRUE])
<1>1. Model!Stepped(2, a, Model!AxiomNames) = {t}
  BY DEF Model!Stepped, Model!step2_create_symlinks
<1>2. \A f \in Fields \ {"symlinks_exist"} : a[f] = b[f]
  BY Agreement
<1>3. Chain(t) = b
  BY <1>2 DEF Chain, IsState, Fields, Model!Change
<1>4. QED BY <1>1, <1>3, Chained, Chosen

\* The default subvolume is step 3 of proof.rs.
LEMMA IsStep3 ==
    ASSUME NEW a, NEW b, IsState(a), IsState(b), a.artifact_verified = TRUE,
           a.durable = FALSE,
           Agree(a, b, {"default_subvol"}),
           b.default_subvol = a.root_subvol,
           b.artifact_verified = TRUE, b.durable = FALSE
    PROVE  b \in Modelled(3, a)
<1> DEFINE t == Model!Change([a EXCEPT !.default_subvol = a.root_subvol])
<1>1. Model!Stepped(3, a, Model!AxiomNames) = {t}
  BY DEF Model!Stepped, Model!step3_set_default_subvol
<1>2. \A f \in Fields \ {"default_subvol"} : a[f] = b[f]
  BY Agreement
<1>3. Chain(t) = b
  BY <1>2 DEF Chain, IsState, Fields, Model!Change
<1>4. QED BY <1>1, <1>3, Chained, Chosen

\* The umount of /boot is step 4 of proof.rs.
LEMMA IsStep4 ==
    ASSUME NEW a, NEW b, IsState(a), IsState(b), a.artifact_verified = TRUE,
           a.durable = FALSE,
           Agree(a, b, {"ext4_boot_mounted"}),
           b.ext4_boot_mounted = FALSE,
           b.artifact_verified = TRUE, b.durable = FALSE
    PROVE  b \in Modelled(4, a)
<1> DEFINE t == [a EXCEPT !.ext4_boot_mounted = FALSE]
<1>1. Model!Stepped(4, a, Model!AxiomNames) = {t}
  BY DEF Model!Stepped, Model!step4_switch_boot
<1>2. \A f \in Fields \ {"ext4_boot_mounted"} : a[f] = b[f]
  BY Agreement
<1>3. Chain(t) = b
  BY <1>2 DEF Chain, IsState, Fields
<1>4. QED BY <1>1, <1>3, Chained, Chosen

\* The new fstab is step 5 of proof.rs.
LEMMA IsStep5 ==
    ASSUME NEW a, NEW b, IsState(a), IsState(b), a.artifact_verified = TRUE,
           a.durable = FALSE,
           Agree(a, b, {"fstab_has_ext4_boot"}),
           b.fstab_has_ext4_boot = FALSE,
           b.artifact_verified = TRUE, b.durable = FALSE
    PROVE  b \in Modelled(5, a)
<1> DEFINE t == Model!Swap([a EXCEPT !.fstab_has_ext4_boot = FALSE])
<1>1. Model!Stepped(5, a, Model!AxiomNames) = {t}
  BY DEF Model!Stepped, Model!step5_update_fstab, Model!Option, Model!CanSwap,
         Model!AxiomNames
<1>2. \A f \in Fields \ {"fstab_has_ext4_boot"} : a[f] = b[f]
  BY Agreement
<1>3. Chain(t) = b
  BY <1>2 DEF Chain, IsState, Fields, Model!Swap
<1>4. QED BY <1>1, <1>3, Chained, Chosen

\* A grub.cfg is step 7 of proof.rs.
LEMMA IsStep7 ==
    ASSUME NEW a, NEW b, IsState(a), IsState(b), a.artifact_verified = TRUE,
           a.durable = FALSE,
           Agree(a, b, {"grub_cfg_on_btrfs"}),
           b.grub_cfg_on_btrfs = TRUE,
           b.artifact_verified = TRUE, b.durable = FALSE
    PROVE  b \in Modelled(7, a)
<1> DEFINE t == Model!Swap([a EXCEPT !.grub_cfg_on_btrfs = TRUE])
<1>1. Model!Stepped(7, a, Model!AxiomNames) = {t}
  BY DEF Model!Stepped, Model!step7_regen_grub_cfg, Model!Option, Model!CanSwap,
         Model!AxiomNames
<1>2. \A f \in Fields \ {"grub_cfg_on_btrfs"} : a[f] = b[f]
  BY Agreement
<1>3. Chain(t) = b
  BY <1>2 DEF Chain, IsState, Fields, Model!Swap
<1>4. QED BY <1>1, <1>3, Chained, Chosen

\* The readable grubenv is step 8 of proof.rs.
LEMMA IsStep8 ==
    ASSUME NEW a, NEW b, IsState(a), IsState(b), a.artifact_verified = TRUE,
           a.durable = FALSE,
           Agree(a, b, {"grubenv_nocow"}),
           b.grubenv_nocow = TRUE,
           b.artifact_verified = TRUE, b.durable = FALSE
    PROVE  b \in Modelled(8, a)
<1> DEFINE t == Model!Change([a EXCEPT !.grubenv_nocow = TRUE])
<1>1. Model!Stepped(8, a, Model!AxiomNames) = {t}
  BY DEF Model!Stepped, Model!step8_fix_grubenv
<1>2. \A f \in Fields \ {"grubenv_nocow"} : a[f] = b[f]
  BY Agreement
<1>3. Chain(t) = b
  BY <1>2 DEF Chain, IsState, Fields, Model!Change
<1>4. QED BY <1>1, <1>3, Chained, Chosen

\* The new ESP is step 9 of proof.rs.
LEMMA IsStep9 ==
    ASSUME NEW a, NEW b, IsState(a), IsState(b), a.artifact_verified = TRUE,
           a.durable = FALSE,
           Agree(a, b, {"esp_target_uuid", "esp_has_btrfs_relative", "esp_prefix_has_boot"}),
           b.esp_target_uuid = "Btrfs",
           b.esp_has_btrfs_relative = TRUE,
           b.esp_prefix_has_boot = TRUE,
           b.artifact_verified = TRUE, b.durable = FALSE
    PROVE  b \in Modelled(9, a)
<1> DEFINE t == Model!Swap([a EXCEPT !.esp_target_uuid = "Btrfs", !.esp_has_btrfs_relative = TRUE, !.esp_prefix_has_boot = TRUE])
<1>1. Model!Stepped(9, a, Model!AxiomNames) = {t}
  BY DEF Model!Stepped, Model!step9_update_esp, Model!Option, Model!CanSwap,
         Model!AxiomNames
<1>2. \A f \in Fields \ {"esp_target_uuid", "esp_has_btrfs_relative", "esp_prefix_has_boot"} : a[f] = b[f]
  BY Agreement
<1>3. Chain(t) = b
  BY <1>2 DEF Chain, IsState, Fields, Model!Swap
<1>4. QED BY <1>1, <1>3, Chained, Chosen

\* The entry of /var is step 10 of proof.rs.
LEMMA IsStep10 ==
    ASSUME NEW a, NEW b, IsState(a), IsState(b), a.artifact_verified = TRUE,
           a.durable = FALSE,
           ~a.var_is_subvol, a.var_device_ref = a.root_device_ref,
           a.var_compression = a.root_compression,
           Agree(a, b, {"var_is_subvol", "fstab_has_var_mount"}),
           b.var_is_subvol = TRUE,
           b.fstab_has_var_mount = TRUE,
           b.artifact_verified = TRUE, b.durable = FALSE
    PROVE  b \in Modelled(10, a)
<1> DEFINE c == [a EXCEPT !.var_is_subvol = TRUE, !.fstab_has_var_mount = TRUE,
                          !.var_device_ref = a.root_device_ref,
                          !.var_compression = a.root_compression]
           t == Model!Swap(c)
<1>1. Model!Stepped(10, a, Model!AxiomNames) = {t}
  BY DEF Model!Stepped, Model!step10_separate_var, Model!Option, Model!CanSwap,
         Model!AxiomNames, Model!VarSeparated
<1>2. \A f \in Fields \ {"var_is_subvol", "fstab_has_var_mount"} : a[f] = b[f]
  BY Agreement
<1> HIDE DEF c
<1>3. IsState(c) /\ \A f \in Fields : c[f] = b[f]
  <2>1. IsState(c)
    BY DEF c, IsState
  <2>2. /\ c.var_is_subvol = TRUE /\ c.fstab_has_var_mount = TRUE
        /\ c.var_device_ref = a.var_device_ref /\ c.var_compression = a.var_compression
    BY DEF c, IsState, Fields
  <2>3. \A f \in Fields \ {"var_is_subvol", "fstab_has_var_mount", "var_device_ref",
                           "var_compression"} : c[f] = a[f]
    BY DEF c, IsState
  <2>4. QED BY <1>2, <2>1, <2>2, <2>3
<1>4. Chain(t) = b
  BY <1>3 DEF Chain, IsState, Fields, Model!Swap
<1>5. QED BY <1>1, <1>4, Chained, Chosen

\* A step of proof.rs that has been made, and is still in force, changes nothing when it is
\* made again.
LEMMA InForce ==
    ASSUME NEW a, IsState(a), a.artifact_verified = TRUE, a.durable = FALSE
    PROVE  /\ a.kernel_on_btrfs = TRUE => a \in Modelled(1, a)
           /\ a.symlinks_exist = TRUE => a \in Modelled(2, a)
           /\ a.default_subvol = a.root_subvol => a \in Modelled(3, a)
           /\ a.ext4_boot_mounted = FALSE => a \in Modelled(4, a)
           /\ a.fstab_has_ext4_boot = FALSE => a \in Modelled(5, a)
           /\ a \in Modelled(6, a)
           /\ a.grub_cfg_on_btrfs = TRUE => a \in Modelled(7, a)
           /\ a.grubenv_nocow = TRUE => a \in Modelled(8, a)
           /\ a.esp_target_uuid = "Btrfs" /\ a.esp_has_btrfs_relative = TRUE
              /\ a.esp_prefix_has_boot = TRUE => a \in Modelled(9, a)
<1>1. \A X : Agree(a, a, X)
  BY DEF Agree
<1>2. a \in Modelled(6, a)
  <2> DEFINE t == Model!Swap(a)
  <2>1. Model!Stepped(6, a, Model!AxiomNames) = {t}
    BY DEF Model!Stepped, Model!step6_rebuild_initramfs, Model!Option, Model!CanSwap,
           Model!AxiomNames
  <2>2. Chain(t) = a
    BY DEF Chain, IsState, Fields, Model!Swap
  <2>3. QED BY <2>1, <2>2, Chained, Chosen
<1>3. QED BY <1>1, <1>2, IsStep1, IsStep2, IsStep3, IsStep4, IsStep5, IsStep7, IsStep8, IsStep9

\* Where /boot is on the ext4 partition, as ModelState has it.
BootMounted == "/boot" \in mounts \/ pc \in {"mountold", "copy", "umountold", "mountboot1"}

\* What StepsAsModelled asks of a step from the state a of proof.rs to its state b.
AsModelled(a, b) ==
    \/ b = a
    \/ \E k \in StepsOf[command] : b \in Modelled(k, a) /\ \A j \in Before(k) : a \in Modelled(j, a)
    \/ pc = "copy" /\ \E t \in {a} \cup Modelled(1, a) : b \in Modelled(7, t)

\* The same, for one step of proof.rs.
LEMMA OneStep ==
    ASSUME NEW a, NEW b, NEW k \in StepsOf[command], b \in Modelled(k, a),
           \A j \in Before(k) : a \in Modelled(j, a)
    PROVE  AsModelled(a, b)
  BY DEF AsModelled

\* The states of proof.rs before and after a step agree but for the fields X, when what they
\* are made from changes in these alone.
LEMMA AgreeBut ==
    ASSUME NEW X,
           esp' = esp \/ {"esp_target_uuid", "esp_has_btrfs_relative", "esp_prefix_has_boot"}
                          \subseteq X,
           ("grub.cfg" \in live'.root.boot <=> "grub.cfg" \in live.root.boot)
             \/ "grub_cfg_on_btrfs" \in X,
           ("kernel" \in live'.root.boot <=> "kernel" \in live.root.boot)
             \/ "kernel_on_btrfs" \in X,
           live'.root.links = live.root.links \/ "symlinks_exist" \in X,
           ("/boot" \in live'.root.fstab <=> "/boot" \in live.root.fstab)
             \/ "fstab_has_ext4_boot" \in X,
           ("/var" \in live'.root.fstab <=> "/var" \in live.root.fstab)
             \/ {"var_is_subvol", "fstab_has_var_mount"} \subseteq X,
           (live'.var = live.var \/ "/var" \notin live.root.fstab) \/ "var_is_subvol" \in X,
           live'.default = live.default \/ "default_subvol" \in X,
           live'.root.nocow = live.root.nocow \/ "grubenv_nocow" \in X,
           (BootMounted' <=> BootMounted) \/ "ext4_boot_mounted" \in X
    PROVE  Agree(Chain(ModelState(live, esp)), Chain(ModelState(live, esp)'), X)
<1> DEFINE m == ModelState(live, esp)
           n == ModelState(live, esp)'
           a == Chain(m)
           b == Chain(n)
<1>1. /\ m.esp_target_uuid = n.esp_target_uuid \/ "esp_target_uuid" \in X
      /\ m.esp_has_btrfs_relative = n.esp_has_btrfs_relative \/ "esp_has_btrfs_relative" \in X
      /\ m.esp_prefix_has_boot = n.esp_prefix_has_boot \/ "esp_prefix_has_boot" \in X
  BY DEF ModelState
<1>2. /\ m.grub_cfg_on_btrfs = n.grub_cfg_on_btrfs \/ "grub_cfg_on_btrfs" \in X
      /\ m.kernel_on_btrfs = n.kernel_on_btrfs \/ "kernel_on_btrfs" \in X
  BY DEF ModelState
<1>3. /\ m.symlinks_exist = n.symlinks_exist \/ "symlinks_exist" \in X
      /\ m.default_subvol = n.default_subvol \/ "default_subvol" \in X
      /\ m.grubenv_nocow = n.grubenv_nocow \/ "grubenv_nocow" \in X
  BY DEF ModelState
<1>4. /\ m.fstab_has_ext4_boot = n.fstab_has_ext4_boot \/ "fstab_has_ext4_boot" \in X
      /\ m.ext4_boot_mounted = n.ext4_boot_mounted \/ "ext4_boot_mounted" \in X
  BY DEF ModelState, BootMounted
<1>5. /\ m.var_is_subvol = n.var_is_subvol \/ "var_is_subvol" \in X
      /\ m.fstab_has_var_mount = n.fstab_has_var_mount \/ "fstab_has_var_mount" \in X
  BY DEF ModelState
<1>6. /\ m.grub_cfg_on_ext4 = n.grub_cfg_on_ext4
      /\ m.kernel_on_ext4 = n.kernel_on_ext4
      /\ m.root_device_ref = n.root_device_ref
      /\ m.root_compression = n.root_compression
      /\ m.var_device_ref = n.var_device_ref
      /\ m.var_compression = n.var_compression
      /\ m.root_subvol = n.root_subvol
  BY DEF ModelState
<1>7. /\ a.artifact_verified = TRUE /\ a.durable = FALSE
      /\ b.artifact_verified = TRUE /\ b.durable = FALSE
      /\ \A f \in Fields \ {"artifact_verified", "durable"} : a[f] = m[f] /\ b[f] = n[f]
  BY ModelStateFields, NextModelStateFields, ChainFields
<1> HIDE DEF a, b, m, n
<1>8. /\ a.esp_target_uuid = m.esp_target_uuid /\ b.esp_target_uuid = n.esp_target_uuid
      /\ a.esp_has_btrfs_relative = m.esp_has_btrfs_relative /\ b.esp_has_btrfs_relative = n.esp_has_btrfs_relative
      /\ a.esp_prefix_has_boot = m.esp_prefix_has_boot /\ b.esp_prefix_has_boot = n.esp_prefix_has_boot
      /\ a.grub_cfg_on_ext4 = m.grub_cfg_on_ext4 /\ b.grub_cfg_on_ext4 = n.grub_cfg_on_ext4
      /\ a.grub_cfg_on_btrfs = m.grub_cfg_on_btrfs /\ b.grub_cfg_on_btrfs = n.grub_cfg_on_btrfs
      /\ a.kernel_on_ext4 = m.kernel_on_ext4 /\ b.kernel_on_ext4 = n.kernel_on_ext4
      /\ a.kernel_on_btrfs = m.kernel_on_btrfs /\ b.kernel_on_btrfs = n.kernel_on_btrfs
      /\ a.symlinks_exist = m.symlinks_exist /\ b.symlinks_exist = n.symlinks_exist
      /\ a.fstab_has_ext4_boot = m.fstab_has_ext4_boot /\ b.fstab_has_ext4_boot = n.fstab_has_ext4_boot
      /\ a.ext4_boot_mounted = m.ext4_boot_mounted /\ b.ext4_boot_mounted = n.ext4_boot_mounted
      /\ a.var_is_subvol = m.var_is_subvol /\ b.var_is_subvol = n.var_is_subvol
      /\ a.fstab_has_var_mount = m.fstab_has_var_mount /\ b.fstab_has_var_mount = n.fstab_has_var_mount
      /\ a.root_device_ref = m.root_device_ref /\ b.root_device_ref = n.root_device_ref
      /\ a.root_compression = m.root_compression /\ b.root_compression = n.root_compression
      /\ a.var_device_ref = m.var_device_ref /\ b.var_device_ref = n.var_device_ref
      /\ a.var_compression = m.var_compression /\ b.var_compression = n.var_compression
      /\ a.default_subvol = m.default_subvol /\ b.default_subvol = n.default_subvol
      /\ a.root_subvol = m.root_subvol /\ b.root_subvol = n.root_subvol
      /\ a.grubenv_nocow = m.grubenv_nocow /\ b.grubenv_nocow = n.grubenv_nocow
  BY <1>7 DEF Fields
<1>11. /\ a.esp_target_uuid = b.esp_target_uuid \/ "esp_target_uuid" \in X
       /\ a.esp_has_btrfs_relative = b.esp_has_btrfs_relative \/ "esp_has_btrfs_relative" \in X
       /\ a.esp_prefix_has_boot = b.esp_prefix_has_boot \/ "esp_prefix_has_boot" \in X
  BY <1>1, <1>8
<1>12. /\ a.grub_cfg_on_btrfs = b.grub_cfg_on_btrfs \/ "grub_cfg_on_btrfs" \in X
       /\ a.kernel_on_btrfs = b.kernel_on_btrfs \/ "kernel_on_btrfs" \in X
  BY <1>2, <1>8
<1>13. /\ a.symlinks_exist = b.symlinks_exist \/ "symlinks_exist" \in X
       /\ a.default_subvol = b.default_subvol \/ "default_subvol" \in X
       /\ a.grubenv_nocow = b.grubenv_nocow \/ "grubenv_nocow" \in X
  BY <1>3, <1>8
<1>14. /\ a.fstab_has_ext4_boot = b.fstab_has_ext4_boot \/ "fstab_has_ext4_boot" \in X
       /\ a.ext4_boot_mounted = b.ext4_boot_mounted \/ "ext4_boot_mounted" \in X
  BY <1>4, <1>8
<1>15. /\ a.var_is_subvol = b.var_is_subvol \/ "var_is_subvol" \in X
       /\ a.fstab_has_var_mount = b.fstab_has_var_mount \/ "fstab_has_var_mount" \in X
  BY <1>5, <1>8
<1>16. /\ a.grub_cfg_on_ext4 = b.grub_cfg_on_ext4
       /\ a.kernel_on_ext4 = b.kernel_on_ext4
       /\ a.root_device_ref = b.root_device_ref
       /\ a.root_compression = b.root_compression
       /\ a.var_device_ref = b.var_device_ref
       /\ a.var_compression = b.var_compression
       /\ a.root_subvol = b.root_subvol
  BY <1>6, <1>8
<1>17. a.artifact_verified = b.artifact_verified /\ a.durable = b.durable
  BY <1>7
<1>18. Agree(a, b, X)
  BY <1>11, <1>12, <1>13, <1>14, <1>15, <1>16, <1>17 DEF Agree
<1>19. QED BY <1>18 DEF a, b, m, n

\* A step that changes nothing of what proof.rs has in its state is no step of it.
LEMMA Unseen ==
    ASSUME live'.root.boot = live.root.boot, live'.root.links = live.root.links,
           live'.root.fstab = live.root.fstab, live'.root.nocow = live.root.nocow,
           live'.default = live.default, esp' = esp,
           "/var" \in live.root.fstab => live'.var = live.var,
           BootMounted' <=> BootMounted
    PROVE  Chain(ModelState(live, esp)') = Chain(ModelState(live, esp))
<1> DEFINE a == Chain(ModelState(live, esp))
           b == Chain(ModelState(live, esp)')
<1>1. Agree(a, b, {})
  BY AgreeBut
<1>2. IsState(a) /\ IsState(b)
  BY ModelStateFields, NextModelStateFields, ChainFields
<1> HIDE DEF a, b
<1>3. b = a
  BY <1>1, <1>2, AgreeIsEqual
<1>4. QED BY <1>3 DEF a, b

\* The steps that proof.rs has in its sequence and the program makes in between.
LEMMA QuietSteps ==
    ASSUME Faults \subseteq {"power"}, KeptInv, Step, running' = "root",
           \/ Gate \/ LookAtBoot \/ OldBoot \/ Regenerate \/ LookAtVar \/ MountTop \/ SnapshotRoot
           \/ FillVar \/ MountVar \/ SyncFilesystem \/ EnsureHooks \/ Exit
    PROVE  Chain(ModelState(live, esp)') = Chain(ModelState(live, esp))
<1>1. /\ live \in VolumeStates /\ command \in {"migrate", "setup"} /\ running = "root"
      /\ pc \notin {"idle", "failed"} => pc \in Labels(command)
      /\ pc \in BeforeName => "/var" \notin live.root.fstab
      /\ Here \in RootImages
  BY CommandLabels, HereKept DEF KeptInv, NamedInv, MigrateInv, MigrateTypeOK
<1>2. /\ live'.root.boot = live.root.boot /\ live'.root.links = live.root.links
      /\ live'.root.fstab = live.root.fstab /\ live'.root.nocow = live.root.nocow
      /\ live'.default = live.default
      /\ "/var" \in live.root.fstab => live'.var = live.var
  <2>1. CASE UNCHANGED live
    BY <2>1
  <2>2. CASE Regenerate
    <3>1. PICK x \in {"initramfs", "grub.cfg"} : Edits([Here EXCEPT !.rebuilt = @ \cup {x}])
      BY <1>1, <2>2, RootSteps
    <3> DEFINE r == [Here EXCEPT !.rebuilt = @ \cup {x}]
    <3>2. /\ r.boot = Here.boot /\ r.links = Here.links /\ r.nocow = Here.nocow
          /\ r.fstab = Here.fstab
      BY <1>1 DEF RootImages
    <3>3. Edits(r)
      BY <3>1
    <3> HIDE DEF r
    <3>4. QED BY <1>1, <3>2, <3>3, AtRoot DEF Edits, HereStays, ApartStays
  <2>3. CASE SnapshotRoot
    BY <1>1, <2>3, ApartSteps, AtRoot DEF HereStays
  <2>4. CASE FillVar
    <3>1. pc \in BeforeName
      BY <2>4 DEF FillVar, BeforeName
    <3>2. QED BY <1>1, <2>4, <3>1, ApartSteps, AtRoot DEF HereStays
  <2>5. CASE EnsureHooks
    BY <1>1, <2>5, HookSteps, AtRoot DEF ApartStays
  <2>6. QED BY <2>1, <2>2, <2>3, <2>4, <2>5
    DEF Gate, LookAtBoot, OldBoot, LookAtVar, MountTop, MountVar, SyncFilesystem, Exit
<1>3. esp' = esp /\ ("/boot" \in mounts' <=> "/boot" \in mounts)
  BY DEF Gate, LookAtBoot, OldBoot, Regenerate, LookAtVar, MountTop, SnapshotRoot, FillVar,
         MountVar, SyncFilesystem, EnsureHooks, Exit, Changes, Mounts
<1>4. BootMounted' <=> BootMounted
  <2>1. CASE OldBoot
    <3>1. pc \in {"mountold", "umountold"} /\ Onward
      BY <1>1, <2>1, AtRoot DEF OldBoot, Mounts, KeptInv, IOError
    <3>2. pc' \in {"copy", "mountboot1"}
      BY <1>1, <3>1, OnwardFrom
    <3>3. QED BY <3>1, <3>2 DEF BootMounted
  <2>2. CASE ~OldBoot
    <3>1. pc \notin {"mountold", "copy", "umountold", "mountboot1", "umountboot1"}
      BY <2>2 DEF Gate, Gates, LookAtBoot, Regenerate, LookAtVar, MountTop, SnapshotRoot, FillVar,
         MountVar, SyncFilesystem, EnsureHooks, Exit
    <3>2. \/ Onward /\ pc \notin {"idle", "failed", "done"}
          \/ pc' \in {"failed", "gate1", "gate4", "gate10", "done", "idle"}
      BY <2>2 DEF Gate, Gates, LookAtBoot, Regenerate, LookAtVar, MountTop, SnapshotRoot, FillVar,
         MountVar, SyncFilesystem, EnsureHooks, Exit, Changes, Mounts, Fail
    <3>3. pc' \notin {"mountold", "copy", "umountold", "mountboot1"}
      BY <1>1, <3>1, <3>2, BehindBoot
    <3>4. QED BY <1>3, <3>1, <3>3 DEF BootMounted
  <2>3. QED BY <2>1, <2>2
<1>5. QED BY <1>2, <1>3, <1>4, Unseen

\* The copy of a kernel and of a grub.cfg is step 1 and, after it, step 7 of proof.rs.
LEMMA TwoSteps ==
    ASSUME NEW a, NEW b, IsState(a), IsState(b), a.artifact_verified = TRUE,
           a.durable = FALSE, Agree(a, b, {"kernel_on_btrfs", "grub_cfg_on_btrfs"}),
           b.kernel_on_btrfs = TRUE, b.grub_cfg_on_btrfs = TRUE,
           b.artifact_verified = TRUE, b.durable = FALSE
    PROVE  \E t \in Modelled(1, a) : b \in Modelled(7, t)
<1> DEFINE t == [a EXCEPT !.kernel_on_btrfs = TRUE]
<1>1. /\ IsState(t) /\ t.kernel_on_btrfs = TRUE
      /\ \A f \in Fields \ {"kernel_on_btrfs"} : t[f] = a[f]
  BY DEF IsState, Fields
<1>2. t.artifact_verified = TRUE /\ t.durable = FALSE
  BY <1>1 DEF Fields
<1>3. \A f \in Fields \ {"kernel_on_btrfs", "grub_cfg_on_btrfs"} : a[f] = b[f]
  BY Agreement
<1> HIDE DEF t
<1>4. Agree(a, t, {"kernel_on_btrfs"})
  BY <1>1 DEF Agree, Fields
<1>5. t \in Modelled(1, a)
  BY <1>1, <1>2, <1>4, IsStep1
<1>6. \A f \in Fields \ {"grub_cfg_on_btrfs"} : t[f] = b[f]
  BY <1>1, <1>3
<1>7. Agree(t, b, {"grub_cfg_on_btrfs"})
  BY <1>6 DEF Agree, Fields
<1>8. b \in Modelled(7, t)
  BY <1>1, <1>2, <1>7, IsStep7
<1>9. QED BY <1>5, <1>8

\* The state of proof.rs that the program is in, field by field.
LEMMA StateOf ==
    LET a == Chain(ModelState(live, esp))
    IN  /\ IsState(a) /\ a.artifact_verified = TRUE /\ a.durable = FALSE
        /\ a.esp_target_uuid = (IF esp = "btrfs" THEN "Btrfs" ELSE "Ext4")
        /\ a.esp_has_btrfs_relative = (esp = "btrfs")
        /\ a.esp_prefix_has_boot = (esp = "btrfs")
        /\ a.grub_cfg_on_btrfs = ("grub.cfg" \in live.root.boot)
        /\ a.kernel_on_btrfs = ("kernel" \in live.root.boot)
        /\ a.symlinks_exist = live.root.links
        /\ a.fstab_has_ext4_boot = ("/boot" \in live.root.fstab)
        /\ a.ext4_boot_mounted = BootMounted
        /\ a.var_is_subvol = ("/var" \in live.root.fstab /\ live.var # "absent")
        /\ a.fstab_has_var_mount = ("/var" \in live.root.fstab)
        /\ a.root_device_ref = "Uuid" /\ a.root_compression = "Zstd"
        /\ a.var_device_ref = "Uuid" /\ a.var_compression = "Zstd"
        /\ a.default_subvol = (IF live.default = "root" THEN "Id256" ELSE "toplevel")
        /\ a.root_subvol = "Id256" /\ a.grubenv_nocow = live.root.nocow
<1> DEFINE m == ModelState(live, esp)
           a == Chain(m)
<1>1. /\ m.esp_target_uuid = (IF esp = "btrfs" THEN "Btrfs" ELSE "Ext4")
      /\ m.esp_has_btrfs_relative = (esp = "btrfs")
      /\ m.esp_prefix_has_boot = (esp = "btrfs")
      /\ m.grub_cfg_on_btrfs = ("grub.cfg" \in live.root.boot)
      /\ m.kernel_on_btrfs = ("kernel" \in live.root.boot)
      /\ m.symlinks_exist = live.root.links
      /\ m.fstab_has_ext4_boot = ("/boot" \in live.root.fstab)
      /\ m.ext4_boot_mounted = BootMounted
      /\ m.var_is_subvol = ("/var" \in live.root.fstab /\ live.var # "absent")
      /\ m.fstab_has_var_mount = ("/var" \in live.root.fstab)
      /\ m.root_device_ref = "Uuid" /\ m.root_compression = "Zstd"
      /\ m.var_device_ref = "Uuid" /\ m.var_compression = "Zstd"
      /\ m.default_subvol = (IF live.default = "root" THEN "Id256" ELSE "toplevel")
      /\ m.root_subvol = "Id256" /\ m.grubenv_nocow = live.root.nocow
  BY DEF ModelState, BootMounted
<1>2. /\ IsState(a) /\ a.artifact_verified = TRUE /\ a.durable = FALSE
      /\ \A f \in Fields \ {"artifact_verified", "durable"} : a[f] = m[f]
  BY ModelStateFields, NextModelStateFields, ChainFields
<1> HIDE DEF m, a
<1>3. /\ a.esp_target_uuid = m.esp_target_uuid
      /\ a.esp_has_btrfs_relative = m.esp_has_btrfs_relative
      /\ a.esp_prefix_has_boot = m.esp_prefix_has_boot
      /\ a.grub_cfg_on_btrfs = m.grub_cfg_on_btrfs /\ a.kernel_on_btrfs = m.kernel_on_btrfs
      /\ a.symlinks_exist = m.symlinks_exist
      /\ a.fstab_has_ext4_boot = m.fstab_has_ext4_boot
      /\ a.ext4_boot_mounted = m.ext4_boot_mounted
      /\ a.var_is_subvol = m.var_is_subvol /\ a.fstab_has_var_mount = m.fstab_has_var_mount
      /\ a.root_device_ref = m.root_device_ref /\ a.root_compression = m.root_compression
      /\ a.var_device_ref = m.var_device_ref /\ a.var_compression = m.var_compression
      /\ a.default_subvol = m.default_subvol /\ a.root_subvol = m.root_subvol
      /\ a.grubenv_nocow = m.grubenv_nocow
  BY <1>2 DEF Fields
<1>4. QED BY <1>1, <1>2, <1>3 DEF a, m

\* The state of proof.rs after a step.
LEMMA NextStateOf ==
    LET a == Chain(ModelState(live, esp)')
    IN  /\ IsState(a) /\ a.artifact_verified = TRUE /\ a.durable = FALSE
        /\ a.esp_target_uuid = (IF esp' = "btrfs" THEN "Btrfs" ELSE "Ext4")
        /\ a.esp_has_btrfs_relative = (esp' = "btrfs")
        /\ a.esp_prefix_has_boot = (esp' = "btrfs")
        /\ a.grub_cfg_on_btrfs = ("grub.cfg" \in live'.root.boot)
        /\ a.kernel_on_btrfs = ("kernel" \in live'.root.boot)
        /\ a.symlinks_exist = live'.root.links
        /\ a.fstab_has_ext4_boot = ("/boot" \in live'.root.fstab)
        /\ a.ext4_boot_mounted = BootMounted'
        /\ a.var_is_subvol = ("/var" \in live'.root.fstab /\ live'.var # "absent")
        /\ a.fstab_has_var_mount = ("/var" \in live'.root.fstab)
        /\ a.root_device_ref = "Uuid" /\ a.root_compression = "Zstd"
        /\ a.var_device_ref = "Uuid" /\ a.var_compression = "Zstd"
        /\ a.default_subvol = (IF live'.default = "root" THEN "Id256" ELSE "toplevel")
        /\ a.root_subvol = "Id256" /\ a.grubenv_nocow = live'.root.nocow
<1> DEFINE m == ModelState(live, esp)'
           a == Chain(m)
<1>1. /\ m.esp_target_uuid = (IF esp' = "btrfs" THEN "Btrfs" ELSE "Ext4")
      /\ m.esp_has_btrfs_relative = (esp' = "btrfs")
      /\ m.esp_prefix_has_boot = (esp' = "btrfs")
      /\ m.grub_cfg_on_btrfs = ("grub.cfg" \in live'.root.boot)
      /\ m.kernel_on_btrfs = ("kernel" \in live'.root.boot)
      /\ m.symlinks_exist = live'.root.links
      /\ m.fstab_has_ext4_boot = ("/boot" \in live'.root.fstab)
      /\ m.ext4_boot_mounted = BootMounted'
      /\ m.var_is_subvol = ("/var" \in live'.root.fstab /\ live'.var # "absent")
      /\ m.fstab_has_var_mount = ("/var" \in live'.root.fstab)
      /\ m.root_device_ref = "Uuid" /\ m.root_compression = "Zstd"
      /\ m.var_device_ref = "Uuid" /\ m.var_compression = "Zstd"
      /\ m.default_subvol = (IF live'.default = "root" THEN "Id256" ELSE "toplevel")
      /\ m.root_subvol = "Id256" /\ m.grubenv_nocow = live'.root.nocow
  BY DEF ModelState, BootMounted
<1>2. /\ IsState(a) /\ a.artifact_verified = TRUE /\ a.durable = FALSE
      /\ \A f \in Fields \ {"artifact_verified", "durable"} : a[f] = m[f]
  BY ModelStateFields, NextModelStateFields, ChainFields
<1> HIDE DEF m, a
<1>3. /\ a.esp_target_uuid = m.esp_target_uuid
      /\ a.esp_has_btrfs_relative = m.esp_has_btrfs_relative
      /\ a.esp_prefix_has_boot = m.esp_prefix_has_boot
      /\ a.grub_cfg_on_btrfs = m.grub_cfg_on_btrfs /\ a.kernel_on_btrfs = m.kernel_on_btrfs
      /\ a.symlinks_exist = m.symlinks_exist
      /\ a.fstab_has_ext4_boot = m.fstab_has_ext4_boot
      /\ a.ext4_boot_mounted = m.ext4_boot_mounted
      /\ a.var_is_subvol = m.var_is_subvol /\ a.fstab_has_var_mount = m.fstab_has_var_mount
      /\ a.root_device_ref = m.root_device_ref /\ a.root_compression = m.root_compression
      /\ a.var_device_ref = m.var_device_ref /\ a.var_compression = m.var_compression
      /\ a.default_subvol = m.default_subvol /\ a.root_subvol = m.root_subvol
      /\ a.grubenv_nocow = m.grubenv_nocow
  BY <1>2 DEF Fields
<1>4. QED BY <1>1, <1>2, <1>3 DEF a, m

\* The program is at the tool call that is step k of proof.rs.
AtStep(k) ==
    \/ k = 2 /\ pc = "links"
    \/ k = 3 /\ pc = "default"
    \/ k = 4 /\ pc = "umountboot4"
    \/ k = 5 /\ pc = "fstab"
    \/ k = 8 /\ pc = "grubenv"
    \/ k = 9 /\ pc = "esp"
    \/ k = 10 /\ pc = "varfstab"

\* When a step is made, those before it are in force.
LEMMA InOrder ==
    ASSUME MigrateInv, running = "root", running' = "root", command \in {"migrate", "setup"},
           pc \in Labels(command), NEW k, AtStep(k)
    PROVE  /\ k \in StepsOf[command]
           /\ \A j \in Before(k) : Chain(ModelState(live, esp))
                                     \in Modelled(j, Chain(ModelState(live, esp)))
<1> DEFINE a == Chain(ModelState(live, esp))
<1>1. /\ IsState(a) /\ a.artifact_verified = TRUE /\ a.durable = FALSE
      /\ a.esp_target_uuid = (IF esp = "btrfs" THEN "Btrfs" ELSE "Ext4")
      /\ a.esp_has_btrfs_relative = (esp = "btrfs")
      /\ a.esp_prefix_has_boot = (esp = "btrfs")
      /\ a.grub_cfg_on_btrfs = ("grub.cfg" \in live.root.boot)
      /\ a.kernel_on_btrfs = ("kernel" \in live.root.boot)
      /\ a.symlinks_exist = live.root.links
      /\ a.fstab_has_ext4_boot = ("/boot" \in live.root.fstab)
      /\ a.ext4_boot_mounted = BootMounted
      /\ a.default_subvol = (IF live.default = "root" THEN "Id256" ELSE "toplevel")
      /\ a.root_subvol = "Id256" /\ a.grubenv_nocow = live.root.nocow
  BY StateOf
<1>2. /\ live.root.links \in BOOLEAN /\ live.root.nocow \in BOOLEAN
      /\ Here = live.root
  BY AtRoot DEF MigrateInv, MigrateTypeOK, VolumeStates, RootImages
<1> HIDE DEF a
<1>3. /\ a.kernel_on_btrfs = TRUE => a \in Modelled(1, a)
      /\ a.symlinks_exist = TRUE => a \in Modelled(2, a)
      /\ a.default_subvol = a.root_subvol => a \in Modelled(3, a)
      /\ a.ext4_boot_mounted = FALSE => a \in Modelled(4, a)
      /\ a.fstab_has_ext4_boot = FALSE => a \in Modelled(5, a)
      /\ a \in Modelled(6, a)
      /\ a.grub_cfg_on_btrfs = TRUE => a \in Modelled(7, a)
      /\ a.grubenv_nocow = TRUE => a \in Modelled(8, a)
      /\ a.esp_target_uuid = "Btrfs" /\ a.esp_has_btrfs_relative = TRUE
         /\ a.esp_prefix_has_boot = TRUE => a \in Modelled(9, a)
  BY <1>1, InForce
<1>4. CASE command = "setup"
  <2>1. k \in {3, 10}
    BY <1>4, SetupLabels DEF AtStep
  <2>2. StepsOf[command] = {3, 10}
    BY <1>4 DEF StepsOf
  <2>3. k = 10 => a \in Modelled(3, a)
    <3>1. ASSUME k = 10 PROVE live.default = "root"
      BY <3>1 DEF MigrateInv, VarMade, AtStep, AfterDefault, AfterSwitch, AfterFstab, AfterGrubenv,
        AfterEsp
    <3>2. QED BY <1>1, <1>3, <3>1
  <2>4. \A j \in Before(k) : k = 10 /\ j = 3
    BY <2>1, <2>2 DEF Before
  <2>5. QED BY <2>1, <2>2, <2>3, <2>4 DEF a
<1>5. CASE command = "migrate"
  <2>1. k \in 1..10 /\ StepsOf[command] = 1..10
    BY <1>5 DEF StepsOf, AtStep
  <2>2. \A j \in Before(k) : j \in {1, 2, 3, 4, 5, 6, 7, 8, 9} /\ j < k
    BY <2>1 DEF Before
  <2>3. 1 < k => a \in Modelled(1, a)
    <3>1. pc \in AfterCopy
      BY DEF AtStep, AfterCopy, AfterLinks, AfterDefault, AfterSwitch, AfterFstab, AfterGrubenv,
        AfterEsp
    <3>2. "kernel" \in live.root.boot
      BY <1>2, <1>5, <3>1 DEF MigrateInv, BootMade, BootFiles
    <3>3. QED BY <1>1, <1>3, <3>2
  <2>4. 2 < k => a \in Modelled(2, a)
    <3>1. 2 < k => pc \in AfterLinks
      BY DEF AtStep, AfterLinks, AfterDefault, AfterSwitch, AfterFstab, AfterGrubenv, AfterEsp
    <3>2. 2 < k => live.root.links = TRUE
      BY <1>2, <1>5, <3>1 DEF MigrateInv, BootMade
    <3>3. QED BY <1>1, <1>3, <3>2
  <2>5. 3 < k => a \in Modelled(3, a)
    <3>1. 3 < k => pc \in AfterDefault
      BY DEF AtStep, AfterDefault, AfterSwitch, AfterFstab, AfterGrubenv, AfterEsp
    <3>2. 3 < k => live.default = "root"
      BY <3>1 DEF MigrateInv, VarMade
    <3>3. QED BY <1>1, <1>3, <3>2
  <2>6. 4 < k => a \in Modelled(4, a)
    <3>1. 4 < k => pc \in AfterSwitch
      BY DEF AtStep, AfterSwitch, AfterFstab, AfterGrubenv, AfterEsp
    <3>2. 4 < k => BootMounted = FALSE
      BY <1>5, <3>1 DEF MigrateInv, BootMade, BootMounted, AtStep
    <3>3. QED BY <1>1, <1>3, <3>2
  <2>7. 5 < k => a \in Modelled(5, a)
    <3>1. 5 < k => pc \in AfterFstab
      BY DEF AtStep, AfterFstab, AfterGrubenv, AfterEsp
    <3>2. 5 < k => ("/boot" \in live.root.fstab) = FALSE
      BY <1>2, <1>5, <3>1 DEF MigrateInv, BootMade
    <3>3. QED BY <1>1, <1>3, <3>2
  <2>8. 7 < k => a \in Modelled(7, a)
    <3>1. 7 < k => pc \in AfterCopy
      BY DEF AtStep, AfterCopy, AfterLinks, AfterDefault, AfterSwitch, AfterFstab, AfterGrubenv,
        AfterEsp
    <3>2. 7 < k => "grub.cfg" \in live.root.boot
      BY <1>2, <1>5, <3>1 DEF MigrateInv, BootMade, BootFiles
    <3>3. QED BY <1>1, <1>3, <3>2
  <2>9. 8 < k => a \in Modelled(8, a)
    <3>1. 8 < k => pc \in AfterGrubenv
      BY DEF AtStep, AfterGrubenv, AfterEsp
    <3>2. 8 < k => live.root.nocow = TRUE
      BY <1>2, <1>5, <3>1 DEF MigrateInv, BootMade
    <3>3. QED BY <1>1, <1>3, <3>2
  <2>10. 9 < k => a \in Modelled(9, a)
    <3>1. 9 < k => pc \in AfterEsp
      BY DEF AtStep, AfterEsp
    <3>2. 9 < k => esp = "btrfs"
      BY <1>5, <3>1 DEF MigrateInv, BootMade
    <3>3. QED BY <1>1, <1>3, <3>2
  <2>11. \A j \in Before(k) : a \in Modelled(j, a)
    BY <1>3, <2>2, <2>3, <2>4, <2>5, <2>6, <2>7, <2>8, <2>9, <2>10
  <2>12. QED BY <2>1, <2>11 DEF a
<1>6. QED BY <1>4, <1>5

\* Without tool failures and rollbacks, a step is the next one of proof.rs or changes nothing it
\* knows of; only the copy of /boot may be two at once.
LEMMA StepModelled ==
    ASSUME Faults \subseteq {"power"}, "rollback" \notin Others, KeptInv, [Next]_vars, Step
    PROVE  AsModelled(Chain(ModelState(live, esp)), Chain(ModelState(live, esp)'))
<1> DEFINE a == Chain(ModelState(live, esp))
           b == Chain(ModelState(live, esp)')
<1> SUFFICES AsModelled(a, b)
  OBVIOUS
<1>1. /\ MigrateInv /\ running = "root" /\ running' = "root"
      /\ live \in VolumeStates /\ command \in {"migrate", "setup"}
      /\ live.root \in RootImages /\ Here = live.root /\ Here' = live'.root
      /\ pc \notin {"idle", "failed"} => pc \in Labels(command)
      /\ pc = "varfstab" => "/var" \notin live.root.fstab /\ live.var # "absent"
      /\ pc \in {"umountefi1", "umountboot1"} => "/boot" \in mounts
  BY CommandLabels, StaysAtRoot, AtRoot
  DEF KeptInv, NamedInv, MigrateInv, MigrateTypeOK, Prepared, BeforeName, VolumeStates
<1>2. ~IOError
  BY DEF IOError
<1>3. /\ IsState(a) /\ a.artifact_verified = TRUE /\ a.durable = FALSE
      /\ a.root_device_ref = "Uuid" /\ a.root_compression = "Zstd"
      /\ a.var_device_ref = "Uuid" /\ a.var_compression = "Zstd"
      /\ a.root_subvol = "Id256"
      /\ a.fstab_has_var_mount = ("/var" \in live.root.fstab)
      /\ a.var_is_subvol = ("/var" \in live.root.fstab /\ live.var # "absent")
  BY StateOf
<1>4. /\ IsState(b) /\ b.artifact_verified = TRUE /\ b.durable = FALSE
      /\ b.esp_target_uuid = (IF esp' = "btrfs" THEN "Btrfs" ELSE "Ext4")
      /\ b.esp_has_btrfs_relative = (esp' = "btrfs") /\ b.esp_prefix_has_boot = (esp' = "btrfs")
      /\ b.grub_cfg_on_btrfs = ("grub.cfg" \in live'.root.boot)
      /\ b.kernel_on_btrfs = ("kernel" \in live'.root.boot)
      /\ b.symlinks_exist = live'.root.links
      /\ b.fstab_has_ext4_boot = ("/boot" \in live'.root.fstab)
      /\ b.ext4_boot_mounted = BootMounted'
      /\ b.var_is_subvol = ("/var" \in live'.root.fstab /\ live'.var # "absent")
      /\ b.fstab_has_var_mount = ("/var" \in live'.root.fstab)
      /\ b.default_subvol = (IF live'.default = "root" THEN "Id256" ELSE "toplevel")
      /\ b.grubenv_nocow = live'.root.nocow
  BY NextStateOf
<1>5. b = a => AsModelled(a, b)
  BY DEF AsModelled
<1>6. ASSUME NEW k, AtStep(k), b \in Modelled(k, a)
      PROVE  AsModelled(a, b)
  <2>1. pc \in Labels(command)
    BY <1>1, <1>6 DEF AtStep
  <2>2. k \in StepsOf[command] /\ \A j \in Before(k) : a \in Modelled(j, a)
    BY <1>1, <1>6, <2>1, InOrder
  <2> HIDE DEF a, b
  <2>3. QED BY <1>6, <2>2, OneStep
<1>7. ASSUME NEW r, Edits(r)
      PROVE  /\ live'.root = r /\ live'.var = live.var /\ live'.default = live.default
             /\ UNCHANGED <<esp, mounts>> /\ Onward
  BY <1>1, <1>2, <1>7 DEF Edits, ApartStays
<1>8. CASE CreateSymlinks
  <2>1. pc = "links" /\ Edits([live.root EXCEPT !.links = TRUE])
    BY <1>1, <1>8, RootSteps
  <2> DEFINE r == [live.root EXCEPT !.links = TRUE]
  <2>2. /\ r.boot = live.root.boot /\ r.fstab = live.root.fstab /\ r.nocow = live.root.nocow
        /\ r.links = TRUE
    BY <1>1 DEF RootImages
  <2>3. Edits(r)
    BY <2>1
  <2> HIDE DEF r
  <2>4. /\ live'.root = r /\ live'.var = live.var /\ live'.default = live.default
        /\ UNCHANGED <<esp, mounts>> /\ pc' = "gate2"
    BY <1>1, <1>7, <2>1, <2>3, OnwardFrom
  <2>5. BootMounted' <=> BootMounted
    BY <2>1, <2>4 DEF BootMounted
  <2>6. Agree(a, b, {"symlinks_exist"})
    BY <2>2, <2>4, <2>5, AgreeBut
  <2> HIDE DEF a, b
  <2>7. b.symlinks_exist = TRUE
    BY <1>4, <2>2, <2>4
  <2>8. b \in Modelled(2, a)
    BY <1>3, <1>4, <2>6, <2>7, IsStep2
  <2>9. QED BY <1>6, <2>1, <2>8 DEF AtStep
<1>9. CASE SetDefaultSubvol
  <2>1. pc = "default" /\ Onward /\ UNCHANGED <<esp, mounts>>
    BY <1>2, <1>9 DEF SetDefaultSubvol, Changes
  <2>2. /\ live'.root = live.root /\ live'.var = live.var /\ live'.default = "root"
    BY <1>1, <1>2, <1>9 DEF SetDefaultSubvol, Changes, VolumeStates
  <2>3. BootMounted' <=> BootMounted
    BY <1>1, <2>1, OnwardFrom DEF BootMounted
  <2>4. Agree(a, b, {"default_subvol"})
    BY <2>1, <2>2, <2>3, AgreeBut
  <2> HIDE DEF a, b
  <2>5. b.default_subvol = a.root_subvol
    BY <1>3, <1>4, <2>2
  <2>6. b \in Modelled(3, a)
    BY <1>3, <1>4, <2>4, <2>5, IsStep3
  <2>7. QED BY <1>6, <2>1, <2>6 DEF AtStep
<1>10. CASE UpdateFstab
  <2>1. pc = "fstab" /\ Edits([live.root EXCEPT !.fstab = @ \ {"/boot"}])
    BY <1>1, <1>10, RootSteps
  <2> DEFINE r == [live.root EXCEPT !.fstab = @ \ {"/boot"}]
  <2>2. /\ r.boot = live.root.boot /\ r.links = live.root.links /\ r.nocow = live.root.nocow
        /\ ("/boot" \in r.fstab) = FALSE /\ ("/var" \in r.fstab <=> "/var" \in live.root.fstab)
    BY <1>1 DEF RootImages
  <2>3. Edits(r)
    BY <2>1
  <2> HIDE DEF r
  <2>4. /\ live'.root = r /\ live'.var = live.var /\ live'.default = live.default
        /\ UNCHANGED <<esp, mounts>> /\ pc' = "gate5"
    BY <1>1, <1>7, <2>1, <2>3, OnwardFrom
  <2>5. BootMounted' <=> BootMounted
    BY <2>1, <2>4 DEF BootMounted
  <2>6. Agree(a, b, {"fstab_has_ext4_boot"})
    BY <2>2, <2>4, <2>5, AgreeBut
  <2> HIDE DEF a, b
  <2>7. b.fstab_has_ext4_boot = FALSE
    BY <1>4, <2>2, <2>4
  <2>8. b \in Modelled(5, a)
    BY <1>3, <1>4, <2>6, <2>7, IsStep5
  <2>9. QED BY <1>6, <2>1, <2>8 DEF AtStep
<1>11. CASE FixGrubenv
  <2>1. pc = "grubenv" /\ Edits([live.root EXCEPT !.nocow = TRUE])
    BY <1>1, <1>11, RootSteps
  <2> DEFINE r == [live.root EXCEPT !.nocow = TRUE]
  <2>2. /\ r.boot = live.root.boot /\ r.fstab = live.root.fstab /\ r.links = live.root.links
        /\ r.nocow = TRUE
    BY <1>1 DEF RootImages
  <2>3. Edits(r)
    BY <2>1
  <2> HIDE DEF r
  <2>4. /\ live'.root = r /\ live'.var = live.var /\ live'.default = live.default
        /\ UNCHANGED <<esp, mounts>> /\ pc' = "gate8"
    BY <1>1, <1>7, <2>1, <2>3, OnwardFrom
  <2>5. BootMounted' <=> BootMounted
    BY <2>1, <2>4 DEF BootMounted
  <2>6. Agree(a, b, {"grubenv_nocow"})
    BY <2>2, <2>4, <2>5, AgreeBut
  <2> HIDE DEF a, b
  <2>7. b.grubenv_nocow = TRUE
    BY <1>4, <2>2, <2>4
  <2>8. b \in Modelled(8, a)
    BY <1>3, <1>4, <2>6, <2>7, IsStep8
  <2>9. QED BY <1>6, <2>1, <2>8 DEF AtStep
<1>12. CASE UpdateEsp
  <2>1. /\ UNCHANGED <<live, mounts>> /\ Onward
        /\ \/ pc = "stub" /\ esp' = esp
           \/ pc = "esp" /\ esp' = "btrfs"
    BY <1>2, <1>12 DEF UpdateEsp
  <2>2. BootMounted' <=> BootMounted
    BY <1>1, <2>1, OnwardFrom DEF BootMounted
  <2>3. CASE pc = "stub"
    <3>1. b = a
      BY <2>1, <2>2, <2>3, Unseen
    <3>2. QED BY <1>5, <3>1
  <2>4. CASE pc = "esp"
    <3>1. Agree(a, b, {"esp_target_uuid", "esp_has_btrfs_relative", "esp_prefix_has_boot"})
      BY <2>1, <2>2, AgreeBut
    <3> HIDE DEF a, b
    <3>2. /\ b.esp_target_uuid = "Btrfs" /\ b.esp_has_btrfs_relative = TRUE
          /\ b.esp_prefix_has_boot = TRUE
      BY <1>4, <2>1, <2>4
    <3>3. b \in Modelled(9, a)
      BY <1>3, <1>4, <3>1, <3>2, IsStep9
    <3>4. QED BY <1>6, <2>4, <3>3 DEF AtStep
  <2>5. QED BY <2>1, <2>3, <2>4
<1>13. CASE AddVarToFstab
  <2>1. pc = "varfstab" /\ Edits([live.root EXCEPT !.fstab = @ \cup {"/var"}])
    BY <1>1, <1>13, RootSteps
  <2> DEFINE r == [live.root EXCEPT !.fstab = @ \cup {"/var"}]
  <2>2. /\ r.boot = live.root.boot /\ r.links = live.root.links /\ r.nocow = live.root.nocow
        /\ ("/boot" \in r.fstab <=> "/boot" \in live.root.fstab) /\ "/var" \in r.fstab
    BY <1>1 DEF RootImages
  <2>3. Edits(r)
    BY <2>1
  <2> HIDE DEF r
  <2>4. /\ live'.root = r /\ live'.var = live.var /\ live'.default = live.default
        /\ UNCHANGED <<esp, mounts>> /\ pc' = "mountvar"
    BY <1>1, <1>7, <2>1, <2>3, OnwardFrom
  <2>5. BootMounted' <=> BootMounted
    BY <2>1, <2>4 DEF BootMounted
  <2>6. Agree(a, b, {"var_is_subvol", "fstab_has_var_mount"})
    BY <2>2, <2>4, <2>5, AgreeBut
  <2> HIDE DEF a, b
  <2>7. /\ b.var_is_subvol = TRUE /\ b.fstab_has_var_mount = TRUE /\ ~a.var_is_subvol
        /\ a.var_device_ref = a.root_device_ref /\ a.var_compression = a.root_compression
    BY <1>1, <1>3, <1>4, <2>1, <2>2, <2>4
  <2>8. b \in Modelled(10, a)
    BY <1>3, <1>4, <2>6, <2>7, IsStep10
  <2>9. QED BY <1>6, <2>1, <2>8 DEF AtStep
<1>14. CASE UmountBoot \/ MountBack
  <2>1. UNCHANGED <<live, esp>>
    BY <1>14 DEF UmountBoot, MountBack, Mounts
  <2>2. CASE BootMounted' <=> BootMounted
    <3>1. b = a
      BY <2>1, <2>2, Unseen
    <3>2. QED BY <1>5, <3>1
  <2>3. CASE pc = "umountboot4" /\ ~BootMounted'
    <3>1. Agree(a, b, {"ext4_boot_mounted"})
      BY <2>1, AgreeBut
    <3> HIDE DEF a, b
    <3>2. (BootMounted') = FALSE
      BY <2>3
    <3>3. b.ext4_boot_mounted = FALSE
      BY <1>4, <3>2
    <3>4. b \in Modelled(4, a)
      BY <1>3, <1>4, <3>1, <3>3, IsStep4
    <3>5. QED BY <1>6, <2>3, <3>4 DEF AtStep
  <2>4. (BootMounted' <=> BootMounted) \/ (pc = "umountboot4" /\ ~BootMounted')
    <3>1. CASE pc = "umountboot1"
      <4>1. "/boot" \in mounts /\ (pc' = "mountold" \/ mounts' = mounts)
        BY <1>1, <1>14, <3>1, OnwardFrom DEF UmountBoot, MountBack, Mounts
      <4>2. QED BY <4>1 DEF BootMounted
    <3>2. CASE pc = "umountboot4"
      <4>1. /\ pc' \in {"mountefi4", "failed"}
            /\ mounts' = mounts \ {"/boot"} \/ mounts' = mounts
        BY <1>1, <1>14, <3>2, OnwardFrom DEF UmountBoot, MountBack, Mounts, Fail
      <4>2. QED BY <3>2, <4>1 DEF BootMounted
    <3>3. CASE pc = "mountboot1"
      <4>1. "/boot" \in mounts'
        BY <1>1, <1>2, <1>14, <3>3 DEF UmountBoot, MountBack, Mounts, KeptInv
      <4>2. QED BY <3>3, <4>1 DEF BootMounted
    <3>4. CASE pc \in {"umountefi1", "umountefi4", "mountefi1", "mountefi4"}
      <4>1. /\ "/boot" \in mounts' <=> "/boot" \in mounts
            /\ Onward \/ Fail
        BY <1>14, <3>4 DEF UmountBoot, MountBack, Mounts
      <4>2. pc' \in {"umountboot1", "umountboot4", "gate1", "gate4", "failed"}
        BY <1>1, <3>4, <4>1, OnwardFrom DEF Fail
      <4>3. QED BY <3>4, <4>1, <4>2 DEF BootMounted
    <3>5. QED BY <1>14, <3>1, <3>2, <3>3, <3>4 DEF UmountBoot, MountBack
  <2>5. QED BY <2>2, <2>3, <2>4
<1>15. CASE CopyBoot
  <2>1. /\ pc = "copy" /\ UNCHANGED <<esp, mounts>> /\ (Onward \/ pc' = pc)
    BY <1>2, <1>15 DEF CopyBoot, Changes
  <2>2. /\ live'.root.links = live.root.links /\ live'.root.nocow = live.root.nocow
        /\ live'.root.fstab = live.root.fstab /\ live'.default = live.default
        /\ live'.var = live.var
        /\ live.root.boot \subseteq live'.root.boot
    BY <1>1, <1>15, CopyChanges DEF ApartStays
  <2>3. pc' \in {"copy", "umountold"} /\ command = "migrate"
    BY <1>1, <2>1, OnwardFrom, SetupLabels
  <2>4. BootMounted' <=> BootMounted
    BY <2>1, <2>3 DEF BootMounted
  <2>5. ASSUME NEW X,
               ("grub.cfg" \in live'.root.boot <=> "grub.cfg" \in live.root.boot)
                  \/ "grub_cfg_on_btrfs" \in X,
               ("kernel" \in live'.root.boot <=> "kernel" \in live.root.boot)
                  \/ "kernel_on_btrfs" \in X
        PROVE  Agree(a, b, X)
    BY <2>1, <2>2, <2>4, <2>5, AgreeBut
  <2> HIDE DEF a, b
  <2>6. CASE ("kernel" \in live'.root.boot <=> "kernel" \in live.root.boot)
    <3>1. CASE ("grub.cfg" \in live'.root.boot <=> "grub.cfg" \in live.root.boot)
      <4>1. Agree(a, b, {})
        BY <2>5, <2>6, <3>1
      <4>2. QED BY <1>3, <1>4, <1>5, <4>1, AgreeIsEqual
    <3>2. CASE "grub.cfg" \in live'.root.boot
      <4>1. Agree(a, b, {"grub_cfg_on_btrfs"})
        BY <2>5, <2>6
      <4>2. b.grub_cfg_on_btrfs = TRUE
        BY <1>4, <3>2
      <4>3. b \in Modelled(7, a)
        BY <1>3, <1>4, <4>1, <4>2, IsStep7
      <4>4. QED BY <2>1, <4>3 DEF AsModelled
    <3>3. QED BY <2>2, <3>1, <3>2
  <2>7. CASE "kernel" \in live'.root.boot
    <3>1. CASE ("grub.cfg" \in live'.root.boot <=> "grub.cfg" \in live.root.boot)
      <4>1. Agree(a, b, {"kernel_on_btrfs"})
        BY <2>5, <3>1
      <4>2. b.kernel_on_btrfs = TRUE
        BY <1>4, <2>7
      <4>3. b \in Modelled(1, a)
        BY <1>3, <1>4, <4>1, <4>2, IsStep1
      <4>4. 1 \in StepsOf[command] /\ Before(1) = {}
        BY <2>3 DEF StepsOf, Before
      <4>5. QED BY <4>3, <4>4, OneStep
    <3>2. CASE "grub.cfg" \in live'.root.boot
      <4>1. Agree(a, b, {"kernel_on_btrfs", "grub_cfg_on_btrfs"})
        BY <2>5
      <4>2. b.kernel_on_btrfs = TRUE /\ b.grub_cfg_on_btrfs = TRUE
        BY <1>4, <2>7, <3>2
      <4>3. \E t \in Modelled(1, a) : b \in Modelled(7, t)
        BY <1>3, <1>4, <4>1, <4>2, TwoSteps
      <4>4. QED BY <2>1, <4>3 DEF AsModelled
    <3>3. QED BY <2>2, <3>1, <3>2
  <2>8. QED BY <2>2, <2>6, <2>7
<1>16. CASE \/ Gate \/ LookAtBoot \/ OldBoot \/ Regenerate \/ LookAtVar \/ MountTop
            \/ SnapshotRoot \/ FillVar \/ MountVar \/ SyncFilesystem \/ EnsureHooks \/ Exit
  <2>1. b = a
    BY <1>1, <1>16, QuietSteps
  <2>2. QED BY <1>5, <2>1
<1>17. QED BY <1>8, <1>9, <1>10, <1>11, <1>12, <1>13, <1>14, <1>15, <1>16 DEF Step

\* The program makes the steps that proof.rs proves its theorems about, in their order and no
\* others, when power losses are the only faults and nothing is rolled back meanwhile: also
\* one that is started again after a power loss.
THEOREM MigrateStepsAsModelled ==
    ASSUME Faults \subseteq {"power"}, "rollback" \notin Others
    PROVE  MigrateSpec => StepsAsModelled
<1>1. ASSUME KeptInv, [Next]_vars
      PROVE  [Step => AsModelled(Chain(ModelState(live, esp)), Chain(ModelState(live, esp)'))]_vars
  BY <1>1, StepModelled
<1>2. QED BY <1>1, MigrateKept, PTL DEF MigrateSpec, StepsAsModelled, AsModelled

=============================================================================
