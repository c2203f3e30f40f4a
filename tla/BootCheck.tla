------------------------------ MODULE BootCheck ------------------------------
(***************************************************************************)
(* What check.rs concludes from the boot entries of a root subvolume, and  *)
(* what GRUB makes of them.  A boot directory is the record of the files   *)
(* in /boot, the symlinks to them at /, and the entry of each kernel.      *)
(***************************************************************************)
EXTENDS FiniteSets

CONSTANT Kernels   \* kernel versions

Parts == {"vmlinuz", "initramfs"}

\* An entry: none, as grub2-mkrelpath writes it (/root/boot/vmlinuz-...), or with the
\* paths of the symlinks (/vmlinuz-...).
Entries == {"none", "prefixed", "plain"}

BootDirs == [files : SUBSET (Kernels \X Parts),
             links : SUBSET (Kernels \X Parts),
             entry : [Kernels -> Entries]]

\* check_path_exists of /vmlinuz-k or /initramfs-k.img.
Resolves(b, k, part) == <<k, part>> \in b.links /\ <<k, part>> \in b.files

ValidEntry(b, k) == b.entry[k] = "plain" /\ \A part \in Parts : Resolves(b, k, part)

Confs(b) == {k \in Kernels : b.entry[k] # "none"}
Valid(b) == {k \in Confs(b) : ValidEntry(b, k)}

\* The results of a group of checks; the group that has printed its own warning
\* has none.
BlsResults(b) ==
    CASE Confs(b) = {}                        -> {"err"}
      [] Confs(b) # {} /\ Valid(b) = Confs(b) -> {"ok"}
      [] Valid(b) \notin {{}, Confs(b)}       -> {}
      [] Confs(b) # {} /\ Valid(b) = {}       -> {"err"}

\* evaluate_checks: a failure outweighs a warning.
Evaluate(groups) ==
    CASE \E g \in groups : "err" \in g                       -> "Fail"
      [] {} \in groups /\ \A g \in groups : "err" \notin g   -> "Warn"
      [] {} \notin groups /\ \A g \in groups : "err" \notin g -> "Pass"

\* verify_snapshot_bootable of a subvolume whose other groups pass.
Verify(b) == Evaluate({{"ok"}, BlsResults(b)})

\* GRUB resolves the paths of an entry from the default subvolume, through the
\* symlinks; the prefix names no directory there.
BootsEntry(b, k) ==
    /\ b.entry[k] = "plain"
    /\ {k} \X Parts \subseteq b.links \cap b.files

Bootable(b) == {k \in Kernels : BootsEntry(b, k)}

=============================================================================
