------------------------------ MODULE MCParse ------------------------------
(* Instances of Parse for TLC.  An alphabet has the symbols that one kind of *)
(* text is told apart by; the readers of the other kinds read it as well.    *)
EXTENDS Parse

MCAlphabets ==
    {\* mount options: subvol, subvolid, and values that look like keys
     {"subvol", "id", "=", ","},
     \* kernel command lines
     {"root", "=UUID=", " ", "x"},
     \* BLS entries: lines of the kernel, of its initrd and others, with paths that have
     \* to be rewritten, and with what tuned adds to an initrd
     {"linux", "initrd", "/boot/", " ", "\n"},
     {"initrd", "/boot/", "$tuned_initrd", " ", "\n"},
     \* comments and carriage returns in them
     {"linux", "/boot/", "#", " ", "\r", "\n"},
     \* paths of subvolumes
     {" path ", " gen ", "x"},
     \* fields of fstab: what is escaped, and escapes
     {"\\", " ", "0", "4"},
     {"\\", "\t", "\n", "1"},
     {"\\", "0", "1", "2"}}

=============================================================================
