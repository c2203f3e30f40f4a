------------------------------- MODULE Parse -------------------------------
(***************************************************************************)
(* The texts the tool reads and rewrites: mount options, kernel command    *)
(* lines, BLS entries, fields of fstab and lines of btrfs subvolume list.  *)
(* A text is a sequence of symbols; a symbol is a character that separates *)
(* something, or a word in which nothing does.  Every text of at most      *)
(* MaxLen symbols is a state, and every operator below reads it.           *)
(***************************************************************************)
EXTENDS Integers, SequencesExt

CONSTANTS
    Alphabets,   \* the sets of symbols a text is written with
    MaxLen       \* the longest text that is written

VARIABLES
    alphabet,    \* the symbols of this text
    text         \* what a file, a field of it or the output of a tool holds

Blank   == {" ", "\t"}
White   == Blank \cup {"\r"}       \* what trim() takes off a line
Newline == {"\n"}

\* An Option is a sequence of at most one value.
Nothing == <<>>
Some(v) == <<v>>

\* match_at().
MatchAt(t, word, i) ==
    i + Len(word) - 1 <= Len(t) /\ SubSeq(t, i, i + Len(word) - 1) = word

\* The first position from i on with, or without, a symbol of S: the loops that look
\* for the end of something stop there, or at the end of the text.
Upto(t, i, S) == Min({j \in i..Len(t) : t[j] \in S} \cup {Len(t) + 1})
Past(t, i, S) == Min({j \in i..Len(t) : t[j] \notin S} \cup {Len(t) + 1})

\* The text of i..j without what is of S at its end.
TrimEnd(t, i, j, S) == SubSeq(t, i, Max({k \in i..j : t[k] \notin S} \cup {i - 1}))

Trim(t, S) == TrimEnd(t, Past(t, 1, S), Len(t), S)

-----------------------------------------------------------------------------
(* parse.rs.                                                               *)

\* Mutation of FindOption: a key that another key begins with is taken for it.
FindOptionByPrefix(t, key) ==
    LET from[i \in 1..Len(t) + 1] ==
            LET end == Upto(t, i, {","})
                val == i + Len(key) + 1
            IN  CASE i > Len(t)                           -> Nothing
                  [] MatchAt(t, key, i) /\ val <= end     -> Some(SubSeq(t, val, end - 1))
                  [] OTHER -> from[Min({end + 1, Len(t) + 1})]
    IN  from[1]

\* The value of the first key=value among mount options; keys are not empty.
FindOption(t, key) ==
    LET from[i \in 1..Len(t) + 1] ==
            LET end == Upto(t, i, {","})
                val == i + Len(key) + 1
            IN  CASE i > Len(t)                           -> Nothing
                  [] /\ MatchAt(t, key \o <<"=">>, i)
                     /\ val <= end                        -> Some(SubSeq(t, val, end - 1))
                  [] OTHER -> from[Min({end + 1, Len(t) + 1})]
    IN  from[1]

\* Mutation of FindRootUuid: an empty value ends the search.
FindRootUuidOrEmpty(t, prefix) ==
    LET from[i \in 1..Len(t) + 1] ==
            LET end == Upto(t, i, Blank)
                val == i + Len(prefix)
            IN  CASE i > Len(t)                           -> Nothing
                  [] MatchAt(t, prefix, i) /\ val <= end  -> Some(SubSeq(t, val, end - 1))
                  [] OTHER -> from[Max({Past(t, end, Blank), i + 1})]
    IN  from[1]

\* The rest of the first token of a command line that begins with prefix and goes on.
FindRootUuid(t, prefix) ==
    LET from[i \in 1..Len(t) + 1] ==
            LET end == Upto(t, i, Blank)
                val == i + Len(prefix)
            IN  CASE i > Len(t)                           -> Nothing
                  [] MatchAt(t, prefix, i) /\ val < end   -> Some(SubSeq(t, val, end - 1))
                  [] OTHER -> from[Max({Past(t, end, Blank), i + 1})]
    IN  from[1]

\* Mutation of FindField: a key ends where it matches, not at a blank.
FindFieldByPrefix(t, key, i) ==
    LET from[j \in 1..Len(t) + 2] ==
            LET start == Past(t, j, Blank)
                end   == Upto(t, start, Newline)
                value == TrimEnd(t, Past(t, start + Len(key), Blank), end - 1, White)
            IN  CASE start > Len(t)                               -> Nothing
                  [] t[start] # "#" /\ MatchAt(t, key, start)     -> Some([value |-> value, end |-> end])
                  [] OTHER -> from[end + 1]
    IN  from[i]

\* The value of the first line of a BLS entry from position i on that has the key, with
\* the end of the line.
FindField(t, key, i) ==
    LET from[j \in 1..Len(t) + 2] ==
            LET start == Past(t, j, Blank)
                end   == Upto(t, start, Newline)
                after == start + Len(key)
                value == TrimEnd(t, Past(t, after + 1, Blank), end - 1, White)
            IN  CASE start > Len(t)                               -> Nothing
                  [] /\ t[start] # "#"
                     /\ MatchAt(t, key, start)
                     /\ after <= Len(t) /\ t[after] \in Blank     -> Some([value |-> value, end |-> end])
                  [] OTHER -> from[end + 1]
    IN  from[i]

\* The values of all of them, the search going on behind each match's line.
BlsFieldAll(t, key) ==
    LET from[i \in 1..Len(t) + 2] ==
            LET found == FindField(t, key, i)
            IN  IF found = Nothing THEN <<>>
                ELSE <<found[1].value>> \o from[found[1].end + 1]
    IN  from[1]

-----------------------------------------------------------------------------
(* The grammars of tools.rs.                                               *)

\* str::lines(): a newline ends a line, and with it a carriage return before it.
Lines(t) ==
    LET from[i \in 1..Len(t) + 1] ==
            LET end  == Upto(t, i, Newline)
                last == IF end \in i + 1..Len(t) /\ t[end - 1] = "\r" THEN end - 2 ELSE end - 1
            IN  IF i > Len(t) THEN <<>>
                ELSE <<SubSeq(t, i, last)>> \o from[Min({end + 1, Len(t) + 1})]
    IN  from[1]

\* A line of a BLS entry: key, its value, and all of the line before the value.  A
\* comment or a blank line has no key, and is kept whole.
BlsLine(line) ==
    LET trimmed == Trim(line, White)
        sep     == Upto(trimmed, 1, Blank)
        value   == Past(trimmed, sep, White)
    IN  IF trimmed = <<>> \/ trimmed[1] = "#"
        THEN [key |-> <<>>, prefix |-> line, value |-> <<>>]
        ELSE [key    |-> SubSeq(trimmed, 1, sep - 1),
              prefix |-> SubSeq(trimmed, 1, value - 1),
              value  |-> SubSeq(trimmed, value, Len(trimmed))]

ParseBls(t) == LET lines == Lines(t) IN [i \in DOMAIN lines |-> BlsLine(lines[i])]

\* Mutation of ParseSubvolLine: the path is what follows the last " path ".
ParsePathLast(t) ==
    LET at == {i \in 1..Len(t) : t[i] = " path "}
    IN  IF at = {} THEN Nothing ELSE Some(SubSeq(t, Max(at) + 1, Len(t)))

\* The path in a line "ID n gen n top level n path p": each separator is looked for
\* behind the one before it.
ParseSubvolLine(t) ==
    LET gen  == Upto(t, 2, {" gen "})
        top  == Upto(t, gen + 1, {" top level "})
        path == Upto(t, top + 1, {" path "})
    IN  IF t # <<>> /\ t[1] = "ID " /\ path <= Len(t)
        THEN Some(SubSeq(t, path + 1, Len(t)))
        ELSE Nothing

\* The escapes of fstab that are decoded, and what they stand for.
Escapes == << [code |-> <<"0", "4", "0">>, for |-> " "],
              [code |-> <<"0", "1", "1">>, for |-> "\t"],
              [code |-> <<"0", "1", "2">>, for |-> "\n"],
              [code |-> <<"1", "3", "4">>, for |-> "\\"] >>

\* Mutation of FstabDecode: the last digit of an escape is read once more.
FstabDecodeTwice(t) ==
    LET from[i \in 1..Len(t) + 1] ==
            LET rest == SubSeq(t, i + 1, Min({i + 3, Len(t)}))
                at   == {e \in DOMAIN Escapes : Escapes[e].code = rest}
            IN  CASE i > Len(t)                -> <<>>
                  [] i <= Len(t) /\ t[i] # "\\" -> <<t[i]>> \o from[i + 1]
                  [] OTHER ->
                       (IF at = {} THEN <<t[i]>> \o rest
                        ELSE <<Escapes[CHOOSE e \in at : TRUE].for>>)
                       \o from[Min({i + 3, Len(t) + 1})]
    IN  from[1]

\* A backslash takes the three symbols after it along, an escape or not.
FstabDecode(t) ==
    LET from[i \in 1..Len(t) + 1] ==
            LET rest == SubSeq(t, i + 1, Min({i + 3, Len(t)}))
                at   == {e \in DOMAIN Escapes : Escapes[e].code = rest}
            IN  CASE i > Len(t)                -> <<>>
                  [] i <= Len(t) /\ t[i] # "\\" -> <<t[i]>> \o from[i + 1]
                  [] OTHER ->
                       (IF at = {} THEN <<t[i]>> \o rest
                        ELSE <<Escapes[CHOOSE e \in at : TRUE].for>>)
                       \o from[Min({i + 4, Len(t) + 1})]
    IN  from[1]

-----------------------------------------------------------------------------
(* What is written back.                                                   *)

\* str::replace().
Replace(t, old, new) ==
    LET from[i \in 1..Len(t) + 1] ==
            CASE i > Len(t)          -> <<>>
              [] MatchAt(t, old, i)  -> new \o from[i + Len(old)]
              [] OTHER               -> <<t[i]>> \o from[i + 1]
    IN  from[1]

\* Mutation of VarOptions: the name of the root is replaced wherever it is.
VarOptionsByName(t, root) == IF root = <<>> THEN t ELSE Replace(t, root, <<"var">>)

\* Step 10 of migrate: the mount options of /var, made of those of the root.
VarOptions(t, root) ==
    Replace(t, <<"subvol", "=">> \o root, <<"subvol", "=", "var">>)

HasBadPath(v) == "/boot/" \in ToSet(v)

\* fix_bls_paths(): what it takes for a reason to rewrite an entry, and the entry it
\* writes; every linux and initrd line gets the path of the symlink.
NeedsFix(t) ==
    \/ LET linux == FindField(t, <<"linux">>, 1)
       IN  linux # Nothing /\ HasBadPath(linux[1].value)
    \/ \E v \in ToSet(BlsFieldAll(t, <<"initrd">>)) : HasBadPath(v)

\* Mutation of FixedLine: a line that tuned added to is not told apart.
FixedLineWithoutTuned(l) ==
    CASE l.key = <<"linux">>  -> l.prefix \o <<"/vmlinuz">>
      [] l.key = <<"initrd">> -> l.prefix \o <<"/initramfs">>
      [] OTHER                -> l.prefix \o l.value

FixedLine(l) ==
    CASE l.key = <<"linux">> -> l.prefix \o <<"/vmlinuz">>
      [] l.key = <<"initrd">> /\ "$tuned_initrd" \in ToSet(l.value) ->
            l.prefix \o <<"/initramfs", " ", "$tuned_initrd">>
      [] l.key = <<"initrd">> /\ "$tuned_initrd" \notin ToSet(l.value) ->
            l.prefix \o <<"/initramfs">>
      [] OTHER -> l.prefix \o l.value

\* The lines of a text that is joined of them.
Joined(lines) ==
    LET from[i \in 1..Len(lines) + 1] ==
            IF i > Len(lines) THEN <<>>
            ELSE (IF i = 1 THEN lines[i] ELSE <<"\n">> \o lines[i]) \o from[i + 1]
    IN  from[1]

FixedEntry(t) == LET lines == ParseBls(t)
                 IN  Joined([i \in DOMAIN lines |-> FixedLine(lines[i])])

-----------------------------------------------------------------------------
Init == alphabet \in Alphabets /\ text = <<>>

\* Somebody writes the text.
Write ==
    /\ Len(text) < MaxLen
    /\ \E c \in alphabet : text' = Append(text, c)
    /\ UNCHANGED alphabet

\* Another text of the same kind is begun.
Begin == text # <<>> /\ text' = <<>> /\ UNCHANGED alphabet

FixBlsPaths ==
    /\ NeedsFix(text)
    /\ text' = FixedEntry(text)
    /\ UNCHANGED alphabet

Next == Begin \/ Write \/ FixBlsPaths

ParseSpec == Init /\ [][Next]_<<alphabet, text>>

-----------------------------------------------------------------------------
(* Properties.                                                             *)

\* The items of a text between separators.
Items(t, S) ==
    LET ends == {0, Len(t) + 1} \cup {i \in DOMAIN t : t[i] \in S}
    IN  {<<i, SubSeq(t, i + 1, Min({j \in ends : j > i}) - 1)>> : i \in ends \ {Len(t) + 1}}

\* The value of the first item that begins with a word and has Least symbols more.
FirstOf(t, S, word, Least) ==
    LET hits == {item \in Items(t, S) : /\ IsPrefix(word, item[2])
                                        /\ Len(item[2]) >= Len(word) + Least}
    IN  IF hits = {} THEN Nothing
        ELSE LET hit == CHOOSE h \in hits : \A g \in hits : h[1] <= g[1]
             IN  Some(SubSeq(hit[2], Len(word) + 1, Len(hit[2])))

\* extract_mount_option reads the first option with the whole key, as mount(8) divides
\* options: subvolid is not taken for subvol, nor a value for a key.
OptionHasWholeKey ==
    FindOption(text, <<"subvol">>) = FirstOf(text, {","}, <<"subvol", "=">>, 0)

\* extract_root_uuid_from_options reads the first token that names a UUID: the value ends
\* with its token, and a token without one, or with the words inside, does not count.
RootUuidIsToken ==
    FindRootUuid(text, <<"root", "=UUID=">>) =
        FirstOf(text, Blank, <<"root", "=UUID=">>, 1)

Rewritten == {<<"linux">>, <<"initrd">>}

\* Of texts in a sequence, those that are not empty.
NonEmpty(s) == FlattenSeq([i \in DOMAIN s |-> IF s[i] = <<>> THEN Nothing ELSE Some(s[i])])

ValuesOf(lines, key) ==
    NonEmpty([i \in DOMAIN lines |-> IF lines[i].key = key THEN lines[i].value ELSE <<>>])

\* The lines of an entry that rewriting it does not touch.
KeptLines(t) ==
    LET lines   == ParseBls(t)
        Kept(l) == l.key \notin Rewritten /\ Trim(l.prefix, White) # <<>>
    IN  FlattenSeq([i \in DOMAIN lines |-> IF Kept(lines[i]) THEN Some(lines[i]) ELSE Nothing])

\* A carriage return is the end of a line.
ReturnsEndLines(t) ==
    \A i \in DOMAIN t : t[i] = "\r" => i = Len(t) \/ t[i + 1] = "\n"

\* The two readers of BLS entries agree: what find_field decides whether an entry has to
\* be rewritten on is what parse_bls rewrites, whatever comments, blank lines, indented
\* lines, trailing blanks and carriage returns the entry has.
ReadersAgree ==
    ReturnsEndLines(text) =>
    \A key \in Rewritten : NonEmpty(BlsFieldAll(text, key)) = ValuesOf(ParseBls(text), key)

FixedInitrd(v) ==
    IF "$tuned_initrd" \in ToSet(v) THEN <<"/initramfs", " ", "$tuned_initrd">>
    ELSE <<"/initramfs">>

\* What rewriting is stated about: an entry whose lines end as text files do and whose
\* kernel and initrd lines have a value.  (A carriage return within a line belongs to what
\* find_field reads and parse_bls does not; the path of a line without a value would be
\* joined to its key.)
WellFormed(t) ==
    /\ ReturnsEndLines(t)
    /\ \A l \in ToSet(ParseBls(t)) : l.key \in Rewritten => l.value # <<>>

\* Rewriting a BLS entry gives each kernel and initrd line the path of its symlink and
\* keeps the initrd that tuned adds; every other line stays, and there is nothing left to
\* rewrite, so the hook may run again.
FixRewritesPathsOnly ==
    [][FixBlsPaths /\ WellFormed(text) =>
         LET linux  == ValuesOf(ParseBls(text), <<"linux">>)
             initrd == ValuesOf(ParseBls(text), <<"initrd">>)
         IN  /\ NonEmpty(BlsFieldAll(text', <<"linux">>)) =
                    [i \in DOMAIN linux |-> <<"/vmlinuz">>]
             /\ NonEmpty(BlsFieldAll(text', <<"initrd">>)) =
                    [i \in DOMAIN initrd |-> FixedInitrd(initrd[i])]
             /\ KeptLines(text') = KeptLines(text)
             /\ ~NeedsFix(text')]_<<alphabet, text>>

\* The options step 10 writes for /var name the subvolume var, and their subvolid is the
\* root's, whatever the root is called: the key is not found in subvolid, nor the root's name
\* in its own key.  (subvolid is a number: words in it that look like the option that is
\* replaced would be replaced too, as they are in other options.)
VarOptionsNameVar ==
    LET root == FindOption(text, <<"subvol">>)
        id   == FindOption(text, <<"subvol", "id">>)
    IN  root # Nothing /\ (id = Nothing \/ "=" \notin ToSet(id[1])) =>
          /\ FindOption(VarOptions(text, root[1]), <<"subvol">>) = Some(<<"var">>)
          /\ FindOption(VarOptions(text, root[1]), <<"subvol", "id">>) = id

\* A subvolume's path is read back from its line, separators in the path included: what
\* is deleted, swapped and evicted by name is the subvolume that was listed.
SubvolPathIsRead ==
    ParseSubvolLine(<<"ID ", "n", " gen ", "n", " top level ", "n", " path ">> \o text)
        = Some(text)

\* What fstab(5) has a writer escape in a field, blanks, line ends and the backslash itself,
\* is read back as it was, digits that look like an escape's included.
EscapedFieldIsRead ==
    LET Code(c)    == <<"\\">> \o Escapes[CHOOSE e \in DOMAIN Escapes : Escapes[e].for = c].code
        from[i \in 1..Len(text) + 1] ==
            CASE i > Len(text)                    -> <<>>
              [] i <= Len(text) /\ text[i] \in {" ", "\t", "\n", "\\"} ->
                    Code(text[i]) \o from[i + 1]
              [] OTHER                            -> <<text[i]>> \o from[i + 1]
    IN  FstabDecode(from[1]) = text

\* A field in which no backslash begins an escape is read as it is, to its last symbol: a
\* backslash that begins none, at the end of the field or before another one, is no escape.
UnescapedFieldStays ==
    (\A i \in DOMAIN text : \A e \in DOMAIN Escapes :
        ~MatchAt(text, <<"\\">> \o Escapes[e].code, i))
    => FstabDecode(text) = text

=============================================================================
