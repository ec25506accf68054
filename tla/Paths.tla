------------------------------- MODULE Paths -------------------------------
(***************************************************************************)
(* Names and paths, from what is typed to what is looked up on the disk:   *)
(* the joining of shell/shell.c, the rules of fs/vfs.c for programs, and   *)
(* the components and 8.3 names of fs/fat.c.  A string is a sequence of    *)
(* characters; a location is a sequence of 8.3 names that starts at the    *)
(* root directory.                                                         *)
(***************************************************************************)
EXTENDS Naturals, Sequences, SequencesExt

CONSTANTS
    NameChar,          \* letters, digits, '_' and '-'
    UpperOf,           \* lower-case letter -> upper-case letter
    BASE, EXT,         \* 8 and 3
    VFS_MAX_PATH

ASSUME PathsAssumption ==
    /\ DOMAIN UpperOf \subseteq NameChar
    /\ \A c \in DOMAIN UpperOf : UpperOf[c] \in NameChar \ DOMAIN UpperOf
    /\ {".", "/", " "} \cap NameChar = {}
    /\ {BASE, EXT, VFS_MAX_PATH} \subseteq Nat \ {0}

Refused == <<>>        \* the answer of a function that returns 0

-----------------------------------------------------------------------------
(* Strings *)

\* The words of s, which runs of the character sep separate.
Words(s, sep) ==
    LET field(fs, c) == IF c = sep THEN Append(fs, <<>>)
                        ELSE Front(fs) \o <<Append(Last(fs), c)>>
    IN  SelectSeq(FoldLeft(field, << <<>> >>, s), LAMBDA w : w # <<>>)

Truncated(s, n) == IF Len(s) > n THEN SubSeq(s, 1, n) ELSE s

\* The part of s before its first dot, and the part behind it.
Dots(s) == {k \in DOMAIN s : s[k] = "."}
Base(s) == IF Dots(s) = {} THEN s ELSE SubSeq(s, 1, Min(Dots(s)) - 1)
Ext(s) == IF Dots(s) = {} THEN <<>> ELSE SubSeq(s, Min(Dots(s)) + 1, Len(s))

-----------------------------------------------------------------------------
(* fs/fat.c *)

to_upper(c) == IF c \in DOMAIN UpperOf THEN UpperOf[c] ELSE c

name_is_valid_83(s) ==
    /\ \A k \in DOMAIN s \ Dots(s) : s[k] \in NameChar
    /\ \A j, k \in Dots(s) : j = k
    /\ Len(Base(s)) \in 1 .. BASE /\ Len(Ext(s)) <= EXT

\* The eleven characters, without the padding.
name_to_83(s) ==
    LET upper(t) == [k \in DOMAIN t |-> to_upper(t[k])]
    IN  [base |-> Truncated(upper(Base(s)), BASE), ext |-> Truncated(upper(Ext(s)), EXT)]

name_from_83(n) == n.base \o (IF n.ext = <<>> THEN <<>> ELSE <<".">> \o n.ext)

\* path_next_component, called until the path ends; no component may be
\* longer than a name with its dot.
path_components(path) ==
    LET cs == Words(path, "/")
    IN  IF \A k \in DOMAIN cs : Len(cs[k]) <= BASE + 1 + EXT THEN cs ELSE Refused

\* The location that resolve_parent_dir walks to, with the leaf at its end.
fat_location(path) ==
    LET cs == path_components(path)
    IN  IF \A k \in DOMAIN cs : name_is_valid_83(cs[k])
        THEN [k \in DOMAIN cs |-> name_to_83(cs[k])] ELSE Refused

-----------------------------------------------------------------------------
(* shell/shell.c *)

\* Mutant of shell_resolve_path: no slash between the two.
shell_resolve_path_Glued(cwd, s) ==
    LET out == IF s[1] = "/" THEN s ELSE cwd \o s
    IN  IF s \in {<<>>, <<".">>} \/ IsPrefix(<<".", ".">>, s) \/ Len(out) > VFS_MAX_PATH - 1
        THEN Refused ELSE out

shell_resolve_path(cwd, s) ==
    LET out == IF s[1] = "/" THEN s
               ELSE cwd \o (IF Len(cwd) > 1 THEN <<"/">> ELSE <<>>) \o s
    IN  IF s \in {<<>>, <<".">>} \/ IsPrefix(<<".", ".">>, s) \/ Len(out) > VFS_MAX_PATH - 1
        THEN Refused ELSE out

-----------------------------------------------------------------------------
(* fs/vfs.c; the current directory of a program is always "/". *)

\* What follows the leading "./", any number of them.
SkipHere(s) ==
    LET from[k \in 1 .. Len(s) + 1] ==
            IF k < Len(s) /\ s[k] = "." /\ s[k + 1] = "/" THEN from[k + 2] ELSE k
    IN  SubSeq(s, from[1], Len(s))

resolve_simple_path(s) ==
    LET out == IF s[1] = "/" THEN Tail(s) ELSE SkipHere(s)
    IN  IF \/ s = <<>> \/ out \in {<<>>, <<".">>}
           \/ IsPrefix(<<".", ".">>, out) \/ Last(out) = "/" \/ Len(out) > VFS_MAX_PATH - 1
        THEN Refused ELSE out

is_root_path(s) == s \in {<<"/">>, <<".">>}

=============================================================================
