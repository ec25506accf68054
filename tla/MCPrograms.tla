----------------------------- MODULE MCPrograms -----------------------------
(* Pages of 40 bytes, five of them, a file of 44.  Tables of one and two   *)
(* segments that begin in and between pages, beside the stack, and at the  *)
(* last addresses; tables of three to reach the limits.  Every short path  *)
(* after CD, MKDIR, RUN and as an argument, and walks through directories  *)
(* that are removed and made again.                                        *)
EXTENDS Launch

Letters == {"D", "P", "d", "x"}
Upper == [c \in {"d"} |-> "D"]
Name(c) == [base |-> <<c>>, ext |-> <<>>]

Code == [load : {TRUE}, exec : {TRUE}, write : {FALSE}, offset : {0, 1, 199},
         vaddr : {0, 40, 41, 80, 160, 198, 199}, filesz : {0, 2, 44}, memsz : {0, 1, 44, 60}]
Data == [load : {TRUE}, exec : {FALSE}, write : {TRUE}, offset : {1},
         vaddr : {41, 81, 119}, filesz : {1}, memsz : {1, 2}]
Note == [load : {FALSE}, exec : {FALSE}, write : {FALSE}, offset : {0},
         vaddr : {1}, filesz : {0}, memsz : {1}]
Flat == [load : {TRUE}, exec : {TRUE}, write : {TRUE}, offset : {0},
         vaddr : {40, 41}, filesz : {44}, memsz : {43, 44}]
Plain == [load |-> TRUE, exec |-> TRUE, write |-> FALSE, offset |-> 0,
          vaddr |-> 40, filesz |-> 2, memsz |-> 2]
Empty == CHOOSE p \in Note : TRUE

\* Segments that can be loaded, and ones that hardly can.
Fair == {p \in Code : p.offset < 2 /\ p.filesz <= p.memsz /\ p.vaddr \in {40, 41, 80, 160} /\ p.memsz > 0}
Later == {p \in Fair : p.offset = 1}
Odd == {p \in Code : p.offset # 0 /\ p.filesz # 2 /\ p.memsz # 44 /\ p.vaddr # 198}

ElfTables ==
    {<<p>> : p \in Code \cup Note}
    \cup Fair \X (Odd \cup Data \cup Note) \cup (Odd \cup Data) \X Later
    \cup Later \X Data \X (Data \cup Note)

L(c, a) == [cmd |-> c, arg |-> a]
Session(ls, t, f) == [lines |-> ls, table |-> t, format |-> f]
RunIt == L("RUN", <<"/", "D", "/", "P">>)

\* Strings of up to max characters.
Strings(S, max) == UNION {[1 .. m -> S] : m \in 0 .. max}

ShortPaths == Strings({"D", "d", ".", "/", " "}, 4) \cup Strings({"D", "/"}, 7)
Arguments == Strings({"x", ".", "/", " "}, 3)
             \cup {<<"x", " ", "x", "x">> \o s : s \in Strings({"x", " "}, 4)}
             \cup {[k \in 1 .. 9 |-> IF k = 8 THEN c ELSE "x"] : c \in {"x", " "}}

Walks == {L("CD", <<"D">>), L("CD", <<"/">>), L("CD", <<"D", "/", "d">>), L("RMDIR", <<"d">>),
          L("RMDIR", <<"/", "D", "/", "D">>), L("MKDIR", <<"D">>), L("RUN", <<"P", " ", "x">>)}

SomeSessions ==
    {Session(<<RunIt>>, t, "ELF") : t \in ElfTables}
    \cup {Session(<<RunIt>>, <<p>>, "YOZ1") : p \in Flat}
    \cup {Session(<<L(c, s)>>, <<Empty>>, "ELF") : c \in {"CD", "MKDIR", "RUN"}, s \in ShortPaths}
    \cup {Session(<<L("CD", <<"D">>), L(c, s)>>, <<Empty>>, "ELF") : c \in {"CD", "RUN"}, s \in ShortPaths}
    \cup {Session(<<L("RUN", <<" ", "/", "D", "/", "P", " ">> \o s)>>, <<Plain>>, "ELF") : s \in Arguments}
    \cup {Session(w, <<Empty>>, "ELF") : w \in [1 .. 4 -> Walks]}

AtProgram == <<Name("D"), Name("P")>>
SomeDirectories == {<<Name("D")>>, <<Name("D"), Name("D")>>}
Some == {0, 40, 41, 79, 81, 119, 120, 159, 160, 199}

=============================================================================
