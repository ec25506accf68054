------------------------------- MODULE Launch -------------------------------
(***************************************************************************)
(* From a line typed at the shell to a program that opens the files it was *)
(* given: CD, MKDIR, RMDIR and RUN (shell/shell.c), the flat loader        *)
(* run_user_file beside the ELF loader (cpu/user_mode.c), and the path of  *)
(* SYS_OPEN (fs/vfs.c).  The shell builds a program alone; what happens    *)
(* when others run meanwhile is in Processes and Keyboard.                 *)
(***************************************************************************)
EXTENDS UserMemory

CONSTANTS
    USER_LOAD_ADDR, USER_BIN_HEADER_SIZE, USER_MAX_IMAGE_FRAMES,
    ProgramAt,         \* where the program file is
    Directories,       \* the directories there are at first
    Sessions           \* [lines, table, format]: lines typed, and the file

ASSUME LaunchAssumption ==
    /\ {USER_LOAD_ADDR, USER_BIN_HEADER_SIZE, USER_MAX_IMAGE_FRAMES} \subseteq Nat
    /\ USER_LOAD_ADDR % PAGE = 0 /\ MAX_REGIONS >= 2
    /\ USER_LOAD_ADDR + USER_MAX_IMAGE_FRAMES * PAGE <= STACK_TOP - PAGE
    /\ \A s \in Sessions :
          /\ s.format \in {"ELF", "YOZ1"} /\ s.table \in Seq(Header) \ {<<>>}
          /\ s.format = "YOZ1" => /\ Len(s.table) = 1 /\ s.table[1].load
                                  /\ s.table[1].offset = 0 /\ s.table[1].filesz = LEN
          /\ \A k \in DOMAIN s.lines : s.lines[k].cmd \in {"CD", "MKDIR", "RMDIR", "RUN"}

VARIABLES
    lines, line,       \* lines to come, and the one of the last RUN
    cwd, where,        \* shell_cwd, and the location that the user went to
    dirs,              \* directories on the disk
    last,              \* the last path: who used it, from where, what came of it
    format,            \* the first bytes of the program file
    sh                 \* the shell: at its prompt, loading, or done

shellVars == <<lines, line, cwd, where, dirs, last, format, sh>>
launchVars == <<vars, stackVars, calls, shellVars>>

Nothing == [who |-> "nobody", input |-> <<>>, from |-> <<>>, ok |-> FALSE, at |-> <<>>]

LInit ==
    /\ \E s \in Sessions : lines = s.lines /\ headers = s.table /\ format = s.format
    /\ UInit
    /\ line = <<>> /\ cwd = <<"/">> /\ where = <<>> /\ dirs = Directories
    /\ last = Nothing /\ sh = "prompt"

-----------------------------------------------------------------------------
(* The shell *)

Typed(c) == sh = "prompt" /\ lines # <<>> /\ Head(lines).cmd = c
Input == Head(lines).arg

Used(who, input, ok, loc) ==
    last' = [who |-> who, input |-> input, from |-> where, ok |-> ok, at |-> loc]

\* vfs_stat: the path is a directory.
IsDirectory(path) ==
    is_root_path(path) \/ fat_location(resolve_simple_path(path)) \in dirs

\* cmd_cd
Cd ==
    LET path == shell_resolve_path(cwd, Input)
        ok == path # Refused /\ IsDirectory(path)
    IN
    /\ Typed("CD")
    /\ cwd' = IF ok THEN Truncated(path, VFS_MAX_PATH - 1) ELSE cwd
    /\ where' = IF ~ok THEN where
                ELSE IF Input[1] = "/" THEN fat_location(Input) ELSE where \o fat_location(Input)
    /\ Used("CD", Input, ok, IF ok THEN where' ELSE <<>>)
    /\ lines' = Tail(lines)
    /\ UNCHANGED <<vars, stackVars, calls, line, dirs, format, sh>>

Parent(loc) == Front(loc)
Exists(loc) == loc \in dirs \/ loc = ProgramAt
Reachable(loc) == loc # <<>> /\ (Parent(loc) = <<>> \/ Parent(loc) \in dirs)
Below(loc) == {l \in dirs \cup {ProgramAt} : IsStrictPrefix(loc, l)}

\* cmd_mkdir and cmd_rmdir: Fat has the operations on the disk.
ChangeDirs(c) ==
    LET path == shell_resolve_path(cwd, Input)
        loc == fat_location(path)
        ok == /\ path # Refused /\ Reachable(loc)
              /\ IF c = "MKDIR" THEN ~Exists(loc) ELSE loc \in dirs /\ Below(loc) = {}
    IN
    /\ Typed(c)
    /\ dirs' = IF ~ok THEN dirs ELSE IF c = "MKDIR" THEN dirs \cup {loc} ELSE dirs \ {loc}
    /\ Used(c, Input, ok, loc)
    /\ lines' = Tail(lines)
    /\ UNCHANGED <<vars, stackVars, calls, line, cwd, where, format, sh>>

\* cmd_run: the program name ends at the first space behind it.
ProgramOf(a) ==
    LET from == SelectInSeq(a, LAMBDA c : c # " ")
        word == IF from = 0 THEN <<>> ELSE SubSeq(a, from, Len(a))
        s == SelectInSeq(word, LAMBDA c : c = " ")
    IN  [program |-> SubSeq(word, 1, IF s = 0 THEN Len(word) ELSE s - 1),
         args |-> IF s = 0 THEN <<>> ELSE SubSeq(word, s + 1, Len(word))]

\* user_process_set_args, with user_process_copy_arg.
user_process_set_args(program, args) ==
    LET words == <<program>> \o Words(args, " ")
    IN  [k \in 1 .. Min({Len(words), USER_MAX_ARGS}) |-> Truncated(words[k], USER_ARG_MAX - 1)]

\* cmd_run: the file is looked up, its first bytes decide on the loader, and
\* the loader takes the arguments (user_process_set_args).
Run ==
    LET p == ProgramOf(Input)
        path == shell_resolve_path(cwd, p.program)
        loc == fat_location(path)
        ok == path # Refused /\ Reachable(loc) /\ loc = ProgramAt
    IN
    /\ Typed("RUN")
    /\ Used("RUN", IF Words(Input, " ") = <<>> THEN <<>> ELSE Words(Input, " ")[1], ok, loc)
    /\ IF ok THEN /\ argv' = user_process_set_args(path, p.args)
                  /\ line' = Input /\ sh' = "loading"
       ELSE UNCHANGED <<argv, line, sh>>
    /\ lines' = Tail(lines)
    /\ UNCHANGED <<vars, stack, stack_entry, calls, cwd, where, dirs, format>>

-----------------------------------------------------------------------------
(* Loading *)

\* user_binary_header_ok.  The header of a flat program gives one segment,
\* from its load address on and as long as its image_size.
FlatHeader ==
    LET h == headers[1] IN
    /\ sh = "loading" /\ format = "YOZ1" /\ pc = "headers"
    /\ pc' = IF /\ LEN >= USER_BIN_HEADER_SIZE
                /\ h.vaddr = USER_LOAD_ADDR /\ h.memsz = LEN
                /\ e_entry - USER_LOAD_ADDR \in USER_BIN_HEADER_SIZE .. LEN - 1
             THEN "image" ELSE "failed"
    /\ UNCHANGED <<file, i, va, pages, frames, regions, stackVars, calls, shellVars>>

\* elf32_program_headers_ok; elf_entry_in_executable_segment, which the code
\* calls once the stack is built, refuses the same programs here.
ElfHeader ==
    /\ sh = "loading" /\ format = "ELF" /\ CheckHeaders
    /\ UNCHANGED <<stackVars, calls, shellVars>>

\* The stack is built before the image is mapped.
PrepareStack ==
    /\ sh = "loading" /\ pc \in {"segment", "image"} /\ sh' = "mapping"
    /\ BuildStack
    /\ UNCHANGED <<vars, argv, calls, lines, line, cwd, where, dirs, last, format>>

ImageFrames == (LEN + PAGE - 1) \div PAGE
ImagePages == {USER_LOAD_ADDR + k * PAGE : k \in 0 .. ImageFrames - 1}

\* user_process_map_loaded_image, or its failure for want of a frame.
MapImage ==
    /\ sh = "mapping" /\ pc = "image"
    /\ \/ /\ ImageFrames <= USER_MAX_IMAGE_FRAMES
          /\ pages' = [v \in ImagePages |-> [b \in 0 .. PAGE - 1 |->
                LET off == v - USER_LOAD_ADDR + b IN IF off < LEN THEN off + 1 ELSE 0]]
          /\ regions' = 2 /\ pc' = "loaded"
       \/ pc' = "failed" /\ UNCHANGED <<pages, regions>>
    /\ UNCHANGED <<file, i, va, frames, stackVars, calls, shellVars>>

\* user_map_elf_segments, and the system calls of the program.
Program == sh = "mapping" /\ stack_entry # 0 /\ UNext /\ UNCHANGED shellVars

TypedWords == Words(line, " ")

\* SYS_OPEN of an argument, once its path has been copied: the location that
\* vfs_open_at looks up.
OpenPath ==
    LET copied == [k \in 1 .. n - 1 |-> stack[call.ptr + k - 1][2]]
        path == resolve_simple_path(copied)
        loc == fat_location(path)
    IN
    /\ sh = "mapping" /\ at = "done" /\ call.kind = "arg"
    /\ last' = [who |-> "OPEN", input |-> IF call.len = 1 THEN argv[1] ELSE TypedWords[call.len],
                from |-> <<>>, ok |-> loc # <<>>, at |-> loc]
    /\ sh' = "opened"
    /\ UNCHANGED <<vars, stackVars, calls, lines, line, cwd, where, dirs, format>>

LNext ==
    \/ Cd \/ ChangeDirs("MKDIR") \/ ChangeDirs("RMDIR") \/ Run
    \/ FlatHeader \/ ElfHeader \/ PrepareStack \/ MapImage
    \/ Program \/ OpenPath

LSpec == LInit /\ [][LNext]_launchVars

-----------------------------------------------------------------------------

\* The start-up code of every program finds on its stack what was typed behind
\* RUN: argc, argv and envp with their NULLs, and as arguments a path that
\* leads to the program and the words of the line, each cut to its length, no
\* more of them than there is room for; whatever the spaces in the line and
\* the lengths of the words.  No program is refused because of its arguments,
\* and process->argv never holds more than it has room for.
ArgvAsTyped ==
    /\ ArgvType(NameChar \cup {".", "/"})
    /\ sh = "mapping" => stack_entry # 0
    /\ pc = "loaded" =>
          /\ ArgvArrives
          /\ Len(ArgsFound) = Min({Len(TypedWords), USER_MAX_ARGS})
          /\ fat_location(ArgsFound[1]) = ProgramAt
          /\ \A k \in 2 .. Len(ArgsFound) :
                ArgsFound[k] = Truncated(TypedWords[k], USER_ARG_MAX - 1)

\* What a path means to a user: the names in it, one below the other, from the
\* root directory or from where the user is, in capitals or not.
NamesIn(s) ==
    LET capital == [k \in DOMAIN s |-> IF s[k] \in DOMAIN UpperOf THEN UpperOf[s[k]] ELSE s[k]]
        names == SelectSeq(Words(capital, "/"), LAMBDA w : w # <<".">>)
    IN  [k \in DOMAIN names |-> name_to_83(names[k])]
Meant == (IF last.input[1] = "/" THEN <<>> ELSE last.from) \o NamesIn(last.input)

\* A path of proper names that is not too long.
Proper ==
    /\ last.input # <<>> /\ last.input[Len(last.input)] # "/"
    /\ \A w \in ToSet(Words(last.input, "/")) : name_is_valid_83(w)
    /\ Len(last.input) + (IF last.input[1] = "/" \/ last.who = "OPEN" THEN 0 ELSE Len(cwd) + 1)
       < VFS_MAX_PATH

\* Strings are joined, cut and converted on the way from the line to the disk,
\* by the shell against its current directory and by the VFS for a program;
\* yet the location that is looked up is the one the path means, shell_cwd
\* stays a path to where the user has gone, and proper paths are refused only
\* because of what is on the disk, also after the current directory has been
\* removed.  The name that LS prints for an entry leads back to it.
PathsMean ==
    /\ last.ok => last.at = Meant
    /\ fat_location(cwd) = where
    /\ ~last.ok /\ Proper =>
          CASE last.who = "CD" -> Meant \notin dirs
            [] last.who = "MKDIR" -> Exists(Meant) \/ ~Reachable(Meant)
            [] last.who = "RMDIR" -> Meant \notin dirs \/ Below(Meant) # {}
            [] last.who = "RUN" -> Meant # ProgramAt \/ ~Reachable(Meant)
            [] OTHER -> Len(last.input) >= USER_ARG_MAX
    /\ \A k \in DOMAIN last.at : LET shown == name_from_83(last.at[k]) IN
          name_is_valid_83(shown) /\ name_to_83(shown) = last.at[k]

=============================================================================
