-------------------------------- MODULE Vfs --------------------------------
(***************************************************************************)
(* Open files: the table of handles of fs/vfs.c, the descriptors of the    *)
(* user processes (cpu/user_mode.c) that point into it, and the shell,     *)
(* whose file commands go to the file system directly.  Of the file system *)
(* this module knows what Files promises.                                  *)
(*                                                                         *)
(* A system call runs with interrupts off and is one step.  The end of a   *)
(* process and the shell run with interrupts on: closing the descriptors   *)
(* of a process takes two steps for each, the handle and then the entry.   *)
(* VFSTEST, the one command of the shell that takes a handle, opens its    *)
(* file in two.  The current directory is always the root, so a path means *)
(* the same to everyone.  One program is entered at a time; what two at    *)
(* once do to each other is the subject of Processes.                      *)
(***************************************************************************)
EXTENDS Files

CONSTANTS
    Proc,              \* slots of the process table
    HANDLES,           \* VFS_MAX_OPEN_FILES
    FDS,               \* descriptors of a process for files
    WORD,              \* 2^32
    Flags,             \* the flags programs open files with
    Length,            \* the lengths they read
    Offset,            \* the offsets they seek
    PATIENT            \* the shell starts and reaps only when no task is closing,
                       \* and no program runs while VFSTEST opens its file

ASSUME VfsAssumption ==
    /\ HANDLES \in Nat \ {0} /\ FDS \in Nat \ {0} /\ WORD \in Nat
    /\ MAX_FILE_BYTES \in Nat /\ 2 * MAX_FILE_BYTES < WORD
    /\ Flags \subseteq [mode : {"RDONLY", "WRONLY", "RDWR"},
                        create : BOOLEAN, trunc : BOOLEAN, append : BOOLEAN]
    /\ Length \subseteq Nat /\ Offset \subseteq 0 .. WORD - 1
    /\ PATIENT \in BOOLEAN
    /\ "shell" \notin Proc
    /\ Payload \subseteq Seq(Nat)

VARIABLES
    open_files,        \* handle -> vfs_file_t
    fds,               \* process -> descriptor -> handle, or NONE
    state,             \* process -> unused, running or dead
    current,           \* current_user_process
    test,              \* VFSTEST: where it is, and its handle and file
    loop,              \* user_process_close_fds under way, for each who may run it
    stale              \* handles whose file someone else has changed since

vars == <<tree, ret, open_files, fds, state, current, test, loop, stale>>

Handle == 0 .. HANDLES - 1
Fd == 1 .. FDS
NONE == -1
Shell == "shell"
Closer == Proc \cup {Shell}

NoTest == [at |-> "none", h |-> NONE, path |-> <<>>]
Idle == [of |-> Shell, fd |-> 1, shut |-> FALSE]
Closing(p) == [of |-> p, fd |-> 1, shut |-> FALSE]

\* An unused handle; what else the code leaves in it is not read again.
Unused == [used |-> FALSE, path |-> <<>>, size |-> 0, offset |-> 0,
           append |-> FALSE, readable |-> FALSE, writable |-> FALSE]

VInit ==
    /\ Init
    /\ open_files = [h \in Handle |-> Unused]
    /\ fds = [p \in Proc |-> [f \in Fd |-> NONE]]
    /\ state = [p \in Proc |-> "unused"] /\ current = NONE
    /\ test = NoTest /\ loop = [c \in Closer |-> Idle]
    /\ stale = {}

-----------------------------------------------------------------------------
(* fs/vfs.c *)

ReadOnly == [mode |-> "RDONLY", create |-> FALSE, trunc |-> FALSE, append |-> FALSE]
flags_readable(g) == g.mode = "RDWR" \/ g = ReadOnly
flags_writable(g) == g.mode \in {"WRONLY", "RDWR"}
vfs_flags_valid(g) == ~(g.trunc /\ g.append) /\ (g.mode = "RDONLY" => ~g.trunc /\ ~g.append)

Free == {h \in Handle : ~open_files[h].used}
find_free_handle == CHOOSE h \in Free : \A k \in Free : h <= k

Size(t, path) == Len(t[path].data)
FileIn(t, path) == path \in DOMAIN t /\ ~t[path].dir

\* The handles on the paths that a step changes are stale, but not the one
\* the step refreshed.
Touched(fresh) ==
    {h \in Handle : LET f == open_files'[h] IN
        /\ f.used /\ h # fresh
        /\ \/ h \in stale
           \/ (f.path \in DOMAIN tree) # (f.path \in DOMAIN tree')
           \/ f.path \in DOMAIN tree /\ f.path \in DOMAIN tree' /\ tree[f.path] # tree'[f.path]}

\* vfs_open_at once the arguments are valid and a handle is free: the file is
\* created, emptied and entered in the table.
Enter(h, path, g, t) ==
    /\ tree' = t /\ ret' = "ok"
    /\ open_files' = [open_files EXCEPT ![h] =
          [used |-> TRUE, path |-> path, size |-> Size(t, path),
           offset |-> IF g.append THEN Size(t, path) ELSE 0, append |-> g.append,
           readable |-> flags_readable(g), writable |-> flags_writable(g)]]

vfs_open_at(h, path, g) ==
    /\ vfs_flags_valid(g) /\ Free # {} /\ h = find_free_handle
    /\ \/ IsFile(path) /\ Enter(h, path, g, IF g.trunc THEN Put(path, File(<<>>)) ELSE tree)
       \/ /\ ~Exists(path) /\ g.create /\ IsDir(Parent(path))
          /\ Enter(h, path, g, Put(path, File(<<>>)))

\* The bytes that vfs_read delivers: none at the size the handle remembers,
\* and otherwise those that are in the file now.
ReadLength(f, len) ==
    IF f.offset >= f.size \/ f.offset >= Size(tree, f.path) THEN 0
    ELSE IF len < Size(tree, f.path) - f.offset THEN len ELSE Size(tree, f.path) - f.offset

vfs_read(h, len) ==
    LET f == open_files[h] IN
    /\ f.used /\ f.readable /\ (f.offset < f.size => IsFile(f.path))
    /\ open_files' = [open_files EXCEPT ![h].offset =
                         @ + IF f.offset < f.size THEN ReadLength(f, len) ELSE 0]
    /\ UNCHANGED <<tree, ret>>

\* Mutant of Backend: appending writes at the offset the handle remembers.
Backend_Offset(f, src) == WriteAt(f.path, f.offset, src)

\* What a write does to the file.
Backend(f, src) == IF f.append THEN Append_(f.path, src) ELSE WriteAt(f.path, f.offset, src)

\* Mutant of Refreshed: the remembered size stays.
Refreshed_Not(f, src) == [f EXCEPT !.offset = IF f.append THEN f.size ELSE f.offset + Len(src)]

\* The handle after a write: size from the directory entry, if there is one.
Refreshed(f, src) ==
    LET size == IF f.path \in DOMAIN tree' THEN Size(tree', f.path) ELSE f.size
    IN  [f EXCEPT !.size = size, !.offset = IF f.append THEN size ELSE f.offset + Len(src)]

vfs_write(h, src) ==
    LET f == open_files[h] IN
    /\ f.used /\ f.writable
    /\ Backend(f, src)
    /\ open_files' = IF ret' = "ok" THEN [open_files EXCEPT ![h] = Refreshed(f, src)]
                     ELSE open_files

\* The new offset, or refused when the sum wraps around.
vfs_lseek(h, offset, whence) ==
    LET f == open_files[h]
        base == CASE whence = "SET" -> 0 [] whence = "CUR" -> f.offset [] whence = "END" -> f.size
        new == (base + offset) % WORD
    IN  /\ f.used /\ new >= base
        /\ open_files' = [open_files EXCEPT ![h].offset = new]
        /\ UNCHANGED <<tree, ret>>

\* Mutant of vfs_close: the next handle is closed.
vfs_close_Next(table, h) == [table EXCEPT ![(h + 1) % HANDLES] = Unused]

vfs_close(table, h) == [table EXCEPT ![h] = Unused]

-----------------------------------------------------------------------------
(* System calls on descriptors *)

\* A system call of the running program is about current_user_process.
Calls(p) == p = current /\ state[p] = "running" /\ (PATIENT => test.at # "opening")

FreeFd(p) == {f \in Fd : fds[p][f] = NONE}

Open(p, path, g) ==
    /\ Calls(p) /\ FreeFd(p) # {}
    /\ \E h \in Handle :
          /\ vfs_open_at(h, path, g)
          /\ fds' = [fds EXCEPT ![p][CHOOSE f \in FreeFd(p) : \A k \in FreeFd(p) : f <= k] = h]
          /\ stale' = Touched(h)
    /\ UNCHANGED <<state, current, test, loop>>

\* A call on a descriptor that is open.
On(p, f) == Calls(p) /\ fds[p][f] # NONE

Read(p, f, len) ==
    /\ On(p, f) /\ vfs_read(fds[p][f], len)
    /\ UNCHANGED <<fds, state, current, test, loop, stale>>

WriteFd(p, f, src) ==
    /\ On(p, f) /\ vfs_write(fds[p][f], src)
    /\ stale' = Touched(IF ret' = "ok" /\ FileIn(tree', open_files[fds[p][f]].path)
                        THEN fds[p][f] ELSE NONE)
    /\ UNCHANGED <<fds, state, current, test, loop>>

Lseek(p, f, offset, whence) ==
    /\ On(p, f) /\ vfs_lseek(fds[p][f], offset, whence)
    /\ UNCHANGED <<fds, state, current, test, loop, stale>>

Close(p, f) ==
    /\ On(p, f)
    /\ open_files' = vfs_close(open_files, fds[p][f])
    /\ fds' = [fds EXCEPT ![p][f] = NONE]
    /\ stale' = stale \ {fds[p][f]}
    /\ UNCHANGED <<tree, ret, state, current, test, loop>>

-----------------------------------------------------------------------------
(* Processes come and go *)

ShellIdle == loop[Shell] = Idle /\ test = NoTest
Settled == PATIENT => \A p \in Proc : loop[p] = Idle

\* A new process in a free slot is entered: user_process_init_fds and, when
\* its task runs, run_user_process.
Start(p) ==
    /\ state[p] = "unused" /\ ShellIdle /\ Settled
    /\ \A q \in Proc : state[q] # "running"
    /\ state' = [state EXCEPT ![p] = "running"] /\ current' = p
    /\ fds' = [fds EXCEPT ![p] = [f \in Fd |-> NONE]]
    /\ UNCHANGED <<tree, ret, open_files, test, loop, stale>>

\* The program ends: the process is marked dead, then its own task closes.
Exit(p) ==
    /\ Calls(p) /\ loop[p] = Idle
    /\ state' = [state EXCEPT ![p] = "dead"]
    /\ loop' = [loop EXCEPT ![p] = Closing(p)]
    /\ UNCHANGED <<tree, ret, open_files, fds, current, test, stale>>

\* The shell kills it and closes in its place.
Kill(p) ==
    /\ state[p] = "running" /\ ShellIdle
    /\ state' = [state EXCEPT ![p] = "dead"]
    /\ loop' = [loop EXCEPT ![Shell] = Closing(p)]
    /\ UNCHANGED <<tree, ret, open_files, fds, current, test, stale>>

\* user_process_reap, user_process_clear: the slot is free, and its
\* descriptors are closed once more.
Reap(p) ==
    /\ state[p] = "dead" /\ p # current /\ ShellIdle /\ Settled
    /\ state' = [state EXCEPT ![p] = "unused"]
    /\ loop' = [loop EXCEPT ![Shell] = Closing(p)]
    /\ UNCHANGED <<tree, ret, open_files, fds, current, test, stale>>

\* user_process_close_fds, first half of an iteration: the handle.
Shut(c) ==
    LET l == loop[c]
        h == fds[l.of][l.fd]
    IN  /\ l # Idle /\ ~l.shut
        /\ open_files' = IF h = NONE THEN open_files ELSE vfs_close(open_files, h)
        /\ stale' = stale \ {h}
        /\ loop' = [loop EXCEPT ![c].shut = TRUE]
        /\ UNCHANGED <<tree, ret, fds, state, current, test>>

\* Second half: the entry of the descriptor.  The task of a program that
\* ended then clears current_user_process, whoever that is.
Forget(c) ==
    LET l == loop[c] IN
    /\ l # Idle /\ l.shut
    /\ fds' = [fds EXCEPT ![l.of][l.fd] = NONE]
    /\ loop' = [loop EXCEPT ![c] =
                  IF l.fd = FDS THEN Idle ELSE [l EXCEPT !.fd = @ + 1, !.shut = FALSE]]
    /\ current' = IF l.fd = FDS /\ c # Shell THEN NONE ELSE current
    /\ UNCHANGED <<tree, ret, open_files, state, test, stale>>

\* A file command of the shell.
Command ==
    /\ ShellIdle
    /\ \E p \in Path :
          \/ Create(p) \/ Mkdir(p) \/ Delete(p) \/ Rmdir(p)
          \/ \E q \in Path : Rename(p, q)
          \/ \E src \in Payload : Write(p, src) \/ Append_(p, src)
    /\ UNCHANGED <<open_files, fds, state, current, test, loop>>
    /\ stale' = Touched(NONE)

\* VFSTEST, vfs_open as far as the choice of a handle and the test of the file.
TestPick(path) ==
    /\ ShellIdle /\ Free # {} /\ IsFile(path)
    /\ test' = [at |-> "opening", h |-> find_free_handle, path |-> path]
    /\ UNCHANGED <<tree, ret, open_files, fds, state, current, loop, stale>>

\* The rest of vfs_open.
TestEnter ==
    /\ test.at = "opening" /\ test' = [test EXCEPT !.at = "open"]
    /\ Enter(test.h, test.path, ReadOnly, tree)
    /\ UNCHANGED <<fds, state, current, loop, stale>>

\* It reads on, or closes when a read fails or brings nothing.
TestRead(len) ==
    LET f == open_files[test.h] IN
    /\ test.at = "open"
    /\ IF IsFile(f.path) /\ ReadLength(f, len) > 0
       THEN vfs_read(test.h, len) /\ UNCHANGED <<test, stale>>
       ELSE /\ open_files' = vfs_close(open_files, test.h)
            /\ test' = NoTest /\ stale' = stale \ {test.h}
            /\ UNCHANGED <<tree, ret>>
    /\ UNCHANGED <<fds, state, current, loop>>

VNext ==
    \/ \E p \in Proc :
          \/ Start(p) \/ Exit(p) \/ Kill(p) \/ Reap(p)
          \/ \E path \in Path, g \in Flags : Open(p, path, g)
          \/ \E f \in Fd :
                \/ Close(p, f)
                \/ \E len \in Length : Read(p, f, len)
                \/ \E src \in Payload : WriteFd(p, f, src)
                \/ \E offset \in Offset, whence \in {"SET", "CUR", "END"} :
                      Lseek(p, f, offset, whence)
    \/ \E c \in Closer : Shut(c) \/ Forget(c)
    \/ Command
    \/ \E path \in Path : TestPick(path)
    \/ TestEnter
    \/ \E len \in Length : TestRead(len)

VSpec == VInit /\ [][VNext]_vars

-----------------------------------------------------------------------------
(* Properties *)

TypeOK ==
    /\ fds \in [Proc -> [Fd -> Handle \cup {NONE}]]
    /\ state \in [Proc -> {"unused", "running", "dead"}] /\ current \in Proc \cup {NONE}
    /\ test \in [at : {"none", "opening", "open"}, h : Handle \cup {NONE}, path : Path \cup {<<>>}]
    /\ loop \in [Closer -> [of : Closer, fd : Fd, shut : BOOLEAN]]
    /\ open_files \in [Handle -> [used : BOOLEAN, path : Path \cup {<<>>},
                                  size : 0 .. MAX_FILE_BYTES, offset : 0 .. WORD - 1,
                                  append : BOOLEAN, readable : BOOLEAN, writable : BOOLEAN]]
    /\ stale \subseteq Handle

\* The descriptors that count: those of running processes, and of dead ones
\* those that are still to be closed; and VFSTEST.
Shutting(p, f) == \E c \in Closer : LET l == loop[c] IN
    l # Idle /\ l.of = p /\ (f < l.fd \/ (f = l.fd /\ l.shut))
Holds(c, f, h) ==
    IF c = Shell THEN f = 1 /\ test.at = "open" /\ test.h = h
    ELSE fds[c][f] = h /\ ~Shutting(c, f)
Holders(h) == {d \in Closer \X Fd : Holds(d[1], d[2], h)}

\* Every handle in use belongs to exactly one descriptor and every open
\* descriptor has a handle in use: no process reads, moves or closes the
\* file of another, and no end of a process leaves a handle behind or closes
\* one that somebody else has opened since.  (Variables have their types.)
HandleOwnedOnce ==
    /\ TypeOK
    /\ \A h \in Handle :
          /\ open_files[h].used => \E d \in Holders(h) : Holders(h) = {d}
          /\ ~open_files[h].used => Holders(h) = {}

\* A handle remembers the size of its file correctly as long as nobody else
\* has changed the file: what the process itself wrote it can read back.
SizeFresh ==
    \A h \in Handle : LET f == open_files[h] IN
        f.used /\ h \notin stale => IsFile(f.path) /\ f.size = Size(tree, f.path)

\* Whatever others have written since, a write through a handle opened for
\* appending changes no byte that is already in the file.
AppendKeeps ==
    [][\A p \in Proc, f \in Fd, src \in Payload :
          WriteFd(p, f, src) /\ open_files[fds[p][f]].append =>
              \A path \in DOMAIN tree :
                  SubSeq(tree'[path].data, 1, Len(tree[path].data)) = tree[path].data]_vars

=============================================================================
