------------------------------- MODULE Memory -------------------------------
(***************************************************************************)
(* Physical memory: the frame allocator, the address spaces built from its *)
(* frames, and the loaders that build them.  Only the shell allocates and  *)
(* frees, so its commands are sequences of steps of one actor; memory may  *)
(* run out at every step.  Programs end on their own.                      *)
(*                                                                         *)
(* A page is a pair: its entry in the page directory and its entry in the  *)
(* page table.  Entry 0 of the directory is the low page table that every  *)
(* address space has from the start.                                       *)
(***************************************************************************)
EXTENDS Integers, Sequences, FiniteSets

CONSTANTS
    FRAMES,            \* frames of the machine
    SLOTS,             \* MAX_USER_PROCESSES and MAX_ADDRESS_SPACES
    TASKS,             \* MAX_TASKS
    PDES,              \* entries of a page directory after the first
    MAX_IMAGE,         \* USER_MAX_IMAGE_FRAMES
    MAX_ELF,           \* USER_MAX_ELF_FRAMES
    Images             \* the pages that ELF files ask for, in order

ASSUME MemoryAssumption ==
    /\ {FRAMES, SLOTS, TASKS, PDES, MAX_IMAGE, MAX_ELF} \subseteq Nat
    /\ Images \subseteq Seq((0 .. PDES) \X Nat)

VARIABLES
    used,              \* frame_bitmap
    dir, low, tables,  \* user_spaces: page directory, low table, other tables
    page,              \* user_spaces: page -> frame
    state,             \* process -> unused, ready, live or dead
    space,             \* process -> its address space, or 0
    stack,             \* process -> user_stack_frame, or 0
    image, elf,        \* process -> image_frames, elf_frames
    runs,              \* process -> its task, or 0
    task,              \* task -> frame of its kernel stack, 0 or NONE
    kstacks,           \* every frame that was made a kernel stack
    kept,              \* frames that FALLOC keeps
    shell              \* the command under way

vars == <<used, dir, low, tables, page, state, space, stack, image, elf, runs,
          task, kstacks, kept, shell>>
spaces == <<dir, low, tables, page>>
procs == <<state, space, stack, image, elf, runs>>

Frame == 1 .. FRAMES
Proc == 1 .. SLOTS
Space == 1 .. SLOTS
Task == 1 .. TASKS
Pde == 1 .. PDES
NONE == -1
StackPage == <<0, 0>>
ImagePage(i) == <<0, i>>

Idle == [pc |-> "idle", p |-> 0, kind |-> "none", todo |-> <<>>]
At(point) == shell.pc = point
Go(point) == shell' = [shell EXCEPT !.pc = point]

Init ==
    /\ used = {}
    /\ dir = [s \in Space |-> 0] /\ low = [s \in Space |-> 0]
    /\ tables = [s \in Space |-> [d \in Pde |-> 0]]
    /\ page = [s \in Space |-> [v \in {} |-> 0]]
    /\ state = [p \in Proc |-> "unused"] /\ space = [p \in Proc |-> 0]
    /\ stack = [p \in Proc |-> 0]
    /\ image = [p \in Proc |-> <<>>] /\ elf = [p \in Proc |-> <<>>]
    /\ runs = [p \in Proc |-> 0] /\ task = [t \in Task |-> NONE]
    /\ kstacks = {} /\ kept = {} /\ shell = Idle

-----------------------------------------------------------------------------
(* memory/frame_alloc.c *)

Lowest(S) == CHOOSE x \in S : \A y \in S : x <= y

\* Mutant of alloc_frame: the frame is not marked.
alloc_frame_Unmarked(f) ==
    /\ f = (IF used = Frame THEN 0 ELSE Lowest(Frame \ used))
    /\ UNCHANGED used

\* The lowest free frame, or 0.
alloc_frame(f) ==
    /\ f = (IF used = Frame THEN 0 ELSE Lowest(Frame \ used))
    /\ used' = used \cup ({f} \ {0})

-----------------------------------------------------------------------------
(* Giving back *)

Frames(seq) == {seq[i] : i \in DOMAIN seq}

\* Mutant of OfSpace: the page tables are forgotten.
OfSpace_NoTables(s) == {dir[s], low[s]} \ {0}

\* The frames user_process_clear frees itself, and those that
\* address_space_destroy frees for it.
OfProcess(p) == ({stack[p]} \cup Frames(image[p]) \cup Frames(elf[p])) \ {0}
OfSpace(s) == ({dir[s], low[s]} \cup {tables[s][d] : d \in Pde}) \ {0}

\* user_process_clear.
Clear(p) ==
    LET s == space[p] IN
    /\ used' = used \ (OfProcess(p) \cup (IF s = 0 THEN {} ELSE OfSpace(s)))
    /\ state' = [state EXCEPT ![p] = "unused"] /\ space' = [space EXCEPT ![p] = 0]
    /\ stack' = [stack EXCEPT ![p] = 0]
    /\ image' = [image EXCEPT ![p] = <<>>] /\ elf' = [elf EXCEPT ![p] = <<>>]
    /\ runs' = [runs EXCEPT ![p] = 0]
    /\ IF s = 0 THEN UNCHANGED spaces
       ELSE /\ dir' = [dir EXCEPT ![s] = 0] /\ low' = [low EXCEPT ![s] = 0]
            /\ tables' = [tables EXCEPT ![s] = [d \in Pde |-> 0]]
            /\ page' = [page EXCEPT ![s] = [v \in {} |-> 0]]
    /\ UNCHANGED <<task, kstacks, kept>>

Fail == Clear(shell.p) /\ shell' = Idle

-----------------------------------------------------------------------------
(* Loading a program *)

\* RUN, RUNELF, USERTEST, USERFAULT and ELFTEST begin alike: the first free
\* slot is taken and emptied.
Begin(kind, todo) ==
    LET free == {p \in Proc : state[p] = "unused"} IN
    /\ At("idle") /\ free # {}
    /\ LET p == Lowest(free) IN
          /\ state' = [state EXCEPT ![p] = "ready"]
          /\ shell' = [pc |-> "dir", p |-> p, kind |-> kind, todo |-> todo]
    /\ UNCHANGED <<used, spaces, space, stack, image, elf, runs, task, kstacks, kept>>

\* The file is no longer than the frames allowed for it.
RunFlat == \E n \in 1 .. MAX_IMAGE : Begin("flat", [i \in 1 .. n |-> ImagePage(i)])
RunElf == \E todo \in Images : Begin("elf", todo)
CheckElf == \E todo \in Images : Begin("check", todo)
StartBuiltin == Begin("builtin", <<>>)

\* Mutant of FreeSpaces: any address space is taken.
FreeSpaces_All == Space

FreeSpaces == {s \in Space : dir[s] = 0}
Undo(s) == dir' = [dir EXCEPT ![s] = 0]

\* address_space_create_user: a page directory, then the low table.
CreateDir ==
    /\ At("dir")
    /\ IF FreeSpaces = {} \/ used = Frame THEN Fail
       ELSE \E f \in Frame :
              /\ alloc_frame(f)
              /\ dir' = [dir EXCEPT ![Lowest(FreeSpaces)] = f]
              /\ shell' = [shell EXCEPT !.pc = "low", !.todo = <<Lowest(FreeSpaces), @>>]
              /\ UNCHANGED <<low, tables, page, procs, task, kstacks, kept>>

CreateLow ==
    LET s == shell.todo[1] IN
    /\ At("low")
    /\ \/ /\ used = Frame
          /\ used' = used \ {dir[s]} /\ Undo(s)
          /\ shell' = [shell EXCEPT !.pc = "none", !.todo = <<>>]
          /\ UNCHANGED <<low, tables, page, procs, task, kstacks, kept>>
       \/ \E f \in Frame :
          /\ used # Frame /\ alloc_frame(f)
          /\ low' = [low EXCEPT ![s] = f]
          /\ space' = [space EXCEPT ![shell.p] = s]
          /\ shell' = [shell EXCEPT !.pc = IF shell.kind = "check" THEN "pages" ELSE "stack",
                                    !.todo = @[2]]
          /\ UNCHANGED <<dir, tables, page, state, stack, image, elf, runs, task,
                         kstacks, kept>>

\* "no address space".
NoSpace == At("none") /\ Fail

\* address_space_map_page once the page table is there.
Map(s, v, f) == page' = [page EXCEPT ![s] =
                    [w \in DOMAIN page[s] \cup {v} |-> IF w = v THEN f ELSE page[s][w]]]

\* user_process_map_stack.  The arguments written next always fit in it.
MapStack ==
    /\ At("stack")
    /\ IF used = Frame THEN Fail
       ELSE \E f \in Frame :
              /\ alloc_frame(f) /\ Map(space[shell.p], StackPage, f)
              /\ stack' = [stack EXCEPT ![shell.p] = f]
              /\ Go("pages")
              /\ UNCHANGED <<dir, low, tables, state, space, image, elf, runs, task,
                             kstacks, kept>>

\* user_process_map_loaded_image, one page.
MapImage ==
    LET p == shell.p IN
    /\ At("pages") /\ shell.kind = "flat" /\ shell.todo # <<>>
    /\ IF used = Frame THEN Fail
       ELSE \E f \in Frame :
              /\ alloc_frame(f) /\ Map(space[p], Head(shell.todo), f)
              /\ image' = [image EXCEPT ![p] = Append(@, f)]
              /\ shell' = [shell EXCEPT !.todo = Tail(@)]
              /\ UNCHANGED <<dir, low, tables, state, space, stack, elf, runs, task,
                             kstacks, kept>>

TooMany(p) == Len(elf[p]) >= MAX_ELF

\* elf_map_segment, one page: a frame, filled from the file; where the page
\* table is missing, a second frame for it.  A failure frees the frame that
\* the process does not own yet, and what it owns in user_process_clear.
MapElf ==
    LET p == shell.p
        s == space[p]
        v == Head(shell.todo)
        missing == v[1] # 0 /\ tables[s][v[1]] = 0
        free == Frame \ used
        f == Lowest(free)
        g == Lowest(free \ {f})
    IN
    /\ At("pages") /\ shell.kind \in {"elf", "check"} /\ shell.todo # <<>>
    /\ \/ TooMany(p) /\ Fail
       \/ Cardinality(free) < (IF missing THEN 2 ELSE 1) /\ Fail
       \/ Fail                        \* bad data, bad range, too many regions
       \/ /\ ~TooMany(p)
          /\ Cardinality(free) >= (IF missing THEN 2 ELSE 1)
          /\ used' = used \cup (IF missing THEN {f, g} ELSE {f})
          /\ tables' = IF missing THEN [tables EXCEPT ![s][v[1]] = g] ELSE tables
          /\ Map(s, v, f)
          /\ elf' = [elf EXCEPT ![p] = Append(@, f)]
          /\ shell' = [shell EXCEPT !.todo = Tail(@)]
          /\ UNCHANGED <<dir, low, state, space, stack, image, runs, task, kstacks, kept>>

\* ELFTEST gives everything back.
Checked == At("pages") /\ shell.todo = <<>> /\ shell.kind = "check" /\ Fail

\* create_task: a kernel stack, whether there is a frame for it or not.
CreateTask(t) ==
    \E f \in Frame \cup {0} :
        /\ alloc_frame(f)
        /\ task' = [task EXCEPT ![t] = f]
        /\ kstacks' = kstacks \cup ({f} \ {0})

FreeTasks == {t \in Task : task[t] = NONE}

\* spawn_task for the new process.
Spawn ==
    /\ At("pages") /\ shell.todo = <<>> /\ shell.kind # "check"
    /\ IF FreeTasks = {} THEN Fail
       ELSE /\ CreateTask(Lowest(FreeTasks))
            /\ state' = [state EXCEPT ![shell.p] = "live"]
            /\ runs' = [runs EXCEPT ![shell.p] = Lowest(FreeTasks)]
            /\ shell' = Idle
            /\ UNCHANGED <<spaces, space, stack, image, elf, kept>>

-----------------------------------------------------------------------------

\* A program ends, faults or is killed.
Die(p) ==
    /\ state[p] = "live"
    /\ state' = [state EXCEPT ![p] = "dead"]
    /\ UNCHANGED <<used, spaces, space, stack, image, elf, runs, task, kstacks, kept, shell>>

Reap(p) == At("idle") /\ state[p] = "dead" /\ Clear(p) /\ UNCHANGED shell

\* One thread of TASKTEST.
SpawnThread ==
    /\ At("idle") /\ FreeTasks # {}
    /\ CreateTask(Lowest(FreeTasks))
    /\ UNCHANGED <<spaces, procs, kept, shell>>

\* task_reap_exited, task_remove: the slot is free again.
ReapTask(t) ==
    /\ At("idle") /\ task[t] # NONE
    /\ \A p \in Proc : runs[p] = t => state[p] = "dead"
    /\ task' = [task EXCEPT ![t] = NONE]
    /\ UNCHANGED <<used, spaces, procs, kstacks, kept, shell>>

\* FALLOC allocates four times and gives back what it got the third time,
\* which the fourth call gets again.
Falloc ==
    LET free == Frame \ used
        keep == {f \in free : Cardinality({g \in free : g < f}) < 3} IN
    /\ At("idle")
    /\ used' = used \cup keep /\ kept' = kept \cup keep
    /\ UNCHANGED <<spaces, procs, task, kstacks, shell>>

Next ==
    \/ RunFlat \/ RunElf \/ CheckElf \/ StartBuiltin
    \/ CreateDir \/ CreateLow \/ NoSpace \/ MapStack
    \/ MapImage \/ MapElf \/ Checked \/ Spawn
    \/ \E p \in Proc : Die(p) \/ Reap(p)
    \/ SpawnThread \/ \E t \in Task : ReapTask(t)
    \/ Falloc

Spec == Init /\ [][Next]_vars

-----------------------------------------------------------------------------

\* Every variable has its type.
TypeOK ==
    /\ used \subseteq Frame /\ kstacks \subseteq Frame /\ kept \subseteq Frame
    /\ dir \in [Space -> Frame \cup {0}] /\ low \in [Space -> Frame \cup {0}]
    /\ tables \in [Space -> [Pde -> Frame \cup {0}]]
    /\ \A s \in Space : \A v \in DOMAIN page[s] : page[s][v] \in Frame
    /\ state \in [Proc -> {"unused", "ready", "live", "dead"}]
    /\ space \in [Proc -> Space \cup {0}] /\ stack \in [Proc -> Frame \cup {0}]
    /\ image \in [Proc -> Seq(Frame)] /\ elf \in [Proc -> Seq(Frame)]
    /\ \A p \in Proc : Len(image[p]) <= MAX_IMAGE /\ Len(elf[p]) <= MAX_ELF
    /\ runs \in [Proc -> Task \cup {0}] /\ task \in [Task -> Frame \cup {0, NONE}]

\* Who holds a frame: every field that free_frame would be called on, the
\* kernel stacks, and FALLOC.
Dirs(f) == {<<"dir", s>> : s \in {s \in Space : dir[s] = f}}
Lows(f) == {<<"low", s>> : s \in {s \in Space : low[s] = f}}
Tables(f) == {<<"table", x>> : x \in {x \in Space \X Pde : tables[x[1]][x[2]] = f}}
Stacks(f) == {<<"stack", p>> : p \in {p \in Proc : stack[p] = f}}
ImageFrames(f) ==
    UNION {{<<"image", p, i>> : i \in {i \in DOMAIN image[p] : image[p][i] = f}} : p \in Proc}
ElfFrames(f) ==
    UNION {{<<"elf", p, i>> : i \in {i \in DOMAIN elf[p] : elf[p][i] = f}} : p \in Proc}
KernelStacks(f) == {<<"kstack", x>> : x \in kstacks \cap {f}}
Kept(f) == {<<"kept", x>> : x \in kept \cap {f}}
Holders(f) == Dirs(f) \cup Lows(f) \cup Tables(f) \cup Stacks(f)
              \cup ImageFrames(f) \cup ElfFrames(f) \cup KernelStacks(f) \cup Kept(f)

\* No frame has two holders, and a held frame is marked in the bitmap: no
\* command, however it fails, frees a frame twice or hands out one in use.
\* (Variables have their types.)
FramesOwnedOnce ==
    /\ TypeOK
    /\ \A f \in Frame : LET h == Holders(f) IN Cardinality(h) <= 1 /\ (h # {} => f \in used)

\* A marked frame has a holder: alloc_frame's result is never dropped by
\* the error paths of the loaders, nor by user_process_clear.  Between commands
\* every page directory belongs to a process, and no process is left half
\* built.
NothingLost ==
    /\ \A f \in used : Holders(f) # {}
    /\ At("idle") =>
          /\ \A s \in Space : dir[s] # 0 => \E p \in Proc : space[p] = s
          /\ \A p \in Proc : state[p] # "ready"

\* The pages mapped for a program are frames of that program, reached
\* through tables of its own address space, which no other process uses.
Isolation ==
    \A p \in Proc : space[p] # 0 =>
        /\ \A q \in Proc \ {p} : space[q] # space[p]
        /\ \A v \in DOMAIN page[space[p]] :
              /\ page[space[p]][v] \in OfProcess(p)
              /\ v[1] = 0 \/ tables[space[p]][v[1]] # 0

\* "Keep `RUN`, ... `TASKTEST`, `PROCS`, `TASKS`, and `REAP` behavior consistent
\* enough for repeated testing" (ROADMAP.md): a frame that serves as a kernel
\* stack is that of a task there is.
StacksReturned == \A f \in kstacks : \E t \in Task : task[t] = f

=============================================================================
