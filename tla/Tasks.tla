------------------------------- MODULE Tasks -------------------------------
(***************************************************************************)
(* The scheduler of task/task.c: the static main and idle tasks, the       *)
(* MAX_TASKS slots of task_table, the ring threaded through the "next"     *)
(* pointers, and schedule(), called from the timer interrupt, from the     *)
(* yield system call and directly by kernel code.                          *)
(*                                                                         *)
(* Main is the boot thread: it runs the shell, the only code that spawns,  *)
(* removes and reaps tasks.  A task started by TASKTEST runs thread_a or   *)
(* thread_b ("thread"); every other spawned task carries a user process    *)
(* ("user") and may yield, kill and exit whenever it holds the processor.  *)
(*                                                                         *)
(* Kernel code runs with interrupts enabled, so the timer may fire between *)
(* any two steps.  Preemptible is the set of program points at which it    *)
(* does: the code protects none of them.                                   *)
(***************************************************************************)
EXTENDS Naturals

CONSTANTS
    Main,          \* main_task
    Idle,          \* idle_task
    MAX_TASKS,     \* length of task_table
    NULL,          \* the null pointer
    LOOPS,         \* iterations of thread_a and thread_b
    Preemptible    \* program points at which the timer may interrupt

Slot == 1 .. MAX_TASKS
Task == Slot \cup {Main, Idle}

PC == {"run", "sched", "picked", "switch", "dead",
       "reap", "spawn_a", "spawn_b", "record"}

ASSUME TasksAssumption ==
    /\ MAX_TASKS \in Nat \ {0}
    /\ LOOPS \in Nat
    /\ Main # Idle
    /\ Main \notin Slot /\ Idle \notin Slot
    /\ NULL \notin Task
    /\ Preemptible \subseteq PC

VARIABLES
    next,          \* task_t.next, NULL outside the ring
    state,         \* task_t.state
    current,       \* the scheduler's idea of the running task
    cpu,           \* the task whose stack the processor executes on
    esp,           \* task_t.esp: the task whose stack it points into
    iret,          \* the parked task resumes with interrupts enabled
    interrupts,    \* the processor's interrupt flag
    pc,            \* where each task's code is
    sel,           \* locals <<prev, next>> of a schedule() in progress
    body,          \* the entry function of a spawned task
    left,          \* iterations thread_a or thread_b still has to do
    at,            \* local "t" of task_reap_exited
    a, b,          \* locals of test_task
    task_a, task_b, task_test_started

ringVars == <<next, state, body>>
cpuVars  == <<current, cpu, esp, iret, interrupts>>
codeVars == <<pc, sel, left>>
mainVars == <<at, a, b, task_a, task_b, task_test_started>>
vars == <<ringVars, cpuVars, codeVars, mainVars>>

Linked(t) == next[t] # NULL

Init ==
    /\ next = [t \in Task |-> IF t = Main THEN Idle ELSE IF t = Idle THEN Main ELSE NULL]
    /\ state = [t \in Task |-> IF t = Main THEN "RUNNING"
                               ELSE IF t = Idle THEN "READY" ELSE "UNUSED"]
    /\ current = Main
    /\ cpu = Main
    /\ esp = [t \in Task |-> t]
    /\ iret = [t \in Task |-> TRUE]
    /\ interrupts = TRUE
    /\ pc = [t \in Task |-> "run"]
    /\ sel = [t \in Task |-> <<NULL, NULL>>]
    /\ body = [t \in Task |-> "none"]
    /\ left = [t \in Task |-> 0]
    /\ at = Main
    /\ a = NULL /\ b = NULL
    /\ task_a = NULL /\ task_b = NULL
    /\ task_test_started = FALSE

-----------------------------------------------------------------------------
(* schedule() *)

\* The task k "next" pointers after t.
Hop(t) ==
    LET w[k \in 0 .. MAX_TASKS + 2] == IF k = 0 THEN t ELSE next[w[k - 1]]
    IN  w

\* Mutant of FirstReady: a search that starts at main instead of the current
\* task.
FirstReady_FromMain(n) ==
    /\ state[n] = "READY"
    /\ \E k \in 1 .. MAX_TASKS + 2 :
          /\ Hop(Main)[k] = n
          /\ \A j \in 1 .. k - 1 : /\ Hop(Main)[j] # current
                                   /\ state[Hop(Main)[j]] # "READY"

\* n is where the search of schedule() stops, and it is READY.
FirstReady(n) ==
    /\ state[n] = "READY"
    /\ \E k \in 1 .. MAX_TASKS + 2 :
          /\ Hop(current)[k] = n
          /\ \A j \in 1 .. k - 1 : /\ Hop(current)[j] # current
                                   /\ state[Hop(current)[j]] # "READY"

NoneReady == \A n \in Task : ~FirstReady(n)

\* Mutants of Commit: the old task stays RUNNING, or becomes READY even when
\* it is exiting.
Commit_NoDemotion(p, n) ==
    /\ state' = [state EXCEPT ![n] = "RUNNING"]
    /\ current' = n
Commit_AlwaysReady(p, n) ==
    /\ state' = [[state EXCEPT ![p] = "READY"] EXCEPT ![n] = "RUNNING"]
    /\ current' = n

\* The state and current assignments of schedule(), p its prev, n its next.
Commit(p, n) ==
    /\ state' = [[state EXCEPT ![p] = IF @ = "RUNNING" THEN "READY" ELSE @]
                        EXCEPT ![n] = "RUNNING"]
    /\ current' = n

\* Mutant of SwitchContext: the stack pointer is saved in the wrong task.
SwitchContext_WrongTask(p, n, byInterrupt) ==
    /\ esp' = [esp EXCEPT ![n] = cpu]
    /\ iret' = [iret EXCEPT ![cpu] = byInterrupt]
    /\ cpu' = esp[n]
    /\ interrupts' = \/ iret[esp[n]]
                     \/ interrupts /\ ~byInterrupt

\* switch_context(&p->esp, n->esp).  A task parked inside an interrupt or a
\* system call gets its interrupt flag back from iret, a new one from the sti
\* of task_trampoline; one parked in a plain call keeps the processor's flag.
SwitchContext(p, n, byInterrupt) ==
    /\ esp' = [esp EXCEPT ![p] = cpu]
    /\ iret' = [iret EXCEPT ![cpu] = byInterrupt]
    /\ cpu' = esp[n]
    /\ interrupts' = \/ iret[esp[n]]
                     \/ interrupts /\ ~byInterrupt

\* schedule() with interrupts disabled: one step.
ScheduleMasked ==
    \/ /\ NoneReady
       /\ UNCHANGED <<state, cpuVars>>
    \/ \E n \in Task :
          /\ FirstReady(n)
          /\ Commit(current, n)
          /\ IF n # current
             THEN SwitchContext(current, n, TRUE)
             ELSE UNCHANGED <<cpu, esp, iret, interrupts>>

\* timer_callback on the tick that ends a time slice.
Timer ==
    /\ interrupts
    /\ pc[cpu] \in Preemptible
    /\ ScheduleMasked
    /\ UNCHANGED <<next, body, codeVars, mainVars>>

\* Where the caller of schedule() goes on: task_exit halts, the rest return.
Return(t) == pc' = [pc EXCEPT ![t] = IF state[t] = "EXITED" THEN "dead" ELSE "run"]

\* schedule() called with interrupts enabled: choose, commit, switch.
ScheduleSelect ==
    /\ pc[cpu] = "sched"
    /\ \/ /\ NoneReady
          /\ Return(cpu)
          /\ UNCHANGED sel
       \/ \E n \in Task :
             /\ FirstReady(n)
             /\ sel' = [sel EXCEPT ![cpu] = <<current, n>>]
             /\ pc' = [pc EXCEPT ![cpu] = "picked"]
    /\ UNCHANGED <<ringVars, cpuVars, left, mainVars>>

ScheduleCommit ==
    /\ pc[cpu] = "picked"
    /\ Commit(sel[cpu][1], sel[cpu][2])
    /\ pc' = [pc EXCEPT ![cpu] = "switch"]
    /\ UNCHANGED <<next, body, cpu, esp, iret, interrupts, sel, left, mainVars>>

ScheduleSwitch ==
    /\ pc[cpu] = "switch"
    /\ IF sel[cpu][1] # sel[cpu][2]
       THEN SwitchContext(sel[cpu][1], sel[cpu][2], FALSE)
       ELSE UNCHANGED <<cpu, esp, iret, interrupts>>
    /\ Return(cpu)
    /\ sel' = [sel EXCEPT ![cpu] = <<NULL, NULL>>]
    /\ UNCHANGED <<ringVars, current, left, mainVars>>

-----------------------------------------------------------------------------
(* What a running task does. *)

\* SYS_YIELD: the gate of int 0x80 has disabled interrupts.
Yield ==
    /\ body[cpu] = "user" /\ pc[cpu] = "run" /\ interrupts
    /\ ScheduleMasked
    /\ UNCHANGED <<next, body, codeVars, mainVars>>

\* One round of the loop of thread_a or thread_b: print, then schedule().
ThreadLoop ==
    /\ body[cpu] = "thread" /\ pc[cpu] = "run" /\ left[cpu] > 0
    /\ left' = [left EXCEPT ![cpu] = @ - 1]
    /\ pc' = [pc EXCEPT ![cpu] = "sched"]
    /\ UNCHANGED <<ringVars, cpuVars, sel, mainVars>>

\* task_exit: mark the current task and enter schedule() for the last time.
TaskExit ==
    /\ pc[cpu] = "run"
    /\ state' = [state EXCEPT ![current] = "EXITED"]
    /\ pc' = [pc EXCEPT ![cpu] = "sched"]
    /\ UNCHANGED <<next, body, cpuVars, sel, left, mainVars>>

ThreadEnd == body[cpu] = "thread" /\ left[cpu] = 0 /\ TaskExit

UserExit == body[cpu] = "user" /\ interrupts /\ TaskExit

\* task_kill(t) on the task of a process, from the shell's KILL or SYS_KILL.
TaskKill(t) ==
    /\ pc[cpu] = "run" /\ interrupts
    /\ cpu = Main \/ body[cpu] = "user"
    /\ t # current
    /\ state[t] \notin {"EXITED", "UNUSED"}
    /\ state' = [state EXCEPT ![t] = "EXITED"]
    /\ UNCHANGED <<next, body, cpuVars, codeVars, mainVars>>

-----------------------------------------------------------------------------
(* What the shell does on the main task.  The main task reaches "run" with *)
(* interrupts disabled only at the end of TASKTEST, on its way to the hlt   *)
(* of the main loop, from which no command starts any more.                 *)

ShellReady == cpu = Main /\ pc[Main] = "run" /\ interrupts

\* task_alloc takes the first unused slot.
FreeSlot(s) == state[s] = "UNUSED" /\ \A r \in 1 .. s - 1 : state[r] # "UNUSED"
NoFreeSlot == \A s \in Slot : state[s] # "UNUSED"

\* What create_task sets up in a slot.
CreateTask(s, what) ==
    /\ state' = [state EXCEPT ![s] = "READY"]
    /\ body' = [body EXCEPT ![s] = what]
    /\ esp' = [esp EXCEPT ![s] = s]
    /\ iret' = [iret EXCEPT ![s] = TRUE]
    /\ left' = [left EXCEPT ![s] = IF what = "thread" THEN LOOPS ELSE 0]
    /\ sel' = [sel EXCEPT ![s] = <<NULL, NULL>>]

\* Mutants of SpawnTask: the new task does not point back to the list, or
\* points to itself.
SpawnTask_Open(s, what) ==
    /\ FreeSlot(s)
    /\ \E last \in Task : next[last] = Main /\ next' = [next EXCEPT ![last] = s]
    /\ CreateTask(s, what)
SpawnTask_Alone(s, what) ==
    /\ FreeSlot(s)
    /\ next' = [next EXCEPT ![s] = s]
    /\ CreateTask(s, what)

\* spawn_task: task_alloc, create_task and add_task (behind the last task).
SpawnTask(s, what) ==
    /\ FreeSlot(s)
    /\ \E last \in Task :
          /\ next[last] = Main
          /\ next' = [next EXCEPT ![last] = s, ![s] = Main]
    /\ CreateTask(s, what)

SpawnUser ==
    /\ ShellReady
    /\ \E s \in Slot :
          /\ SpawnTask(s, "user")
          /\ pc' = [pc EXCEPT ![s] = "run"]
    /\ UNCHANGED <<current, cpu, interrupts, mainVars>>

\* Unlinking t from the ring and clearing its slot.
Unlink(t) ==
    /\ \E p \in Task :
          /\ next[p] = t
          /\ next' = [next EXCEPT ![p] = next[t], ![t] = NULL]
    /\ state' = [state EXCEPT ![t] = "UNUSED"]
    /\ body' = [body EXCEPT ![t] = "none"]

\* task_reap_exited: walk the ring once from the task after main.
ReapStart ==
    /\ ShellReady
    /\ at' = next[Main]
    /\ pc' = [pc EXCEPT ![Main] = "reap"]
    /\ UNCHANGED <<ringVars, cpuVars, sel, left, a, b,
                   task_a, task_b, task_test_started>>

ReapUnlink ==
    /\ cpu = Main /\ pc[Main] = "reap" /\ at # Main
    /\ at # Idle /\ at # current /\ state[at] = "EXITED"
    /\ Unlink(at)
    /\ task_a' = IF at = task_a THEN NULL ELSE task_a
    /\ task_b' = IF at = task_b THEN NULL ELSE task_b
    /\ task_test_started' = (task_test_started /\ (task_a' # NULL \/ task_b' # NULL))
    /\ at' = next[at]
    /\ UNCHANGED <<cpuVars, codeVars, a, b>>

ReapSkip ==
    /\ cpu = Main /\ pc[Main] = "reap" /\ at # Main
    /\ at = Idle \/ at = current \/ state[at] # "EXITED"
    /\ at' = next[at]
    /\ UNCHANGED <<ringVars, cpuVars, codeVars, a, b,
                   task_a, task_b, task_test_started>>

ReapDone ==
    /\ cpu = Main /\ pc[Main] = "reap" /\ at = Main
    /\ pc' = [pc EXCEPT ![Main] = "run"]
    /\ UNCHANGED <<ringVars, cpuVars, sel, left, mainVars>>

\* test_task: spawn task_a, spawn task_b, then record both or undo.
TestTask ==
    /\ ShellReady
    /\ ~task_test_started
    /\ pc' = [pc EXCEPT ![Main] = "spawn_a"]
    /\ UNCHANGED <<ringVars, cpuVars, sel, left, mainVars>>

TestSpawnA ==
    /\ cpu = Main /\ pc[Main] = "spawn_a"
    /\ \/ \E s \in Slot :
             /\ SpawnTask(s, "thread")
             /\ a' = s
             /\ pc' = [pc EXCEPT ![Main] = "spawn_b", ![s] = "run"]
       \/ /\ NoFreeSlot
          /\ a' = NULL
          /\ pc' = [pc EXCEPT ![Main] = "spawn_b"]
          /\ UNCHANGED <<ringVars, esp, iret, sel, left>>
    /\ UNCHANGED <<current, cpu, interrupts, at, b,
                   task_a, task_b, task_test_started>>

TestSpawnB ==
    /\ cpu = Main /\ pc[Main] = "spawn_b"
    /\ \/ \E s \in Slot :
             /\ SpawnTask(s, "thread")
             /\ b' = s
             /\ pc' = [pc EXCEPT ![Main] = "record", ![s] = "run"]
       \/ /\ NoFreeSlot
          /\ b' = NULL
          /\ pc' = [pc EXCEPT ![Main] = "record"]
          /\ UNCHANGED <<ringVars, esp, iret, sel, left>>
    /\ UNCHANGED <<current, cpu, interrupts, at, a,
                   task_a, task_b, task_test_started>>

\* No slot for one of the two: task_remove whichever was spawned.  Nothing
\* frees a slot in between, so b is null whenever a is.
TestUndo ==
    /\ cpu = Main /\ pc[Main] = "record" /\ b = NULL
    /\ IF a # NULL THEN Unlink(a) ELSE UNCHANGED ringVars
    /\ a' = NULL
    /\ pc' = [pc EXCEPT ![Main] = "run"]
    /\ UNCHANGED <<cpuVars, sel, left, at, b, task_a, task_b, task_test_started>>

TestRecord ==
    /\ cpu = Main /\ pc[Main] = "record" /\ b # NULL
    /\ task_test_started' = TRUE
    /\ task_a' = a /\ task_b' = b
    /\ a' = NULL /\ b' = NULL
    /\ pc' = [pc EXCEPT ![Main] = "sched"]
    /\ UNCHANGED <<ringVars, cpuVars, sel, left, at>>

-----------------------------------------------------------------------------

\* Steps of kernel code that take place by themselves.
KernelStep ==
    \/ ScheduleSelect \/ ScheduleCommit \/ ScheduleSwitch
    \/ ThreadLoop \/ ThreadEnd
    \/ ReapUnlink \/ ReapSkip \/ ReapDone
    \/ TestSpawnA \/ TestSpawnB \/ TestUndo \/ TestRecord

\* Steps that depend on what the user types or the user program does.
UserStep ==
    \/ Yield \/ UserExit
    \/ \E t \in Slot : body[t] = "user" /\ TaskKill(t)
    \/ SpawnUser \/ ReapStart \/ TestTask

Next == Timer \/ KernelStep \/ UserStep

Spec == Init /\ [][Next]_vars

\* The PIT keeps ticking and the processor keeps executing kernel code.
FairSpec == Spec /\ WF_vars(Timer) /\ WF_vars(KernelStep)

-----------------------------------------------------------------------------
(* Properties *)

TaskState == {"UNUSED", "READY", "RUNNING", "BLOCKED", "EXITED"}
TaskOrNull == Task \cup {NULL}

\* Every variable of the scheduler has its type (task.h:8-27).
TypeOK ==
    /\ next \in [Task -> TaskOrNull]
    /\ state \in [Task -> TaskState]
    /\ current \in Task /\ cpu \in Task
    /\ esp \in [Task -> Task]
    /\ iret \in [Task -> BOOLEAN] /\ interrupts \in BOOLEAN
    /\ pc \in [Task -> PC]
    /\ sel \in [Task -> TaskOrNull \X TaskOrNull]
    /\ body \in [Task -> {"none", "thread", "user"}]
    /\ left \in [Task -> Nat]
    /\ at \in Task
    /\ a \in Slot \cup {NULL} /\ b \in Slot \cup {NULL}
    /\ task_a \in Slot \cup {NULL} /\ task_b \in Slot \cup {NULL}
    /\ task_test_started \in BOOLEAN

\* The "next" pointers are a ring: main and idle are in it, a task in the
\* ring points to a task in the ring, no two point to the same one, and the
\* slots outside the ring are exactly the unused ones, so spawn_task,
\* task_remove and task_reap_exited never lose a task or link one twice.
RingClosed ==
    /\ Linked(Main) /\ Linked(Idle)
    /\ \A t \in Task : Linked(t) => Linked(next[t])
    /\ \A t, u \in Task : Linked(t) /\ next[t] = next[u] => t = u
    /\ \A t \in Task : Linked(t) <=> state[t] # "UNUSED"

\* The ring is one ring: schedule() started at any task of it passes every
\* other task of it, so no add_task or unlinking splits the ring in two.
\* (Variables have their types.)
RingIsOneCycle ==
    /\ TypeOK
    /\ \A t, u \in Task : Linked(t) /\ Linked(u) =>
          \E k \in 0 .. MAX_TASKS + 2 : Hop(t)[k] = u

\* Outside the last step of a schedule() the processor, "current" and the
\* RUNNING mark agree on one task, whatever the timer interrupts; a task that
\* is exiting keeps the processor without the mark.
Exiting(t) == state[t] = "EXITED" /\ pc[t] \in {"sched", "picked", "dead"}
SettledTask ==
    pc[cpu] # "switch" =>
        /\ current = cpu
        /\ state[cpu] = "RUNNING" \/ Exiting(cpu)
        /\ \A t \in Task \ {cpu} : state[t] # "RUNNING"

\* The saved stack pointer of a task points into that task's own stack: what
\* switch_context parks is the task it was told to park.
StackParked == \A t \in Task : esp[t] = t

\* A task that exited or was killed is never scheduled again: its state only
\* changes when its slot is reaped.
DeadStaysDead ==
    [][\A t \in Task : state[t] = "EXITED" => state'[t] \in {"EXITED", "UNUSED"}]_vars

\* A slot is recycled only after its task has died, or when TASKTEST undoes
\* the spawn of task_a: the walk of task_reap_exited, which other tasks
\* interrupt, never frees a task that can still run.
OnlyDeadAreFreed ==
    [][\A t \in Task : state[t] # "UNUSED" /\ state'[t] = "UNUSED" =>
          state[t] = "EXITED" \/ (pc[Main] = "record" /\ t = a)]_vars

\* The main task sits in the hlt of the main loop with interrupts disabled:
\* nothing wakes the processor again.
Hung == cpu = Main /\ pc[Main] = "run" /\ ~interrupts

\* The machine never halts for good: the shell waits for the next line with
\* interrupts enabled (kernel.c:31-40).
NeverHung == ~Hung

\* The round robin is fair: a READY task is run, killed or removed, unless
\* the machine has halted.
ReadyRuns == \A t \in Task : state[t] = "READY" ~> (state[t] # "READY" \/ Hung)

=============================================================================
