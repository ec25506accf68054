----------------------------- MODULE Processes -----------------------------
(***************************************************************************)
(* User processes (cpu/user_mode.c) on top of the scheduler: the process   *)
(* table, the tasks that carry the processes, and the kernel globals that  *)
(* exist once for all of them: current_user_process, the saved context of  *)
(* user_return.asm, user_kernel_stack with the esp0 field of the TSS, and  *)
(* the keyboard owner.  The main task runs the shell commands that start,  *)
(* kill and reap processes; it is preempted like every other task.         *)
(***************************************************************************)
EXTENDS Tasks

CONSTANTS
    MAX_USER_PROCESSES,
    MAX_ADDRESS_SPACES,
    MAX_STARTS,          \* bound on the processes built in a run
    Commands,            \* the shell commands in use
    Calls,               \* what user programs do
    Overlap,             \* how programs meet: "none" is started before all is
                         \* quiet, others are "waiting" to be entered while one
                         \* runs, or "any" is entered at any time
    ShellPreemptible,    \* points of the shell's code the timer may interrupt
    UserPreemptible      \* points of a user task the timer may interrupt

Proc  == 1 .. MAX_USER_PROCESSES
Space == 1 .. MAX_ADDRESS_SPACES
Kernel == 0              \* kernel_space
Builtin == {"test", "fault"}

Starting == {"RUN", "RUNELF", "USERTEST", "USERFAULT"}
Command == Starting \cup {"TASKTEST", "REAP", "REAP pid", "KILL"}

\* Points of the shell: the prompt, the calls of a command, and the places
\* inside start_user_*_task, run_user_file and user_process_kill_pid where a
\* preemption is visible to other tasks.
SH == {"prompt", "reap", "treap", "walk", "refresh", "build", "spawn", "link",
       "space", "kill", "kill2", "reappid", "test", "testing"}

\* Points of a user task: its entry function, run_user_process before and
\* after run_user_program, the user program, and the way to task_exit.
UPC == {"entry", "start", "enter", "user", "mark", "close", "bye"}

\* SYS_EXIT with an ordinary code, with USER_EXIT_FAULT and with 2^32 - 1; a
\* page fault and any other exception; SYS_YIELD and SYS_KILL.
ExitCall == {"exit 0", "exit -2", "exit -1"}
UserCall == ExitCall \cup {"fault", "exception", "yield", "kill"}

ASSUME ProcessesAssumption ==
    /\ MAX_USER_PROCESSES \in Nat \ {0}
    /\ MAX_ADDRESS_SPACES \in Nat \ {0}
    /\ MAX_STARTS \in Nat
    /\ Commands \subseteq Command
    /\ Calls \subseteq UserCall
    /\ Overlap \in {"none", "waiting", "any"}
    /\ ShellPreemptible \subseteq SH
    /\ UserPreemptible \subseteq UPC
    /\ NULL \notin Proc \cup Space

VARIABLES
    proc,                  \* user_process_table: state, task, space
    starts,                \* processes built so far
    dirs,                  \* user_spaces with a page directory
    current_user_process,
    saved,                 \* the task whose frame user_context_save recorded
    esp0,                  \* the kernel stack in the TSS
    kstack,                \* the task whose frame is on user_kernel_stack
    owner,                 \* keyboard_owner
    cr3,                   \* current_space
    tproc, tspace,         \* task_t.user_process, task_t.address_space
    kind,                  \* which entry function the task runs
    upc, uproc, ucode,     \* user task: program point, locals process and code
    sh, cmd,               \* shell: program point and command
    i,                     \* index of the loop of user_process_reap
    pp, tt,                \* locals process and task of the shell's commands
    pending,               \* pending_user_test_process, pending_user_fault_process
    started, btask         \* user_test_started, user_test_task and fault's

tableVars == <<proc, starts, dirs>>
globalVars == <<current_user_process, saved, esp0, kstack, owner>>
linkVars == <<tproc, tspace, kind>>
userVars == <<upc, uproc, ucode>>
shellVars == <<sh, cmd, i, pp, tt>>
builtinVars == <<pending, started, btask>>
procVars == <<tableVars, globalVars, cr3, linkVars, userVars, shellVars, builtinVars>>
allVars == <<vars, procVars>>

Unused == [state |-> "UNUSED", task |-> NULL, space |-> NULL]

ProcInit ==
    /\ Init
    /\ proc = [p \in Proc |-> Unused]
    /\ starts = 0
    /\ dirs = {}
    /\ current_user_process = NULL
    /\ saved = NULL /\ esp0 = "boot" /\ kstack = NULL
    /\ owner = "SHELL"
    /\ cr3 = Kernel
    /\ tproc = [t \in Task |-> NULL]
    /\ tspace = [t \in Task |-> Kernel]
    /\ kind = [t \in Task |-> "none"]
    /\ upc = [t \in Task |-> "entry"]
    /\ uproc = [t \in Task |-> NULL]
    /\ ucode = [t \in Task |-> "none"]
    /\ sh = "prompt" /\ cmd = "none"
    /\ i = 1 /\ pp = NULL /\ tt = NULL
    /\ pending = [k \in Builtin |-> NULL]
    /\ started = [k \in Builtin |-> FALSE]
    /\ btask = [k \in Builtin |-> NULL]

user_process_is_dead(p) == proc[p].state \in {"EXITED", "FAILED", "KILLED"}
Live(p) == proc[p].state \in {"READY", "RUNNING"}
CanRun(t) == body[t] = "user" /\ state[t] \in {"READY", "RUNNING"}

\* Every program that was started has ended, up to task_exit.
Quiet == /\ \A p \in Proc : ~Live(p)
         /\ \A t \in Slot : CanRun(t) => upc[t] = "bye"

\* No other task stands between its entry into user mode and the end of
\* run_user_process.
Alone(t) == \A u \in Slot \ {t} : CanRun(u) => upc[u] \notin {"enter", "user", "mark", "close"}

-----------------------------------------------------------------------------
(* Where the main task and a user task go on. *)

ShellAt(point) == /\ sh' = point
                  /\ cmd' = IF point = "prompt" THEN "none" ELSE cmd
Goto(t, point) == upc' = [upc EXCEPT ![t] = point]

-----------------------------------------------------------------------------
(* The scheduler's steps, with what they do to the process side. *)

\* Mutant of SwitchSpace: switching to a task without a user space leaves CR3 alone.
SwitchSpace_KeepUser ==
    cr3' = IF current' = current \/ tspace[current'] \notin dirs THEN cr3
           ELSE tspace[current']

\* address_space_switch ignores a space without page directory; a task
\* without a space runs in the kernel's.
SwitchSpace ==
    LET s == IF tspace[current'] = NULL THEN Kernel ELSE tspace[current']
    IN  cr3' = IF current' = current \/ s \notin dirs \cup {Kernel} THEN cr3 ELSE s

InUser(t) == body[t] = "user" /\ upc[t] = "user"

\* An interrupt or system call from user mode leaves its frame on the stack
\* that esp0 names: user_kernel_stack for every process.
PushFrame == kstack' = IF InUser(cpu) /\ esp0 = "user" THEN cpu ELSE kstack

Tick ==
    /\ cpu = Main /\ pc[cpu] = "run" => sh \in ShellPreemptible
    /\ body[cpu] = "user" /\ pc[cpu] = "run" => upc[cpu] \in UserPreemptible
    /\ Timer
    /\ SwitchSpace /\ PushFrame
    /\ UNCHANGED <<tableVars, current_user_process, saved, esp0, owner, linkVars,
                   userVars, shellVars, builtinVars>>

\* schedule() called by a kernel thread, by task_exit or by TASKTEST.
Reschedule ==
    /\ \/ ScheduleSelect \/ ScheduleCommit \/ ScheduleSwitch
       \/ ThreadLoop \/ ThreadEnd
    /\ SwitchSpace
    /\ ShellAt(IF cpu = Main /\ pc'[Main] = "run" THEN "prompt" ELSE sh)
    /\ UNCHANGED <<tableVars, globalVars, linkVars, userVars, i, pp, tt,
                   builtinVars>>

-----------------------------------------------------------------------------
(* A user task: user_*_task_entry, run_user_process, run_user_program. *)

AtUser(t, point) == cpu = t /\ body[t] = "user" /\ pc[t] = "run" /\ upc[t] = point

\* The entry function finds its process: through the task, or for the
\* built-in programs through the pending pointer, which it clears.
Entry(t) ==
    /\ AtUser(t, "entry")
    /\ LET p == IF kind[t] = "file" THEN tproc[current] ELSE pending[kind[t]]
       IN  /\ uproc' = [uproc EXCEPT ![t] = p]
           /\ Goto(t, IF p = NULL THEN "bye" ELSE "start")
    /\ pending' = IF kind[t] = "file" THEN pending
                  ELSE [pending EXCEPT ![kind[t]] = NULL]
    /\ UNCHANGED <<vars, tableVars, globalVars, cr3, linkVars, ucode, shellVars,
                   started, btask>>

\* run_user_process up to the call of run_user_program.
Start(t) ==
    /\ AtUser(t, "start") /\ (Overlap = "any" \/ Alone(t))
    /\ LET p == uproc[t] IN
       IF proc[p].space = NULL
       THEN /\ proc' = [proc EXCEPT ![p].state = "FAILED"]
            /\ Goto(t, "bye")
            /\ UNCHANGED current_user_process
       ELSE /\ current_user_process' = p
            /\ proc' = [proc EXCEPT ![p].state = "RUNNING"]
            /\ Goto(t, "enter")
    /\ UNCHANGED <<vars, starts, dirs, saved, esp0, kstack, owner, cr3,
                   linkVars, uproc, ucode, shellVars, builtinVars>>

\* Mutant of Enter: tss_set_kernel_stack is not called.
Enter_OldStack(t) ==
    /\ AtUser(t, "enter")
    /\ saved' = t
    /\ owner' = "USER"
    /\ Goto(t, "user")
    /\ UNCHANGED <<vars, tableVars, current_user_process, esp0, kstack, cr3, linkVars,
                   uproc, ucode, shellVars, builtinVars>>

\* run_user_program: user_context_save, keyboard owner, TSS, enter_user_mode.
Enter(t) ==
    /\ AtUser(t, "enter")
    /\ saved' = t
    /\ owner' = "USER"
    /\ esp0' = "user"
    /\ Goto(t, "user")
    /\ UNCHANGED <<vars, tableVars, current_user_process, kstack, cr3, linkVars,
                   uproc, ucode, shellVars, builtinVars>>

\* Mutant of ContextRestore: SYS_EXIT goes back to the shell's stack.
ContextRestore_ToShell(ret) ==
    /\ cpu' = Main
    /\ upc' = [upc EXCEPT ![saved] = "mark"]
    /\ ucode' = [ucode EXCEPT ![saved] = ret]
    /\ owner' = "SHELL"
    /\ esp0' = "boot"
    /\ PushFrame

\* user_context_restore(ret): execution goes on in the saved frame, at the
\* return of user_context_save in run_user_program: up to its sti, or, when
\* ret is zero as it is after the saving, to where the program is entered.
ContextRestore(ret) ==
    /\ cpu' = saved
    /\ upc' = [upc EXCEPT ![saved] = IF ret = "zero" THEN "enter" ELSE "mark"]
    /\ ucode' = [ucode EXCEPT ![saved] = ret]
    /\ owner' = IF ret = "zero" THEN owner ELSE "SHELL"
    /\ esp0' = IF ret = "zero" THEN esp0 ELSE "boot"
    /\ PushFrame

\* SYS_EXIT, user_exit_current: code + 1 is zero for the code 2^32 - 1.
Exit(t) ==
    /\ AtUser(t, "user")
    /\ \E c \in Calls \cap ExitCall :
          ContextRestore(CASE c = "exit 0" -> "ok" [] c = "exit -2" -> "fault" [] c = "exit -1" -> "zero")
    /\ UNCHANGED <<ringVars, current, esp, iret, interrupts, codeVars, mainVars,
                   tableVars, current_user_process, saved, cr3, linkVars, uproc,
                   shellVars, builtinVars>>

\* isr_handler: a page fault in user mode, user_fault_current.
Fault(t) ==
    /\ AtUser(t, "user") /\ "fault" \in Calls
    /\ proc' = IF current_user_process = NULL THEN proc
               ELSE [proc EXCEPT ![current_user_process].state = "FAILED"]
    /\ ContextRestore("fault")
    /\ UNCHANGED <<ringVars, current, esp, iret, interrupts, codeVars, mainVars,
                   starts, dirs, current_user_process, saved, cr3,
                   linkVars, uproc, shellVars, builtinVars>>

\* isr_handler: any other exception is reported, and the program goes on at the
\* instruction that raised it.
Exception(t) ==
    /\ AtUser(t, "user") /\ "exception" \in Calls
    /\ PushFrame
    /\ UNCHANGED <<vars, tableVars, current_user_process, saved, esp0, owner, cr3,
                   linkVars, userVars, shellVars, builtinVars>>

\* run_user_process: the exit status, once run_user_program has returned.
Mark(t) ==
    /\ AtUser(t, "mark")
    /\ proc' = [proc EXCEPT ![uproc[t]].state =
                   IF ucode[t] = "fault" THEN "FAILED" ELSE "EXITED"]
    /\ ucode' = [ucode EXCEPT ![t] = "none"]
    /\ Goto(t, "close")
    /\ UNCHANGED <<vars, starts, dirs, globalVars, cr3, linkVars, uproc,
                   shellVars, builtinVars>>

\* run_user_process: user_process_close_fds and current_user_process = 0.
Close(t) ==
    /\ AtUser(t, "close")
    /\ current_user_process' = NULL
    /\ Goto(t, "bye")
    /\ UNCHANGED <<vars, tableVars, saved, esp0, kstack, owner, cr3, linkVars,
                   uproc, ucode, shellVars, builtinVars>>

Bye(t) ==
    /\ AtUser(t, "bye")
    /\ UserExit
    /\ UNCHANGED procVars

\* SYS_YIELD.
SysYield(t) ==
    /\ AtUser(t, "user") /\ "yield" \in Calls
    /\ Yield
    /\ SwitchSpace /\ PushFrame
    /\ UNCHANGED <<tableVars, current_user_process, saved, esp0, owner, linkVars,
                   userVars, shellVars, builtinVars>>

\* Mutant of KillProcess: the process is not marked.
KillProcess_NoMark(p) == TaskKill(proc[p].task) /\ UNCHANGED proc

\* user_process_kill_pid after its checks: task_kill, mark_killed, close_fds.
KillProcess(p) ==
    /\ TaskKill(proc[p].task)
    /\ proc' = [proc EXCEPT ![p].state = "KILLED"]

\* SYS_KILL of another process; every other outcome changes nothing.
SysKill(t) ==
    /\ AtUser(t, "user") /\ "kill" \in Calls
    /\ \E p \in Proc : Live(p) /\ proc[p].task # NULL /\ KillProcess(p)
    /\ PushFrame
    /\ UNCHANGED <<starts, dirs, current_user_process, saved, esp0, owner, cr3, linkVars, userVars,
                   shellVars, builtinVars>>

-----------------------------------------------------------------------------
(* The shell, on the main task. *)

AtShell(point) == ShellReady /\ sh = point

\* user_process_clear: the slot, its address space and its frames.
Clear(p) ==
    /\ proc' = [proc EXCEPT ![p] = Unused]
    /\ dirs' = dirs \ {proc[p].space}

Dispatch(c) ==
    /\ c \in Starting /\ Overlap = "none" => Quiet
    /\ cmd' = c
    /\ sh' = CASE c = "RUNELF" -> "build"
               [] c = "KILL" -> "kill"
               [] c = "REAP pid" -> "reappid"
               [] OTHER -> "reap"

\* main() takes a line and user_input dispatches it.
ShellCommand ==
    /\ AtShell("prompt") /\ owner = "SHELL"
    /\ \E c \in Commands : Dispatch(c)
    /\ i' = 1
    /\ UNCHANGED <<vars, tableVars, globalVars, cr3, linkVars, userVars, pp, tt,
                   builtinVars>>

\* Mutant of ReapProcess: the running process is not spared.
ReapProcess_NoGuard ==
    /\ AtShell("reap")
    /\ IF user_process_is_dead(i) THEN Clear(i) ELSE UNCHANGED <<proc, dirs>>
    /\ i' = IF i < MAX_USER_PROCESSES THEN i + 1 ELSE 1
    /\ ShellAt(IF i < MAX_USER_PROCESSES THEN "reap" ELSE "treap")
    /\ UNCHANGED <<vars, starts, globalVars, cr3, linkVars, userVars,
                   pp, tt, builtinVars>>
\* user_process_reap: one turn of its loop.
ReapProcess ==
    /\ AtShell("reap")
    /\ IF i # current_user_process /\ user_process_is_dead(i)
       THEN Clear(i) ELSE UNCHANGED <<proc, dirs>>
    /\ i' = IF i < MAX_USER_PROCESSES THEN i + 1 ELSE 1
    /\ ShellAt(IF i < MAX_USER_PROCESSES THEN "reap" ELSE "treap")
    /\ UNCHANGED <<vars, starts, globalVars, cr3, linkVars, userVars,
                   pp, tt, builtinVars>>

\* user_process_reap_pid.
ReapPid ==
    /\ AtShell("reappid")
    /\ \/ \E p \in Proc : /\ p # current_user_process
                          /\ user_process_is_dead(p)
                          /\ Clear(p)
       \/ UNCHANGED <<proc, dirs>>
    /\ ShellAt("treap")
    /\ UNCHANGED <<vars, starts, globalVars, cr3, linkVars, userVars,
                   i, pp, tt, builtinVars>>

\* task_reap_exited.
ReapTasks ==
    /\ \/ sh = "treap" /\ ReapStart /\ ShellAt("walk") /\ UNCHANGED <<linkVars, userVars>>
       \/ sh = "walk" /\ ReapUnlink /\ ShellAt("walk")
          /\ tproc' = [tproc EXCEPT ![at] = NULL]
          /\ tspace' = [tspace EXCEPT ![at] = NULL]
          /\ kind' = [kind EXCEPT ![at] = "none"]
          /\ Goto(at, "entry")
          /\ uproc' = [uproc EXCEPT ![at] = NULL]
          /\ ucode' = [ucode EXCEPT ![at] = "none"]
       \/ sh = "walk" /\ ReapSkip /\ ShellAt("walk") /\ UNCHANGED <<linkVars, userVars>>
       \/ sh = "walk" /\ ReapDone /\ ShellAt("refresh") /\ UNCHANGED <<linkVars, userVars>>
    /\ UNCHANGED <<tableVars, globalVars, cr3, i, pp, tt, builtinVars>>

BuiltinOf(c) == IF c = "USERTEST" THEN "test" ELSE "fault"

AfterReap ==
    ShellAt(CASE cmd = "RUN" -> "build"
              [] cmd \in {"USERTEST", "USERFAULT"} ->
                    IF started'[BuiltinOf(cmd)] THEN "prompt" ELSE "build"
              [] cmd = "TASKTEST" -> "test"
              [] OTHER -> "prompt")

\* Mutant of Refresh: the shell does not look whether its tasks are gone.
Refresh_Never ==
    /\ AtShell("refresh")
    /\ UNCHANGED <<started, btask>>
    /\ AfterReap
    /\ UNCHANGED <<vars, tableVars, globalVars, cr3, linkVars, userVars, i,
                   pp, tt, pending>>

\* refresh_reaped_builtin_tasks, and what the command does next.
Refresh ==
    /\ AtShell("refresh")
    /\ LET gone(k) == started[k] /\ btask[k] # NULL /\ state[btask[k]] = "UNUSED"
       IN  /\ started' = [k \in Builtin |-> started[k] /\ ~gone(k)]
           /\ btask' = [k \in Builtin |-> IF gone(k) THEN NULL ELSE btask[k]]
    /\ AfterReap
    /\ UNCHANGED <<vars, tableVars, globalVars, cr3, linkVars, userVars, i,
                   pp, tt, pending>>

KindOf(c) == IF c \in {"RUN", "RUNELF"} THEN "file" ELSE BuiltinOf(c)

FreeProc(p) ==
    /\ proc[p].state = "UNUSED"
    /\ \A q \in 1 .. p - 1 : proc[q].state # "UNUSED"

FreeSpace(s) == s \notin dirs /\ \A r \in 1 .. s - 1 : r \in dirs

\* start_user_test_task, start_user_fault_task, run_user_file and
\* run_user_elf_file up to spawn_task: they give up when the program file is
\* bad, a built-in is pending or no process slot is left, and clear the slot
\* again when no address space or no frame is left.
Build ==
    /\ AtShell("build")
    /\ LET k == KindOf(cmd) IN
       \/ /\ ShellAt("prompt")
          /\ UNCHANGED <<tableVars, pp, pending>>
       \/ /\ k \in Builtin => pending[k] = NULL
          /\ starts < MAX_STARTS /\ starts' = starts + 1
          /\ \E p \in Proc, s \in Space :
                /\ FreeProc(p) /\ FreeSpace(s)
                /\ proc' = [proc EXCEPT ![p] = [state |-> "READY", task |-> NULL, space |-> s]]
                /\ dirs' = dirs \cup {s}
                /\ pp' = p
                /\ pending' = IF k \in Builtin THEN [pending EXCEPT ![k] = p] ELSE pending
          /\ ShellAt("spawn")
    /\ UNCHANGED <<vars, globalVars, cr3, linkVars, userVars, i, tt, started,
                   btask>>

\* spawn_task, or user_process_clear when there is no task slot.
Spawn ==
    /\ AtShell("spawn")
    /\ \/ /\ SpawnUser
          /\ \E s \in Slot :
                /\ FreeSlot(s)
                /\ tt' = s
                /\ kind' = [kind EXCEPT ![s] = KindOf(cmd)]
                /\ tproc' = [tproc EXCEPT ![s] = NULL]
                /\ tspace' = [tspace EXCEPT ![s] = Kernel]
                /\ Goto(s, "entry")
          /\ ShellAt("link")
          /\ UNCHANGED <<proc, dirs, pp, pending>>
       \/ /\ NoFreeSlot
          /\ Clear(pp)
          /\ pending' = IF KindOf(cmd) \in Builtin
                        THEN [pending EXCEPT ![KindOf(cmd)] = NULL] ELSE pending
          /\ pp' = NULL
          /\ ShellAt("prompt")
          /\ UNCHANGED <<vars, linkVars, upc, tt>>
    /\ UNCHANGED <<starts, globalVars, cr3, uproc, ucode, i, started,
                   btask>>

\* process->task = task; task_set_user_process(task, process).
Link ==
    /\ AtShell("link")
    /\ proc' = [proc EXCEPT ![pp].task = tt]
    /\ tproc' = [tproc EXCEPT ![tt] = pp]
    /\ ShellAt("space")
    /\ UNCHANGED <<vars, starts, dirs, globalVars, cr3, tspace, kind,
                   userVars, i, pp, tt, builtinVars>>

\* task_set_address_space, and the bookkeeping of the built-in commands.
LinkSpace ==
    /\ AtShell("space")
    /\ tspace' = [tspace EXCEPT ![tt] = proc[pp].space]
    /\ LET k == KindOf(cmd) IN
       IF k \in Builtin
       THEN started' = [started EXCEPT ![k] = TRUE] /\ btask' = [btask EXCEPT ![k] = tt]
       ELSE UNCHANGED <<started, btask>>
    /\ pp' = NULL /\ tt' = NULL
    /\ ShellAt("prompt")
    /\ UNCHANGED <<vars, tableVars, globalVars, cr3, tproc, kind, userVars, i,
                   pending>>

\* Mutant of ShellKillCheck: a dead process is killed again.
ShellKillCheck_Dead ==
    /\ AtShell("kill")
    /\ \/ \E p \in Proc : /\ proc[p].state # "UNUSED" /\ proc[p].task # NULL
                          /\ pp' = p
                          /\ ShellAt("kill2")
       \/ ShellAt("treap") /\ UNCHANGED pp
    /\ UNCHANGED <<vars, tableVars, globalVars, cr3, linkVars, userVars, i,
                   tt, builtinVars>>

\* user_process_kill_pid: the checks; the rest follows in ShellKill.
ShellKillCheck ==
    /\ AtShell("kill")
    /\ \/ \E p \in Proc : /\ Live(p) /\ proc[p].task # NULL
                          /\ pp' = p
                          /\ ShellAt("kill2")
       \/ ShellAt("treap") /\ UNCHANGED pp
    /\ UNCHANGED <<vars, tableVars, globalVars, cr3, linkVars, userVars, i,
                   tt, builtinVars>>

ShellKill ==
    /\ AtShell("kill2")
    /\ IF state[proc[pp].task] \in {"EXITED", "UNUSED"}
       THEN UNCHANGED <<vars, proc>>
       ELSE KillProcess(pp)
    /\ pp' = NULL
    /\ ShellAt("treap")
    /\ UNCHANGED <<starts, dirs, globalVars, cr3, linkVars, userVars,
                   i, tt, builtinVars>>

\* test_task.
ShellTest ==
    /\ \/ sh = "test" /\ TestTask /\ ShellAt("testing")
       \/ AtShell("test") /\ task_test_started /\ ShellAt("prompt") /\ UNCHANGED vars
       \/ sh = "testing" /\ (TestSpawnA \/ TestSpawnB \/ TestRecord) /\ ShellAt("testing")
       \/ sh = "testing" /\ TestUndo /\ ShellAt("prompt")
    /\ UNCHANGED <<tableVars, globalVars, cr3, linkVars, userVars, i, pp, tt,
                   builtinVars>>

-----------------------------------------------------------------------------

\* Kernel code of a user task, which goes on by itself.
UserTask(t) ==
    Entry(t) \/ Start(t) \/ Enter(t) \/ Mark(t) \/ Close(t) \/ Bye(t)

\* What the user program decides.
Program(t) == Exit(t) \/ Fault(t) \/ Exception(t) \/ SysYield(t) \/ SysKill(t)

\* A shell command once it has been typed.
ShellStep ==
    \/ ReapProcess \/ ReapPid \/ ReapTasks \/ Refresh
    \/ Build \/ Spawn \/ Link \/ LinkSpace
    \/ ShellKillCheck \/ ShellKill \/ ShellTest

ProcNext ==
    \/ Tick \/ Reschedule
    \/ \E t \in Slot : UserTask(t) \/ Program(t)
    \/ ShellCommand \/ ShellStep

ProcSpec == ProcInit /\ [][ProcNext]_allVars

\* The PIT keeps ticking, and a time slice is long enough for the code of the
\* task that holds the processor to get on.
ProcFairSpec ==
    /\ ProcSpec
    /\ SF_allVars(Tick) /\ SF_allVars(ShellStep)
    /\ \A t \in Task : SF_allVars(cpu = t /\ Reschedule)
    /\ \A t \in Slot : SF_allVars(UserTask(t))

-----------------------------------------------------------------------------
(* Properties *)

ProcState == {"UNUSED", "READY", "RUNNING", "EXITED", "FAILED", "KILLED"}
ProcOrNull == Proc \cup {NULL}

\* Every variable of the process layer has its type (user_mode.h, user_mode.c).
ProcTypeOK ==
    /\ proc \in [Proc -> [state : ProcState,
                          task : Slot \cup {NULL}, space : Space \cup {NULL}]]
    /\ starts \in 0 .. MAX_STARTS
    /\ dirs \subseteq Space
    /\ current_user_process \in ProcOrNull
    /\ saved \in Slot \cup {NULL} /\ kstack \in Slot \cup {NULL}
    /\ esp0 \in {"boot", "user"} /\ owner \in {"SHELL", "USER"}
    /\ cr3 \in Space \cup {Kernel}
    /\ tproc \in [Task -> ProcOrNull]
    /\ tspace \in [Task -> Space \cup {Kernel, NULL}]
    /\ kind \in [Task -> Builtin \cup {"none", "file"}]
    /\ upc \in [Task -> UPC] /\ uproc \in [Task -> ProcOrNull]
    /\ ucode \in [Task -> {"none", "ok", "fault", "zero"}]
    /\ sh \in SH /\ cmd \in Command \cup {"none"} /\ i \in Proc
    /\ pp \in ProcOrNull /\ tt \in Slot \cup {NULL}
    /\ pending \in [Builtin -> ProcOrNull]
    /\ started \in [Builtin -> BOOLEAN] /\ btask \in [Builtin -> Slot \cup {NULL}]

\* While a user program executes, every global the system calls consult is
\* about this program: current_user_process (getpid, the descriptors, the
\* fault handler), the context SYS_EXIT returns to, the trap stack in the TSS,
\* the keyboard and the address space.  A program that is parked in user mode
\* finds its frame on user_kernel_stack when it is resumed.
UserIdentity ==
    /\ InUser(cpu) /\ pc[cpu] = "run" =>
          LET p == uproc[cpu] IN
          /\ current_user_process = p /\ tproc[current] = p
          /\ proc[p].state = "RUNNING" /\ cr3 = proc[p].space
          /\ saved = cpu /\ esp0 = "user" /\ owner = "USER"
    /\ \A t \in Slot : CanRun(t) /\ InUser(t) /\ t # cpu => kstack = t

\* A process is linked to its task one-to-one while it is active, and the task
\* of an active process is one the scheduler can still run.
LinkedOneToOne ==
    \A p \in Proc : Live(p) /\ ~(pp = p /\ sh \in {"spawn", "link"}) =>
        /\ proc[p].task # NULL
        /\ CanRun(proc[p].task)
        /\ tproc[proc[p].task] = p

\* From its entry until run_user_process returns, a user task works on a
\* process table slot that is still its own: the reap guard on
\* current_user_process keeps REAP from clearing it while the tail that
\* records the exit status is preempted.  (Variables have their types.)
HeldProcess ==
    /\ ProcTypeOK
    /\ \A t \in Slot : CanRun(t) /\ upc[t] \in {"start", "enter", "user", "mark", "close"} =>
          /\ proc[uproc[t]].state # "UNUSED"
          /\ proc[uproc[t]].task = t
          /\ proc[uproc[t]].space \in dirs

\* The page directory the processor uses has not been freed.
Cr3Live == cr3 \in dirs \cup {Kernel}

\* user_test_task and user_fault_task never point at a slot recycled for
\* another task: every walk that frees tasks is followed by
\* refresh_reaped_builtin_tasks before the shell spawns again.
BuiltinTasks ==
    \A k \in Builtin :
        /\ started[k] <=> btask[k] # NULL
        /\ btask[k] # NULL /\ sh \notin {"walk", "refresh"} => kind[btask[k]] = k

\* A built-in program is marked pending only while its task has yet to start,
\* so USERTEST and USERFAULT can be repeated.
PendingIsStarting ==
    \A k \in Builtin : pending[k] # NULL /\ sh # "spawn" =>
        \E t \in Slot : CanRun(t) /\ kind[t] = k /\ upc[t] = "entry"

\* The life of a process is the one user_mode.c:42-43 describes: a process
\* that has ended keeps the way it ended until it is reaped.
Lifecycle ==
    [][\A p \in Proc : proc'[p].state # proc[p].state =>
          <<proc[p].state, proc'[p].state>> \in
              {<<"UNUSED", "READY">>, <<"READY", "RUNNING">>,
               <<"READY", "KILLED">>, <<"READY", "UNUSED">>}
              \cup ({"RUNNING"} \X {"EXITED", "FAILED", "KILLED"})
              \cup ({"EXITED", "FAILED", "KILLED"} \X {"UNUSED"})]_allVars

\* The scheduler underneath behaves as Tasks says: leaving user mode through
\* user_context_restore goes on in the task that the scheduler believes to run.
SchedulerRefined == Spec

\* A started process gets to run, is killed or is cleared, unless the machine
\* has halted.
ReadyStarts == \A p \in Proc : proc[p].state = "READY" ~> (proc[p].state # "READY" \/ Hung)

\* A program that has called exit, with whatever code, or has faulted does end:
\* user_context_restore goes back to its own frame of run_user_program, its
\* status is recorded and run_user_process returns.
ExitCompletes ==
    \A t \in Slot : (CanRun(t) /\ ucode[t] # "none") ~> (ucode[t] = "none" \/ ~CanRun(t) \/ Hung)

=============================================================================
