------------------------ MODULE ProcessesInvariant ------------------------
(***************************************************************************)
(* The inductive invariant of Processes, for every number of tasks,        *)
(* processes and address spaces, and why the scheduler, the steps of user  *)
(* tasks, kills and the steps of the shell that do not run the scheduler's *)
(* code keep it.                                                           *)
(***************************************************************************)
EXTENDS Processes, TasksProofs

\* A leaf is for Zenon unless it says SMT.
USE ZenonT(30)

\* What the theorems assume of the timer and of the programs: the runs that
\* drop the second and the third assumption show that they are needed.
LinkIsMasked == ShellPreemptible \cap {"link", "space", "kill", "kill2"} = {}
OneEntered == Overlap # "any"
Guarded == ScheduleIsMasked /\ LinkIsMasked /\ OneEntered

-----------------------------------------------------------------------------
(* The inductive invariant. *)

\* Tasks and the code they run.  A user task leaves its own code only at the
\* end, in task_exit.
Bodies ==
    /\ body[Main] = "none" /\ body[Idle] = "none"
    /\ state[Main] # "EXITED" /\ tspace[Main] = Kernel
    /\ \A t \in Slot :
          /\ state[t] = "UNUSED" => body[t] = "none"
          /\ kind[t] # "none" <=> body[t] = "user"
          /\ body[t] = "user" /\ pc[t] # "run" => state[t] = "EXITED" /\ upc[t] = "bye"

\* The shell's point fits the point of the main task in the scheduler's code.
ShellPoints ==
    /\ pc[Main] = "reap" <=> sh = "walk"
    /\ pc[Main] \in {"spawn_a", "spawn_b", "record", "sched", "picked", "switch"}
          <=> sh = "testing"
    /\ pc[Main] # "dead"
    /\ sh \in {"link", "space", "kill", "kill2"} => cpu = Main
    /\ pc[Main] \in {"spawn_b", "record"} /\ a # NULL => body[a] = "thread"

\* The process and the task that a command is building, and the process that
\* KILL is about.
Building ==
    /\ sh \in {"spawn", "link", "space"} => pp \in Proc /\ proc[pp].state = "READY"
    /\ sh \in {"spawn", "link"} => proc[pp].task = NULL
    /\ sh \in {"link", "space"} =>
          tt \in Slot /\ CanRun(tt) /\ upc[tt] = "entry" /\ kind[tt] = KindOf(cmd)
    /\ sh = "link" => tproc[tt] = NULL
    /\ sh = "space" => proc[pp].task = tt /\ tproc[tt] = pp
    /\ sh = "kill2" => pp \in Proc /\ Live(pp) /\ proc[pp].task # NULL

\* Every process has an address space of its own, and the shell runs in the
\* kernel's.
Spaces ==
    /\ \A p \in Proc : proc[p].state # "UNUSED" => proc[p].space \in dirs
    /\ \A p, q \in Proc : proc[p].state # "UNUSED" /\ proc[q].state # "UNUSED" /\ p # q =>
          proc[p].space # proc[q].space
    /\ Cr3Live
    /\ current = Main => cr3 = Kernel

\* A user task that has not come to its end has a process, whose state says
\* where the task is.
Linking(t) == sh = "link" /\ tt = t
Active(t) == CanRun(t) /\ upc[t] # "bye" /\ ~Linking(t)
StateAt(t) ==
    CASE upc[t] \in {"entry", "start"} -> {"READY"}
      [] upc[t] \in {"enter", "user"} -> {"RUNNING"}
      [] upc[t] = "mark" -> IF ucode[t] = "fault" THEN {"RUNNING", "FAILED"} ELSE {"RUNNING"}
      [] OTHER -> {"EXITED", "FAILED"}
Holds ==
    \A t \in Slot : Active(t) =>
        /\ tproc[t] \in Proc /\ proc[tproc[t]].task = t
        /\ proc[tproc[t]].state \in StateAt(t)
        /\ upc[t] # "entry" => uproc[t] = tproc[t]
        /\ ~(sh = "space" /\ tt = t) => tspace[t] = proc[tproc[t]].space
        /\ current = t => cr3 = proc[tproc[t]].space

\* The task of a process that is active has not come to its end.
LinkedInv ==
    /\ LinkedOneToOne
    /\ \A p \in Proc : Live(p) /\ proc[p].task # NULL => upc[proc[p].task] # "bye"

\* At most one task is between its entry into user mode and the end of
\* run_user_process; the globals are about this one.
Inside(t) == CanRun(t) /\ upc[t] \in {"enter", "user", "mark", "close"}
Entered ==
    \A t \in Slot : Inside(t) =>
        /\ current_user_process = tproc[t]
        /\ \A u \in Slot \ {t} : ~Inside(u)
        /\ upc[t] = "user" => /\ saved = t /\ esp0 = "user" /\ owner = "USER"
                              /\ t # cpu => kstack = t

\* The variables of the built-in programs.
BuiltinInv ==
    /\ \A k \in Builtin :
          /\ started[k] <=> btask[k] # NULL
          /\ btask[k] # NULL => IF state[btask[k]] = "UNUSED" THEN sh \in {"walk", "refresh"}
                                                              ELSE kind[btask[k]] = k
    /\ \A t \in Slot : CanRun(t) /\ kind[t] \in Builtin /\ upc[t] = "entry" =>
          pending[kind[t]] = IF Linking(t) THEN pp ELSE tproc[t]
    /\ sh = "spawn" /\ KindOf(cmd) \in Builtin => pending[KindOf(cmd)] = pp

ProcInv ==
    /\ Inv /\ ProcTypeOK
    /\ Bodies /\ ShellPoints /\ Building /\ Spaces
    /\ Holds /\ LinkedInv /\ Entered /\ BuiltinInv

-----------------------------------------------------------------------------
(* Facts *)

\* The constants.
LEMMA ProcFacts ==
    /\ NULL \notin Proc /\ NULL \notin Space /\ Kernel \notin Space /\ NULL \notin Slot
    /\ Main \notin Slot /\ Idle \notin Slot /\ Main \in Task /\ Idle \in Task /\ Slot \subseteq Task
    /\ \A c : KindOf(c) \in {"file", "test", "fault"}
    /\ Builtin = {"test", "fault"} /\ "none" \notin Builtin /\ "file" \notin Builtin
BY TasksAssumption, ProcessesAssumption, SMT DEF Space, Kernel, Task, KindOf, BuiltinOf, Builtin

\* The parts of the invariant.
LEMMA ProcInvParts ==
    ASSUME ProcInv
    PROVE  /\ Inv /\ ProcTypeOK /\ Bodies /\ ShellPoints /\ Building /\ Spaces
           /\ Holds /\ LinkedInv /\ Entered /\ BuiltinInv
           /\ TypeOK /\ SettledTask /\ ScheduleInv
BY DEF ProcInv, Inv, RingInv

\* The user task on the processor is the current one, and it may run.
LEMMA AtUserFacts ==
    ASSUME Guarded, ProcInv, NEW t \in Slot, NEW point, AtUser(t, point)
    PROVE  /\ CanRun(t) /\ current = t /\ cpu = t /\ t # Main /\ pc[t] = "run" /\ upc[t] = point
           /\ sh \notin {"link", "space", "kill", "kill2"} /\ ~Linking(t)
           /\ point # "bye" => Active(t)
<1>1. cpu = t /\ body[t] = "user" /\ pc[t] = "run" /\ upc[t] = point /\ t # Main
  BY ProcFacts DEF AtUser
<1>2. current = t /\ state[t] = "RUNNING"
  BY <1>1, ProcInvParts DEF SettledTask, Exiting
<1>3. sh \notin {"link", "space", "kill", "kill2"}
  BY <1>1, ProcInvParts DEF ShellPoints
<1> QED  BY <1>1, <1>2, <1>3 DEF CanRun, Linking, Active

\* The shell runs in the main task and in the kernel's address space.
LEMMA AtShellFacts ==
    ASSUME ProcInv, ShellReady
    PROVE  cpu = Main /\ current = Main /\ pc[Main] = "run" /\ cr3 = Kernel
<1>1. cpu = Main /\ pc[Main] = "run"
  BY DEF ShellReady
<1> QED  BY <1>1, ProcInvParts DEF SettledTask, Spaces

-----------------------------------------------------------------------------
(* Steps of the scheduler *)

\* The processor changes hands, and of the process layer only cr3 and kstack
\* follow it.
Dispatches ==
    /\ Inv' /\ body' = body /\ a' = a
    /\ UNCHANGED <<tableVars, current_user_process, saved, esp0, owner, linkVars, userVars,
                   i, pp, tt, builtinVars>>
    /\ \A t \in Slot : CanRun(t)' = CanRun(t)
    /\ \A t \in Task : state'[t] = "UNUSED" <=> state[t] = "UNUSED"
    /\ \A t \in Task : state[t] = "EXITED" => state'[t] = "EXITED"
    /\ state'[Main] # "EXITED"
    /\ \A t \in Slot : body[t] = "user" => pc'[t] = "run" \/ pc[t] # "run"
    /\ \/ sh' = sh /\ (cmd' = cmd \/ (sh = "prompt" /\ cmd' = "none")) /\ pc'[Main] = pc[Main]
       \/ sh' = sh /\ cmd' = cmd /\ sh = "testing" /\ pc'[Main] \in {"picked", "switch"}
       \/ sh' = "prompt" /\ cmd' = "none" /\ sh = "testing" /\ pc'[Main] = "run"
    /\ sh \in {"link", "space", "kill", "kill2"} => cpu' = cpu
    /\ SwitchSpace /\ PushFrame

\* Such a step keeps the invariant.
LEMMA SchedulerStep ==
    ASSUME ProcInv, Dispatches
    PROVE  ProcInv'
<1>1. /\ ProcTypeOK /\ Bodies /\ ShellPoints /\ Building /\ Spaces
      /\ Holds /\ LinkedInv /\ Entered /\ BuiltinInv /\ TypeOK /\ SettledTask
  BY ProcInvParts
<1>2. /\ proc' = proc /\ starts' = starts /\ dirs' = dirs
      /\ current_user_process' = current_user_process
      /\ saved' = saved /\ esp0' = esp0 /\ owner' = owner /\ tproc' = tproc /\ tspace' = tspace
      /\ kind' = kind /\ upc' = upc /\ uproc' = uproc /\ ucode' = ucode
      /\ i' = i /\ pp' = pp /\ tt' = tt
      /\ pending' = pending /\ started' = started /\ btask' = btask
  BY DEF Dispatches, tableVars, linkVars, userVars, builtinVars
<1>3. TypeOK' /\ SettledTask' /\ current' \in Task
  BY DEF Dispatches, Inv, RingInv, TypeOK
<1>4. /\ sh' = sh \/ (sh = "testing" /\ sh' = "prompt")
      /\ sh' \notin {"prompt", "testing"} => cmd' = cmd
      /\ cmd' \in {cmd, "none"}
  BY DEF Dispatches
<1>15. SwitchSpace /\ PushFrame /\ \A t \in Slot : CanRun(t)' = CanRun(t)
  BY DEF Dispatches
<1>5. Cr3Live' /\ (current' = Main => cr3' = Kernel)
  BY <1>1, <1>2, <1>3, <1>15 DEF Spaces, Cr3Live, SwitchSpace, Bodies
<1>6. ProcTypeOK'
  <2>1. cr3' \in Space \cup {Kernel}
    BY <1>1, <1>2, <1>5 DEF ProcTypeOK, Cr3Live
  <2>2. kstack' \in Slot \cup {NULL}
    BY <1>1, <1>15, ProcFacts DEF ProcTypeOK, PushFrame, InUser, TypeOK, Task, Bodies
  <2>3. sh' \in SH /\ cmd' \in Command \cup {"none"}
    BY <1>1, <1>4 DEF ProcTypeOK, SH
  <2> QED  BY <1>1, <1>2, <2>1, <2>2, <2>3 DEF ProcTypeOK
<1>7. Bodies'
  BY <1>1, <1>2, ProcFacts DEF Bodies, Dispatches
<1>8. ShellPoints'
  BY <1>1, <1>2 DEF ShellPoints, Dispatches
<1>9. Building'
  <2>1. \A t \in Slot : CanRun(t)' = CanRun(t)
    BY <1>15
  <2>2. sh' \in {"spawn", "link", "space", "kill2"} => sh' = sh /\ cmd' = cmd
    BY <1>4
  <2>3. \A p \in Proc : Live(p)' = Live(p)
    BY <1>2 DEF Live
  <2> QED  BY <1>1, <1>2, <2>1, <2>2, <2>3 DEF Building
<1>10. Spaces'
  BY <1>1, <1>2, <1>5 DEF Spaces
<1>11. Holds'
  <2> SUFFICES ASSUME NEW t \in Slot, Active(t)'
               PROVE  /\ tproc[t] \in Proc /\ proc[tproc[t]].task = t
                      /\ proc[tproc[t]].state \in StateAt(t)'
                      /\ upc[t] # "entry" => uproc[t] = tproc[t]
                      /\ ~(sh' = "space" /\ tt = t) => tspace[t] = proc[tproc[t]].space
                      /\ current' = t => cr3' = proc[tproc[t]].space
    BY <1>2 DEF Holds
  <2>1. Active(t) /\ StateAt(t)' = StateAt(t)
    BY <1>2, <1>4, <1>15 DEF Active, Linking, StateAt
  <2>2. /\ tproc[t] \in Proc /\ proc[tproc[t]].task = t
        /\ proc[tproc[t]].state \in StateAt(t)
        /\ upc[t] # "entry" => uproc[t] = tproc[t]
        /\ ~(sh = "space" /\ tt = t) => tspace[t] = proc[tproc[t]].space
        /\ current = t => cr3 = proc[tproc[t]].space
    BY <1>1, <2>1 DEF Holds
  <2>3. ASSUME current' = t PROVE cr3' = proc[tproc[t]].space
    <3>1. CASE current' = current
      BY <1>15, <2>2, <2>3, <3>1 DEF SwitchSpace
    <3>2. CASE current' # current
      <4>1. sh # "space"
        <5>1. SettledTask' /\ (sh = "space" => cpu' = Main /\ pc'[Main] = "run")
          BY <1>1, <1>3, SMT DEF ShellPoints, Dispatches, ProcTypeOK, TypeOK, PC
        <5> QED  BY <2>3, <5>1, ProcFacts DEF SettledTask
      <4>2. tspace[t] = proc[tproc[t]].space /\ proc[tproc[t]].state # "UNUSED"
        BY <2>2, <4>1 DEF StateAt
      <4>3. tspace[t] \in dirs /\ tspace[t] # NULL
        BY <1>1, <2>2, <4>2, ProcFacts DEF Spaces, ProcTypeOK
      <4> QED  BY <1>15, <2>3, <3>2, <4>2, <4>3 DEF SwitchSpace
    <3> QED  BY <3>1, <3>2
  <2> QED  BY <1>4, <2>1, <2>2, <2>3
<1>12. LinkedInv'
  <2>1. \A p \in Proc : Live(p)' = Live(p)
    BY <1>2 DEF Live
  <2>2. \A p \in Proc : proc[p].task # NULL => proc[p].task \in Slot
    BY <1>1 DEF ProcTypeOK
  <2>3. sh' \in {"spawn", "link"} <=> sh \in {"spawn", "link"}
    BY <1>4
  <2> QED  BY <1>1, <1>2, <1>15, <2>1, <2>2, <2>3 DEF LinkedInv, LinkedOneToOne
<1>13. Entered'
  <2>1. \A t \in Slot : Inside(t)' = Inside(t)
    BY <1>2, <1>15 DEF Inside
  <2>2. ASSUME NEW t \in Slot, Inside(t), upc[t] = "user", t # cpu' PROVE kstack' = t
    <3>1. CASE t = cpu
      BY <1>1, <1>15, <2>2, <3>1 DEF PushFrame, Entered, InUser, Inside, CanRun
    <3>2. CASE t # cpu
      <4>1. kstack = t
        BY <1>1, <2>2, <3>2 DEF Entered
      <4>2. ~InUser(cpu)
        <5>1. SUFFICES ASSUME InUser(cpu) PROVE FALSE
          OBVIOUS
        <5>2. cpu \in Slot
          BY <1>1, <5>1 DEF InUser, Bodies, TypeOK, Task
        <5>3. pc[cpu] = "run" /\ state[cpu] = "RUNNING"
          BY <1>1, <5>1, <5>2 DEF InUser, Bodies, SettledTask, Exiting
        <5>4. Inside(cpu)
          BY <5>1, <5>3 DEF InUser, Inside, CanRun
        <5> QED  BY <1>1, <2>2, <3>2, <5>2, <5>4 DEF Entered
      <4> QED  BY <1>15, <4>1, <4>2 DEF PushFrame
    <3> QED  BY <3>1, <3>2
  <2> QED  BY <1>1, <1>2, <2>1, <2>2 DEF Entered
<1>14. BuiltinInv'
  <2>1. \A t \in Slot : Linking(t)' = Linking(t)
    BY <1>2, <1>4 DEF Linking
  <2>2. \A k \in Builtin : btask[k] # NULL => btask[k] \in Slot
    BY <1>1 DEF ProcTypeOK
  <2>3. sh' = "spawn" => sh = "spawn" /\ cmd' = cmd
    BY <1>4
  <2>4. sh \in {"walk", "refresh"} <=> sh' \in {"walk", "refresh"}
    BY <1>4
  <2>5. body' = body /\ \A t \in Slot : state'[t] = "UNUSED" <=> state[t] = "UNUSED"
    BY DEF Dispatches, Task
  <2> QED  BY <1>1, <1>2, <1>15, <2>1, <2>2, <2>3, <2>4, <2>5, ProcFacts, SMT DEF BuiltinInv
<1>16. Inv'
  BY DEF Dispatches
<1> QED  BY <1>6, <1>7, <1>8, <1>9, <1>10, <1>11, <1>12, <1>13, <1>14, <1>16 DEF ProcInv

\* schedule() hands the processor over: only READY and RUNNING change.
LEMMA CommitFacts ==
    ASSUME TypeOK, Bodies, NEW p \in Task, NEW n \in Task, state[n] = "READY", Commit(p, n),
           body' = body
    PROVE  /\ \A t \in Slot : CanRun(t)' = CanRun(t)
           /\ \A t \in Task : state'[t] = "UNUSED" <=> state[t] = "UNUSED"
           /\ \A t \in Task : state[t] = "EXITED" => state'[t] = "EXITED"
           /\ state'[Main] # "EXITED"
<1>1. \A t \in Task : state'[t] = IF t = n THEN "RUNNING"
                                  ELSE IF t = p /\ state[p] = "RUNNING" THEN "READY" ELSE state[t]
  BY DEF TypeOK, Commit
<1> QED  BY <1>1, ProcFacts DEF CanRun, Bodies

\* schedule() in an interrupt or system call ends no task and creates none.
LEMMA MaskedFacts ==
    ASSUME ProcInv, ScheduleMasked, body' = body
    PROVE  /\ \A t \in Slot : CanRun(t)' = CanRun(t)
           /\ \A t \in Task : state'[t] = "UNUSED" <=> state[t] = "UNUSED"
           /\ \A t \in Task : state[t] = "EXITED" => state'[t] = "EXITED"
           /\ state'[Main] # "EXITED"
<1>1. CASE UNCHANGED <<state, cpuVars>>
  BY <1>1, ProcInvParts DEF CanRun, Bodies
<1>2. CASE \E n \in Task : FirstReady(n) /\ Commit(current, n)
  <2>1. PICK n \in Task : FirstReady(n) /\ Commit(current, n)
    BY <1>2
  <2>2. state[n] = "READY" /\ current \in Task
    BY <2>1, ProcInvParts DEF FirstReady, TypeOK
  <2> QED  BY <2>1, <2>2, ProcInvParts, CommitFacts
<1> QED  BY <1>1, <1>2 DEF ScheduleMasked

\* Where the main task stands while the shell links or kills.
LEMMA MaskedPoints ==
    ASSUME ProcInv, sh \in {"link", "space", "kill", "kill2"}
    PROVE  cpu = Main /\ pc[Main] = "run"
<1>1. cpu = Main /\ pc[Main] \in PC
  BY ProcInvParts, ProcFacts DEF ShellPoints, TypeOK
<1> QED  BY <1>1, ProcInvParts DEF ShellPoints, PC

\* The timer interrupt.
LEMMA TickStep ==
    ASSUME Guarded, ProcInv, Tick
    PROVE  ProcInv'
<1>1. /\ Timer /\ SwitchSpace /\ PushFrame /\ sh' = sh /\ cmd' = cmd
      /\ UNCHANGED <<tableVars, current_user_process, saved, esp0, owner, linkVars,
                     userVars, i, pp, tt, builtinVars>>
  BY DEF Tick, shellVars
<1>2. ScheduleMasked /\ body' = body /\ pc' = pc /\ a' = a
  BY <1>1 DEF Timer, codeVars, mainVars
<1>3. Inv'
  BY <1>1, InvNext, ProcInvParts DEF Guarded, Next
<1>4. sh \notin {"link", "space", "kill", "kill2"}
  <2>1. sh \in {"link", "space", "kill", "kill2"} => sh \in ShellPreemptible
    BY MaskedPoints DEF Tick
  <2> QED  BY <2>1 DEF Guarded, LinkIsMasked
<1>5. Dispatches
  BY <1>1, <1>2, <1>3, <1>4, MaskedFacts DEF Dispatches
<1> QED  BY <1>5, SchedulerStep

\* SYS_YIELD.
LEMMA YieldStep ==
    ASSUME Guarded, ProcInv, NEW t \in Slot, SysYield(t)
    PROVE  ProcInv'
<1>1. /\ Yield /\ SwitchSpace /\ PushFrame /\ sh' = sh /\ cmd' = cmd
      /\ UNCHANGED <<tableVars, current_user_process, saved, esp0, owner, linkVars,
                     userVars, i, pp, tt, builtinVars>>
  BY DEF SysYield, shellVars
<1>2. ScheduleMasked /\ body' = body /\ pc' = pc /\ a' = a
  BY <1>1 DEF Yield, codeVars, mainVars
<1>3. Inv'
  BY <1>1, InvNext, ProcInvParts DEF Guarded, Next, UserStep
<1>4. sh \notin {"link", "space", "kill", "kill2"}
  BY AtUserFacts DEF SysYield
<1>5. Dispatches
  BY <1>1, <1>2, <1>3, <1>4, MaskedFacts DEF Dispatches
<1> QED  BY <1>5, SchedulerStep

\* schedule() called with interrupts on, and the test threads.
LEMMA RescheduleStep ==
    ASSUME Guarded, ProcInv, Reschedule
    PROVE  ProcInv'
<1>1. /\ SwitchSpace /\ sh' = (IF cpu = Main /\ pc'[Main] = "run" THEN "prompt" ELSE sh)
      /\ cmd' = (IF sh' = "prompt" THEN "none" ELSE cmd) /\ kstack' = kstack
      /\ UNCHANGED <<tableVars, current_user_process, saved, esp0, owner, linkVars,
                     userVars, i, pp, tt, builtinVars>>
  BY DEF Reschedule, globalVars, ShellAt
<1>2. Inv'
  BY InvNext, ProcInvParts DEF Guarded, Reschedule, Next, KernelStep
<1>3. /\ TypeOK /\ Bodies /\ ShellPoints /\ SettledTask /\ ScheduleInv /\ cpu \in Task
      /\ pc \in [Task -> PC] /\ state \in [Task -> TaskState]
  BY ProcInvParts DEF TypeOK
<1>4. \/ pc[cpu] \in {"sched", "picked", "switch"}
      \/ body[cpu] = "thread" /\ pc[cpu] = "run"
  BY DEF Reschedule, ScheduleSelect, ScheduleCommit, ScheduleSwitch, ThreadLoop,
     ThreadEnd, TaskExit
<1>5. sh \notin {"link", "space", "kill", "kill2"}
  BY <1>3, <1>4, MaskedPoints DEF Bodies
<1>6. PushFrame
  <2>1. ~InUser(cpu)
    BY <1>3, <1>4 DEF InUser, Bodies, Task
  <2> QED  BY <1>1, <2>1 DEF PushFrame
<1>7. a' = a /\ body' = body /\ \E x \in PC : pc' = [pc EXCEPT ![cpu] = x]
  BY DEF Reschedule, ScheduleSelect, ScheduleCommit, ScheduleSwitch, ThreadLoop,
     ThreadEnd, TaskExit, Return, ringVars, mainVars, PC
<1>8. \A t \in Slot : body[t] = "user" => pc'[t] = "run" \/ pc[t] # "run"
  BY <1>3, <1>4, <1>7, ProcFacts
<1>9. \/ sh' = sh /\ (cmd' = cmd \/ (sh = "prompt" /\ cmd' = "none")) /\ pc'[Main] = pc[Main]
      \/ sh' = sh /\ cmd' = cmd /\ sh = "testing" /\ pc'[Main] \in {"picked", "switch"}
      \/ sh' = "prompt" /\ cmd' = "none" /\ sh = "testing" /\ pc'[Main] = "run"
  <2>1. CASE cpu # Main
    BY <1>1, <1>3, <1>7, <2>1, ProcFacts
  <2>2. CASE cpu = Main
    <3>1. pc[Main] \in {"sched", "picked", "switch"} /\ sh = "testing"
      BY <1>3, <1>4, <2>2 DEF Bodies, ShellPoints
    <3>2. pc'[Main] \in {"picked", "switch", "run"}
      <4>1. \/ Return(Main) \/ pc' = [pc EXCEPT ![Main] = "picked"]
            \/ pc' = [pc EXCEPT ![Main] = "switch"]
        BY <1>3, <2>2, <3>1 DEF Reschedule, ScheduleSelect, ScheduleCommit,
           ScheduleSwitch, ThreadLoop, ThreadEnd, Bodies
      <4> QED  BY <1>3, <4>1, ProcFacts DEF Return, Bodies
    <3> QED  BY <1>1, <2>2, <3>1, <3>2
  <2> QED  BY <2>1, <2>2
<1>10. /\ \A t \in Slot : CanRun(t)' = CanRun(t)
       /\ \A t \in Task : state'[t] = "UNUSED" <=> state[t] = "UNUSED"
       /\ \A t \in Task : state[t] = "EXITED" => state'[t] = "EXITED"
       /\ state'[Main] # "EXITED"
  <2>1. CASE ScheduleSelect \/ ScheduleSwitch \/ ThreadLoop
    <3>1. state' = state
      BY <2>1 DEF ScheduleSelect, ScheduleSwitch, ThreadLoop, ringVars
    <3> QED  BY <1>3, <1>7, <3>1 DEF CanRun, Bodies
  <2>2. CASE ScheduleCommit
    <3>1. /\ sel[cpu][1] \in Task /\ sel[cpu][2] \in Task /\ state[sel[cpu][2]] = "READY"
          /\ Commit(sel[cpu][1], sel[cpu][2])
      BY <1>3, <2>2 DEF ScheduleCommit, ScheduleInv, MidSchedule
    <3> QED  BY <1>3, <1>7, <3>1, CommitFacts
  <2>3. CASE ThreadEnd
    <3>1. current = cpu /\ body[cpu] = "thread" /\ state[cpu] = "RUNNING"
      BY <1>3, <2>3 DEF ThreadEnd, TaskExit, SettledTask, Exiting
    <3>2. state' = [state EXCEPT ![cpu] = "EXITED"]
      BY <2>3, <3>1 DEF ThreadEnd, TaskExit
    <3>3. \A t \in Task : state'[t] = IF t = cpu THEN "EXITED" ELSE state[t]
      BY <1>3, <3>2
    <3> QED  BY <1>3, <1>7, <3>1, <3>3, ProcFacts DEF CanRun, Bodies
  <2> QED  BY <2>1, <2>2, <2>3 DEF Reschedule
<1>11. Dispatches
  BY <1>1, <1>2, <1>5, <1>6, <1>7, <1>8, <1>9, <1>10 DEF Dispatches
<1> QED  BY <1>11, SchedulerStep

-----------------------------------------------------------------------------
(* Steps of user tasks *)

\* Setting the state field of a process leaves the table otherwise alone.
LEMMA SetState ==
    ASSUME ProcTypeOK, NEW p \in Proc, NEW st \in ProcState,
           proc' = [proc EXCEPT ![p].state = st]
    PROVE  /\ proc' \in [Proc -> [state : ProcState, task : Slot \cup {NULL},
                                  space : Space \cup {NULL}]]
           /\ \A q \in Proc : /\ proc'[q].task = proc[q].task /\ proc'[q].space = proc[q].space
                              /\ proc'[q].state = IF q = p THEN st ELSE proc[q].state
BY SMT DEF ProcTypeOK

\* The task on the processor goes on to the point pt and may change the state
\* of its own process.
Within == {"enter", "user", "mark", "close"}
Local(t, from, pt) ==
    /\ AtUser(t, from) /\ from # "bye" /\ pt \in UPC \ {"entry"} /\ ProcTypeOK'
    /\ UNCHANGED <<vars, starts, dirs, cr3, linkVars, shellVars, started, btask>>
    /\ upc' = [upc EXCEPT ![t] = pt]
    /\ \A p \in Proc : /\ proc'[p].task = proc[p].task /\ proc'[p].space = proc[p].space
                       /\ p # tproc[t] => proc'[p].state = proc[p].state
    /\ IF pt = "bye" THEN proc'[tproc[t]].state \in {"EXITED", "FAILED"}
                     ELSE proc'[tproc[t]].state \in StateAt(t)'
    /\ uproc'[t] = tproc[t]
    /\ \A u \in Slot \ {t} : uproc'[u] = uproc[u] /\ ucode'[u] = ucode[u]
    /\ pt \in Within => /\ current_user_process' = tproc[t]
                        /\ from \in Within \/ Alone(t)
    /\ pt = "user" => saved' = t /\ esp0' = "user" /\ owner' = "USER"
    /\ from \notin Within /\ pt \notin Within => UNCHANGED globalVars
    /\ \/ pending' = pending
       \/ /\ from = "entry" /\ kind[t] \in Builtin
          /\ pending' = [pending EXCEPT ![kind[t]] = NULL]

\* What stays as it is.
LEMMA LocalSame ==
    ASSUME NEW t, NEW from, NEW pt, Local(t, from, pt)
    PROVE  /\ starts' = starts /\ dirs' = dirs /\ cr3' = cr3
           /\ tproc' = tproc /\ tspace' = tspace /\ kind' = kind
           /\ sh' = sh /\ cmd' = cmd /\ i' = i /\ pp' = pp /\ tt' = tt
           /\ started' = started /\ btask' = btask /\ UNCHANGED vars
           /\ state' = state /\ body' = body /\ current' = current /\ cpu' = cpu
           /\ pc' = pc /\ a' = a
           /\ \A u \in Slot : CanRun(u)' = CanRun(u)
<1>1. UNCHANGED <<vars, starts, dirs, cr3, linkVars, shellVars, started, btask>>
  BY DEF Local
<1> QED  BY <1>1 DEF linkVars, shellVars, vars, ringVars, cpuVars, codeVars, mainVars, CanRun

\* The task and its process.
LEMMA LocalFacts ==
    ASSUME Guarded, ProcInv, NEW t \in Slot, NEW from, NEW pt, Local(t, from, pt)
    PROVE  /\ CanRun(t) /\ current = t /\ cpu = t /\ t # Main /\ pc[t] = "run" /\ upc[t] = from
           /\ sh \notin {"link", "space", "kill", "kill2"} /\ ~Linking(t) /\ Active(t)
           /\ tproc[t] \in Proc /\ proc[tproc[t]].task = t /\ proc[tproc[t]].state \in StateAt(t)
           /\ tspace[t] = proc[tproc[t]].space /\ cr3 = proc[tproc[t]].space
           /\ proc[tproc[t]].state # "UNUSED" /\ proc'[tproc[t]].state # "UNUSED"
           /\ \A u \in Task : upc'[u] = IF u = t THEN pt ELSE upc[u]
<1>1. /\ AtUser(t, from) /\ from # "bye" /\ upc' = [upc EXCEPT ![t] = pt]
      /\ \/ proc'[tproc[t]].state \in {"EXITED", "FAILED"}
         \/ proc'[tproc[t]].state \in StateAt(t)'
  BY DEF Local
<1>2. /\ CanRun(t) /\ current = t /\ cpu = t /\ t # Main /\ pc[t] = "run" /\ upc[t] = from
      /\ sh \notin {"link", "space", "kill", "kill2"} /\ ~Linking(t) /\ Active(t)
  BY <1>1, AtUserFacts
<1>3. /\ tproc[t] \in Proc /\ proc[tproc[t]].task = t /\ proc[tproc[t]].state \in StateAt(t)
      /\ tspace[t] = proc[tproc[t]].space /\ cr3 = proc[tproc[t]].space
  BY <1>2, ProcInvParts DEF Holds
<1>4. \A u \in Task : upc'[u] = IF u = t THEN pt ELSE upc[u]
  BY <1>1, ProcInvParts DEF ProcTypeOK
<1>5. proc[tproc[t]].state # "UNUSED" /\ proc'[tproc[t]].state # "UNUSED"
  BY <1>1, <1>3 DEF StateAt
<1> QED  BY <1>2, <1>3, <1>4, <1>5

\* Types, address spaces and what the shell is building, after a local step.
LEMMA LocalTables ==
    ASSUME Guarded, ProcInv, NEW t \in Slot, NEW from, NEW pt, Local(t, from, pt)
    PROVE  Bodies' /\ ShellPoints' /\ Building' /\ Spaces'
<1>1. /\ ProcTypeOK /\ Bodies /\ ShellPoints /\ Building /\ Spaces
      /\ Holds /\ LinkedInv /\ Entered /\ BuiltinInv /\ TypeOK /\ SettledTask
  BY ProcInvParts
<1>2. /\ starts' = starts /\ dirs' = dirs /\ cr3' = cr3
      /\ tproc' = tproc /\ tspace' = tspace /\ kind' = kind
      /\ sh' = sh /\ cmd' = cmd /\ i' = i /\ pp' = pp /\ tt' = tt
      /\ started' = started /\ btask' = btask
      /\ state' = state /\ body' = body /\ current' = current /\ cpu' = cpu /\ pc' = pc /\ a' = a
  BY LocalSame
<1>4. /\ CanRun(t) /\ current = t /\ cpu = t /\ t # Main /\ pc[t] = "run" /\ upc[t] = from
      /\ sh \notin {"link", "space", "kill", "kill2"} /\ ~Linking(t) /\ Active(t)
  BY LocalFacts
<1>5. /\ tproc[t] \in Proc /\ proc[tproc[t]].task = t
      /\ tspace[t] = proc[tproc[t]].space /\ cr3 = proc[tproc[t]].space
  BY LocalFacts
<1>6. \A u \in Task : upc'[u] = IF u = t THEN pt ELSE upc[u]
  BY LocalFacts, SMT
<1>8. \A p \in Proc : /\ proc'[p].task = proc[p].task /\ proc'[p].space = proc[p].space
                      /\ p # tproc[t] => proc'[p].state = proc[p].state
  BY DEF Local
<1>9. proc[tproc[t]].state # "UNUSED" /\ proc'[tproc[t]].state # "UNUSED"
  BY LocalFacts
<1>10. Bodies'
  BY <1>1, <1>2, <1>4, <1>6, ProcFacts DEF Bodies
<1>11. ShellPoints'
  BY <1>1, <1>2 DEF ShellPoints
<1>12. Building'
  BY <1>1, <1>2, <1>4, <1>5, <1>8, ProcFacts, SMT DEF Building
<1>13. Spaces'
  <2>1. \A p \in Proc : proc'[p].state # "UNUSED" <=> proc[p].state # "UNUSED"
    BY <1>8, <1>9
  <2> QED  BY <1>1, <1>2, <1>8, <2>1, SMT DEF Spaces, Cr3Live
<1> QED  BY <1>10, <1>11, <1>12, <1>13

\* The state of a process still says where its task is: only the task that
\* moved has a new place, and the step gave its process the state for it.
LEMMA LocalHolds ==
    ASSUME Guarded, ProcInv, NEW t \in Slot, NEW from, NEW pt, Local(t, from, pt)
    PROVE  Holds'
<1>1. /\ ProcTypeOK /\ Bodies /\ ShellPoints /\ Building /\ Spaces
      /\ Holds /\ LinkedInv /\ Entered /\ BuiltinInv /\ TypeOK /\ SettledTask
  BY ProcInvParts
<1>2. /\ starts' = starts /\ dirs' = dirs /\ cr3' = cr3
      /\ tproc' = tproc /\ tspace' = tspace /\ kind' = kind
      /\ sh' = sh /\ cmd' = cmd /\ i' = i /\ pp' = pp /\ tt' = tt
      /\ started' = started /\ btask' = btask
      /\ state' = state /\ body' = body /\ current' = current /\ cpu' = cpu /\ pc' = pc /\ a' = a
  BY LocalSame
<1>4. /\ CanRun(t) /\ current = t /\ cpu = t /\ t # Main /\ pc[t] = "run" /\ upc[t] = from
      /\ sh \notin {"link", "space", "kill", "kill2"} /\ ~Linking(t) /\ Active(t)
  BY LocalFacts
<1>5. /\ tproc[t] \in Proc /\ proc[tproc[t]].task = t
      /\ tspace[t] = proc[tproc[t]].space /\ cr3 = proc[tproc[t]].space
  BY LocalFacts
<1>6. \A u \in Task : upc'[u] = IF u = t THEN pt ELSE upc[u]
  BY LocalFacts, SMT
<1>7. \A u \in Slot : CanRun(u)' = CanRun(u)
  BY LocalSame
<1>8. \A p \in Proc : /\ proc'[p].task = proc[p].task /\ proc'[p].space = proc[p].space
                      /\ p # tproc[t] => proc'[p].state = proc[p].state
  BY DEF Local
<1>9. /\ pt # "bye" => proc'[tproc[t]].state \in StateAt(t)'
      /\ uproc'[t] = tproc[t]
      /\ \A u \in Slot \ {t} : uproc'[u] = uproc[u] /\ ucode'[u] = ucode[u]
  BY DEF Local
<1>10. Holds'
  <2> SUFFICES ASSUME NEW u \in Slot, Active(u)'
               PROVE  /\ tproc[u] \in Proc /\ proc'[tproc[u]].task = u
                      /\ proc'[tproc[u]].state \in StateAt(u)'
                      /\ upc'[u] # "entry" => uproc'[u] = tproc[u]
                      /\ ~(sh = "space" /\ tt = u) => tspace[u] = proc'[tproc[u]].space
                      /\ current = u => cr3 = proc'[tproc[u]].space
    BY <1>2 DEF Holds
  <2>1. CASE u = t
    <3>1. pt # "bye"
      BY <1>6, <2>1, ProcFacts DEF Active
    <3> QED  BY <1>4, <1>5, <1>8, <1>9, <2>1, <3>1
  <2>2. CASE u # t
    <3>1. Active(u) /\ upc'[u] = upc[u] /\ ucode'[u] = ucode[u]
      BY <1>2, <1>6, <1>7, <1>9, <2>2, ProcFacts DEF Active, Linking
    <3>2. StateAt(u)' = StateAt(u)
      BY <3>1 DEF StateAt
    <3>3. tproc[u] \in Proc /\ proc[tproc[u]].task = u /\ tproc[u] # tproc[t]
      BY <1>1, <1>5, <2>2, <3>1 DEF Holds
    <3> QED  BY <1>1, <1>4, <1>8, <1>9, <2>2, <3>1, <3>2, <3>3 DEF Holds
  <2> QED  BY <2>1, <2>2
<1> QED  BY <1>10

\* A local step links and unlinks nothing.
LEMMA LocalLinked ==
    ASSUME Guarded, ProcInv, NEW t \in Slot, NEW from, NEW pt, Local(t, from, pt)
    PROVE  LinkedInv'
<1>1. /\ ProcTypeOK /\ Bodies /\ ShellPoints /\ Building /\ Spaces
      /\ Holds /\ LinkedInv /\ Entered /\ BuiltinInv /\ TypeOK /\ SettledTask
  BY ProcInvParts
<1>2. /\ starts' = starts /\ dirs' = dirs /\ cr3' = cr3
      /\ tproc' = tproc /\ tspace' = tspace /\ kind' = kind
      /\ sh' = sh /\ cmd' = cmd /\ i' = i /\ pp' = pp /\ tt' = tt
      /\ started' = started /\ btask' = btask
      /\ state' = state /\ body' = body /\ current' = current /\ cpu' = cpu /\ pc' = pc /\ a' = a
  BY LocalSame
<1>4. /\ CanRun(t) /\ current = t /\ cpu = t /\ t # Main /\ pc[t] = "run" /\ upc[t] = from
      /\ sh \notin {"link", "space", "kill", "kill2"} /\ ~Linking(t) /\ Active(t)
  BY LocalFacts
<1>5. /\ tproc[t] \in Proc /\ proc[tproc[t]].task = t
      /\ tspace[t] = proc[tproc[t]].space /\ cr3 = proc[tproc[t]].space
  BY LocalFacts
<1>6. \A u \in Task : upc'[u] = IF u = t THEN pt ELSE upc[u]
  BY LocalFacts, SMT
<1>7. \A u \in Slot : CanRun(u)' = CanRun(u)
  BY LocalSame
<1>8. \A p \in Proc : /\ proc'[p].task = proc[p].task /\ proc'[p].space = proc[p].space
                      /\ p # tproc[t] => proc'[p].state = proc[p].state
  BY DEF Local
<1>9. pt = "bye" => proc'[tproc[t]].state \in {"EXITED", "FAILED"}
  BY DEF Local
<1>10. LinkedInv'
  <2>1. ASSUME NEW p \in Proc, Live(p)', ~(pp = p /\ sh \in {"spawn", "link"})
        PROVE  proc[p].task # NULL /\ CanRun(proc[p].task) /\ tproc[proc[p].task] = p
    <3>1. CASE p = tproc[t]
      BY <1>4, <1>5, <3>1, ProcFacts
    <3>2. CASE p # tproc[t]
      BY <1>1, <1>8, <2>1, <3>2 DEF LinkedInv, LinkedOneToOne, Live
    <3> QED  BY <3>1, <3>2
  <2>2. ASSUME NEW p \in Proc, Live(p)', proc[p].task # NULL
        PROVE  upc'[proc[p].task] # "bye"
    <3>1. CASE p = tproc[t]
      BY <1>5, <1>6, <1>9, <2>2, <3>1, ProcFacts DEF Live
    <3>2. CASE p # tproc[t]
      <4>1. Live(p) /\ proc[p].task \in Slot
        BY <1>1, <1>8, <2>2, <3>2 DEF Live, ProcTypeOK
      <4>2. upc[proc[p].task] # "bye" /\ tproc[proc[p].task] = p
        BY <1>1, <1>5, <2>2, <4>1, ProcFacts DEF LinkedInv, LinkedOneToOne, Building
      <4> QED  BY <1>6, <3>2, <4>1, <4>2, ProcFacts
    <3> QED  BY <3>1, <3>2
  <2>3. \A p \in Proc : proc[p].task # NULL => proc[p].task \in Slot
    BY <1>1 DEF ProcTypeOK
  <2> QED  BY <1>2, <1>7, <1>8, <2>1, <2>2, <2>3 DEF LinkedInv, LinkedOneToOne
<1> QED  BY <1>10

\* A program that is entered finds none before it: the hypothesis OneEntered.
LEMMA LocalEntered ==
    ASSUME Guarded, ProcInv, NEW t \in Slot, NEW from, NEW pt, Local(t, from, pt)
    PROVE  Entered'
<1>1. /\ ProcTypeOK /\ Bodies /\ ShellPoints /\ Building /\ Spaces
      /\ Holds /\ LinkedInv /\ Entered /\ BuiltinInv /\ TypeOK /\ SettledTask
  BY ProcInvParts
<1>2. /\ starts' = starts /\ dirs' = dirs /\ cr3' = cr3
      /\ tproc' = tproc /\ tspace' = tspace /\ kind' = kind
      /\ sh' = sh /\ cmd' = cmd /\ i' = i /\ pp' = pp /\ tt' = tt
      /\ started' = started /\ btask' = btask
      /\ state' = state /\ body' = body /\ current' = current /\ cpu' = cpu /\ pc' = pc /\ a' = a
  BY LocalSame
<1>4. /\ CanRun(t) /\ current = t /\ cpu = t /\ t # Main /\ pc[t] = "run" /\ upc[t] = from
      /\ sh \notin {"link", "space", "kill", "kill2"} /\ ~Linking(t) /\ Active(t)
  BY LocalFacts
<1>6. \A u \in Task : upc'[u] = IF u = t THEN pt ELSE upc[u]
  BY LocalFacts, SMT
<1>7. \A u \in Slot : CanRun(u)' = CanRun(u)
  BY LocalSame
<1>8. /\ pt \in Within => /\ current_user_process' = tproc[t]
                          /\ from \in Within \/ Alone(t)
      /\ pt = "user" => saved' = t /\ esp0' = "user" /\ owner' = "USER"
      /\ from \notin Within /\ pt \notin Within => UNCHANGED globalVars
  BY DEF Local
<1>9. Entered'
  <2> SUFFICES ASSUME NEW u \in Slot, Inside(u)'
               PROVE  /\ current_user_process' = tproc[u]
                      /\ \A w \in Slot \ {u} : ~Inside(w)'
                      /\ upc'[u] = "user" => /\ saved' = u /\ esp0' = "user" /\ owner' = "USER"
                                             /\ u # cpu => kstack' = u
    BY <1>2 DEF Entered
  <2>1. \A w \in Slot \ {t} : Inside(w)' = Inside(w)
    BY <1>6, <1>7, ProcFacts DEF Inside
  <2>2. from \in Within => \A w \in Slot \ {t} : ~Inside(w)
    BY <1>1, <1>4 DEF Entered, Inside, Within
  <2>3. Alone(t) => \A w \in Slot \ {t} : ~Inside(w)
    BY DEF Alone, Inside
  <2>4. CASE u = t
    <3>1. pt \in Within
      BY <1>6, <2>4, ProcFacts DEF Inside, Within
    <3> QED  BY <1>4, <1>6, <1>8, <2>1, <2>2, <2>3, <2>4, <3>1, ProcFacts
  <2>5. CASE u # t
    <3>1. Inside(u) /\ from \notin Within /\ pt \notin Within
      BY <1>8, <2>1, <2>2, <2>3, <2>5
    <3>2. UNCHANGED globalVars /\ upc'[u] = upc[u] /\ ~Inside(t)'
      BY <1>6, <1>8, <2>5, <3>1, ProcFacts DEF Inside, Within
    <3> QED  BY <1>1, <2>1, <2>5, <3>1, <3>2 DEF Entered, globalVars
  <2> QED  BY <2>4, <2>5
<1> QED  BY <1>9

\* The pending process of a built-in test changes only when its task takes it.
LEMMA LocalBuiltin ==
    ASSUME Guarded, ProcInv, NEW t \in Slot, NEW from, NEW pt, Local(t, from, pt)
    PROVE  BuiltinInv'
<1>1. /\ ProcTypeOK /\ Bodies /\ ShellPoints /\ Building /\ Spaces
      /\ Holds /\ LinkedInv /\ Entered /\ BuiltinInv /\ TypeOK /\ SettledTask
  BY ProcInvParts
<1>2. /\ starts' = starts /\ dirs' = dirs /\ cr3' = cr3
      /\ tproc' = tproc /\ tspace' = tspace /\ kind' = kind
      /\ sh' = sh /\ cmd' = cmd /\ i' = i /\ pp' = pp /\ tt' = tt
      /\ started' = started /\ btask' = btask
      /\ state' = state /\ body' = body /\ current' = current /\ cpu' = cpu /\ pc' = pc /\ a' = a
  BY LocalSame
<1>4. /\ CanRun(t) /\ current = t /\ cpu = t /\ t # Main /\ pc[t] = "run" /\ upc[t] = from
      /\ sh \notin {"link", "space", "kill", "kill2"} /\ ~Linking(t) /\ Active(t)
  BY LocalFacts
<1>5. /\ tproc[t] \in Proc /\ proc[tproc[t]].task = t
      /\ tspace[t] = proc[tproc[t]].space /\ cr3 = proc[tproc[t]].space
  BY LocalFacts
<1>6. \A u \in Task : upc'[u] = IF u = t THEN pt ELSE upc[u]
  BY LocalFacts, SMT
<1>7. \A u \in Slot : CanRun(u)' = CanRun(u)
  BY LocalSame
<1>8. \/ pending' = pending
      \/ /\ from = "entry" /\ kind[t] \in Builtin
         /\ pending' = [pending EXCEPT ![kind[t]] = NULL]
  BY DEF Local
<1>9. pt # "entry"
  BY DEF Local
<1>10. BuiltinInv'
  <2>1. \A k \in Builtin :
          /\ started'[k] <=> btask'[k] # NULL
          /\ btask'[k] # NULL => IF state'[btask'[k]] = "UNUSED" THEN sh' \in {"walk", "refresh"}
                                                              ELSE kind'[btask'[k]] = k
    BY <1>1, <1>2 DEF BuiltinInv
  <2>2. ASSUME NEW u \in Slot, CanRun(u), kind[u] \in Builtin, upc'[u] = "entry"
        PROVE  pending'[kind[u]] = tproc[u]
    <3>1. u # t /\ upc[u] = "entry" /\ ~Linking(u)
      BY <1>4, <1>6, <1>9, <2>2, ProcFacts DEF Linking
    <3>2. pending[kind[u]] = tproc[u] /\ Active(u)
      BY <1>1, <2>2, <3>1 DEF BuiltinInv, Active
    <3>3. tproc[u] # tproc[t]
      BY <1>1, <1>5, <3>1, <3>2 DEF Holds
    <3>4. from = "entry" /\ kind[t] \in Builtin => kind[u] # kind[t]
      BY <1>1, <1>4, <3>2, <3>3 DEF BuiltinInv
    <3> QED  BY <1>1, <1>8, <2>2, <3>2, <3>4 DEF ProcTypeOK
  <2>3. ASSUME sh = "spawn", KindOf(cmd) \in Builtin
        PROVE  pending'[KindOf(cmd)] = pp
    <3>1. pp # tproc[t] /\ pending[KindOf(cmd)] = pp
      BY <1>1, <1>5, <2>3, ProcFacts, SMT DEF Building, BuiltinInv
    <3>2. from = "entry" /\ kind[t] \in Builtin => KindOf(cmd) # kind[t]
      BY <1>1, <1>4, <3>1 DEF BuiltinInv
    <3> QED  BY <1>1, <1>8, <2>3, <3>1, <3>2 DEF ProcTypeOK
  <2>4. \A u \in Slot : ~Linking(u)'
    BY <1>2, <1>4 DEF Linking
  <2> QED  BY <1>2, <1>7, <2>1, <2>2, <2>3, <2>4 DEF BuiltinInv
<1> QED  BY <1>10

\* A local step keeps the invariant.
LEMMA LocalStep ==
    ASSUME Guarded, ProcInv, NEW t \in Slot, NEW from, NEW pt, Local(t, from, pt)
    PROVE  ProcInv'
<1>1. Inv'
  BY LocalSame, ProcInvParts, InvNext DEF Guarded
<1>2. ProcTypeOK'
  BY DEF Local
<1> QED  BY <1>1, <1>2, LocalTables, LocalHolds, LocalLinked, LocalEntered, LocalBuiltin DEF ProcInv

\* The process of the task on the processor, and the globals.
LEMMA AtUserProcess ==
    ASSUME Guarded, ProcInv, NEW t \in Slot, NEW from, AtUser(t, from), from # "bye"
    PROVE  /\ current = t /\ cpu = t /\ t \in Task /\ upc[t] = from /\ CanRun(t) /\ body[t] = "user"
           /\ tproc[t] \in Proc /\ proc[tproc[t]].state \in StateAt(t)
           /\ proc[tproc[t]].space \in Space
           /\ from # "entry" => uproc[t] = tproc[t]
           /\ from \in Within => current_user_process = tproc[t]
           /\ from = "user" => saved = t /\ esp0 = "user" /\ owner = "USER"
<1>1. CanRun(t) /\ current = t /\ cpu = t /\ upc[t] = from /\ Active(t)
  BY AtUserFacts
<1>2. /\ tproc[t] \in Proc /\ proc[tproc[t]].state \in StateAt(t)
      /\ from # "entry" => uproc[t] = tproc[t]
  BY <1>1, ProcInvParts DEF Holds
<1>3. proc[tproc[t]].space \in Space
  <2>1. proc[tproc[t]].state # "UNUSED" /\ dirs \subseteq Space
    BY <1>2, ProcInvParts DEF StateAt, ProcTypeOK
  <2> QED  BY <1>2, <2>1, ProcInvParts DEF Spaces
<1>4. from \in Within => /\ current_user_process = tproc[t]
                         /\ from = "user" => saved = t /\ esp0 = "user" /\ owner = "USER"
  BY <1>1, ProcInvParts DEF Entered, Inside, Within
<1> QED  BY <1>1, <1>2, <1>3, <1>4, ProcFacts DEF Within, AtUser

\* The parts of the state that the steps of a user task leave alone.
SameRest == UNCHANGED <<starts, dirs, cr3, linkVars, shellVars, started, btask>>

\* A new point, process or code of one user task.
LEMMA UserType ==
    ASSUME ProcTypeOK, NEW t \in Slot, NEW pt \in UPC, SameRest,
           upc' = [upc EXCEPT ![t] = pt],
           proc' \in [Proc -> [state : ProcState, task : Slot \cup {NULL},
                               space : Space \cup {NULL}]],
           current_user_process' \in ProcOrNull, saved' \in Slot \cup {NULL},
           kstack' \in Slot \cup {NULL}, esp0' \in {"boot", "user"}, owner' \in {"SHELL", "USER"},
           uproc' \in [Task -> ProcOrNull], ucode' \in [Task -> {"none", "ok", "fault", "zero"}],
           pending' \in [Builtin -> ProcOrNull]
    PROVE  ProcTypeOK'
<1>1. upc' \in [Task -> UPC]
  BY DEF ProcTypeOK
<1> QED  BY <1>1 DEF ProcTypeOK, SameRest, linkVars, shellVars

\* The entry function takes its process from the task or from pending.
LEMMA EntryStep ==
    ASSUME Guarded, ProcInv, NEW t \in Slot, Entry(t)
    PROVE  ProcInv'
<1>1. AtUser(t, "entry") /\ UNCHANGED vars /\ SameRest /\ UNCHANGED <<proc, ucode, globalVars>>
  BY DEF Entry, SameRest, tableVars
<1>2. /\ current = t /\ t \in Task /\ tproc[t] \in Proc /\ proc[tproc[t]].state \in StateAt(t)
      /\ body[t] = "user" /\ CanRun(t) /\ upc[t] = "entry" /\ tproc[t] # NULL
  BY <1>1, AtUserProcess, ProcFacts
<1>3. ~Linking(t)
  BY <1>1, AtUserFacts
<1>4. kind[t] = "file" \/ (kind[t] \in Builtin /\ pending[kind[t]] = tproc[t])
  <2>1. kind[t] \in Builtin \cup {"file"}
    BY <1>2, ProcInvParts DEF Bodies, ProcTypeOK
  <2> QED  BY <1>2, <1>3, <2>1, ProcInvParts DEF BuiltinInv
<1>5. /\ uproc' = [uproc EXCEPT ![t] = tproc[t]] /\ upc' = [upc EXCEPT ![t] = "start"]
      /\ \/ pending' = pending
         \/ kind[t] \in Builtin /\ pending' = [pending EXCEPT ![kind[t]] = NULL]
  BY <1>2, <1>4, ProcFacts DEF Entry, Goto
<1>6. ProcTypeOK /\ uproc \in [Task -> ProcOrNull]
  BY ProcInvParts DEF ProcTypeOK
<1>7. ProcTypeOK'
  <2>1. uproc' \in [Task -> ProcOrNull] /\ pending' \in [Builtin -> ProcOrNull]
    BY <1>2, <1>5, <1>6 DEF ProcTypeOK, ProcOrNull
  <2> QED  BY <1>1, <1>5, <1>6, <2>1, UserType DEF ProcTypeOK, UPC, globalVars
<1>8. proc'[tproc[t]].state \in StateAt(t)'
  <2>1. upc'[t] = "start"
    BY <1>2, <1>5, <1>6 DEF ProcTypeOK
  <2> QED  BY <1>1, <1>2, <2>1 DEF StateAt
<1>9. Local(t, "entry", "start")
  BY <1>1, <1>2, <1>5, <1>6, <1>7, <1>8, ProcFacts DEF Local, UPC, Within, SameRest
<1> QED  BY <1>9, LocalStep

\* run_user_process begins: READY becomes RUNNING.
LEMMA StartStep ==
    ASSUME Guarded, ProcInv, NEW t \in Slot, Start(t)
    PROVE  ProcInv'
<1>1. /\ AtUser(t, "start") /\ UNCHANGED vars /\ SameRest
      /\ UNCHANGED <<uproc, ucode, saved, esp0, kstack, owner, pending>>
  BY DEF Start, SameRest, builtinVars
<1>2. /\ t \in Task /\ tproc[t] \in Proc /\ uproc[t] = tproc[t] /\ proc[tproc[t]].space \in Space
  BY <1>1, AtUserProcess
<1>3. /\ Alone(t) /\ upc' = [upc EXCEPT ![t] = "enter"] /\ current_user_process' = tproc[t]
      /\ proc' = [proc EXCEPT ![tproc[t]].state = "RUNNING"]
  BY <1>2, ProcFacts DEF Start, Goto, Guarded, OneEntered
<1>4. ProcTypeOK
  BY ProcInvParts
<1>5. PICK p \in Proc : p = tproc[t]
  BY <1>2
<1>6. /\ proc' \in [Proc -> [state : ProcState, task : Slot \cup {NULL},
                             space : Space \cup {NULL}]]
      /\ \A q \in Proc : /\ proc'[q].task = proc[q].task /\ proc'[q].space = proc[q].space
                         /\ proc'[q].state = IF q = p THEN "RUNNING" ELSE proc[q].state
  BY <1>3, <1>4, <1>5, SetState DEF ProcState
<1>7. ProcTypeOK'
  BY <1>1, <1>2, <1>3, <1>4, <1>6, UserType DEF ProcTypeOK, UPC, ProcOrNull
<1>8. proc'[tproc[t]].state \in StateAt(t)'
  <2>1. upc'[t] = "enter"
    BY <1>2, <1>3, <1>4 DEF ProcTypeOK
  <2> QED  BY <1>2, <1>5, <1>6, <2>1 DEF StateAt
<1>9. Local(t, "start", "enter")
  BY <1>1, <1>2, <1>3, <1>5, <1>6, <1>7, <1>8 DEF Local, UPC, Within, SameRest
<1> QED  BY <1>9, LocalStep

\* run_user_program enters the program.
LEMMA EnterStep ==
    ASSUME Guarded, ProcInv, NEW t \in Slot, Enter(t)
    PROVE  ProcInv'
<1>1. /\ AtUser(t, "enter") /\ UNCHANGED vars /\ SameRest
      /\ UNCHANGED <<proc, current_user_process, kstack, uproc, ucode, pending>>
      /\ saved' = t /\ owner' = "USER" /\ esp0' = "user" /\ upc' = [upc EXCEPT ![t] = "user"]
  BY DEF Enter, SameRest, tableVars, builtinVars, Goto
<1>2. /\ t \in Task /\ tproc[t] \in Proc /\ uproc[t] = tproc[t] /\ upc[t] = "enter"
      /\ current_user_process = tproc[t] /\ proc[tproc[t]].state \in StateAt(t)
  BY <1>1, AtUserProcess DEF Within
<1>3. ProcTypeOK /\ ProcTypeOK'
  BY <1>1, ProcInvParts, UserType DEF ProcTypeOK, UPC
<1>4. proc'[tproc[t]].state \in StateAt(t)'
  <2>1. upc'[t] = "user"
    BY <1>1, <1>2, <1>3 DEF ProcTypeOK
  <2> QED  BY <1>1, <1>2, <2>1 DEF StateAt
<1>5. Local(t, "enter", "user")
  BY <1>1, <1>2, <1>3, <1>4 DEF Local, UPC, Within, SameRest
<1> QED  BY <1>5, LocalStep

\* user_context_restore goes on in the task that called or faulted.
RestoreRest == /\ UNCHANGED <<ringVars, current, esp, iret, interrupts, codeVars, mainVars>>
               /\ UNCHANGED <<current_user_process, saved, uproc, pending>> /\ SameRest

\* user_exit_current goes back to the frame saved by the same task.
LEMMA RestoreStep ==
    ASSUME Guarded, ProcInv, NEW t \in Slot, AtUser(t, "user"), RestoreRest,
           NEW ret \in {"ok", "fault", "zero"}, ContextRestore(ret),
           \/ proc' = proc
           \/ ret = "fault" /\ proc' = [proc EXCEPT ![tproc[t]].state = "FAILED"]
    PROVE  UNCHANGED vars /\ ProcInv'
<1>1. /\ t \in Task /\ cpu = t /\ tproc[t] \in Proc /\ uproc[t] = tproc[t] /\ upc[t] = "user"
      /\ current_user_process = tproc[t] /\ proc[tproc[t]].state \in StateAt(t) /\ saved = t
  BY AtUserProcess DEF Within
<1>2. ProcTypeOK
  BY ProcInvParts
<1>3. PICK pt \in {"enter", "mark"} : pt = IF ret = "zero" THEN "enter" ELSE "mark"
  OBVIOUS
<1>4. /\ cpu' = cpu /\ upc' = [upc EXCEPT ![t] = pt] /\ ucode' = [ucode EXCEPT ![t] = ret]
      /\ owner' \in {owner, "SHELL"} /\ esp0' \in {esp0, "boot"} /\ kstack' \in {t, kstack}
  BY <1>1, <1>3 DEF ContextRestore, PushFrame
<1>5. UNCHANGED vars
  BY <1>4 DEF RestoreRest, vars, ringVars, cpuVars, codeVars, mainVars
<1>6. PICK p \in Proc : p = tproc[t]
  BY <1>1
<1>7. /\ proc' \in [Proc -> [state : ProcState, task : Slot \cup {NULL},
                             space : Space \cup {NULL}]]
      /\ \A q \in Proc : /\ proc'[q].task = proc[q].task /\ proc'[q].space = proc[q].space
                         /\ q # p => proc'[q].state = proc[q].state
      /\ proc'[p].state = "RUNNING" \/ (ret = "fault" /\ proc'[p].state = "FAILED")
  <2>1. CASE proc' = proc
    BY <1>1, <1>2, <1>6, <2>1 DEF ProcTypeOK, StateAt
  <2>2. CASE ret = "fault" /\ proc' = [proc EXCEPT ![tproc[t]].state = "FAILED"]
    <3>1. proc' = [proc EXCEPT ![p].state = "FAILED"] /\ "FAILED" \in ProcState
      BY <1>6, <2>2 DEF ProcState
    <3>2. /\ proc' \in [Proc -> [state : ProcState, task : Slot \cup {NULL},
                                 space : Space \cup {NULL}]]
          /\ \A q \in Proc : /\ proc'[q].task = proc[q].task /\ proc'[q].space = proc[q].space
                             /\ proc'[q].state = IF q = p THEN "FAILED" ELSE proc[q].state
      BY <1>2, <3>1, SetState
    <3> QED  BY <2>2, <3>2
  <2> QED  BY <2>1, <2>2
<1>8. ucode' \in [Task -> {"none", "ok", "fault", "zero"}] /\ ucode'[t] = ret /\ upc'[t] = pt
      /\ \A u \in Slot \ {t} : ucode'[u] = ucode[u]
  BY <1>1, <1>2, <1>4, ProcFacts DEF ProcTypeOK
<1>9. ProcTypeOK'
  <2>1. /\ SameRest /\ pt \in UPC /\ UNCHANGED <<current_user_process, saved, uproc, pending>>
    BY <1>3 DEF RestoreRest, UPC
  <2>2. /\ current_user_process' \in ProcOrNull /\ saved' \in Slot \cup {NULL}
        /\ uproc' \in [Task -> ProcOrNull] /\ pending' \in [Builtin -> ProcOrNull]
        /\ kstack' \in Slot \cup {NULL} /\ esp0' \in {"boot", "user"} /\ owner' \in {"SHELL", "USER"}
    BY <1>2, <1>4, <2>1 DEF ProcTypeOK
  <2> QED  BY <1>2, <1>4, <1>7, <1>8, <2>1, <2>2, UserType
<1>10. proc'[tproc[t]].state \in StateAt(t)'
  BY <1>3, <1>6, <1>7, <1>8 DEF StateAt
<1>11. Local(t, "user", pt)
  BY <1>1, <1>3, <1>4, <1>5, <1>6, <1>7, <1>8, <1>9, <1>10
     DEF Local, UPC, Within, SameRest, RestoreRest
<1> QED  BY <1>5, <1>11, LocalStep

\* SYS_EXIT.
LEMMA SysExitStep ==
    ASSUME Guarded, ProcInv, NEW t \in Slot, Exit(t)
    PROVE  UNCHANGED vars /\ ProcInv'
<1>1. AtUser(t, "user") /\ RestoreRest /\ proc' = proc
  BY DEF Exit, RestoreRest, SameRest, tableVars, builtinVars
<1>2. PICK ret \in {"ok", "fault", "zero"} : ContextRestore(ret)
  BY DEF Exit, ExitCall
<1> QED  BY <1>1, <1>2, RestoreStep

\* A page fault of the program.
LEMMA FaultStep ==
    ASSUME Guarded, ProcInv, NEW t \in Slot, Fault(t)
    PROVE  UNCHANGED vars /\ ProcInv'
<1>1. AtUser(t, "user") /\ RestoreRest /\ ContextRestore("fault")
  BY DEF Fault, RestoreRest, SameRest, builtinVars
<1>2. current_user_process = tproc[t] /\ tproc[t] # NULL
  BY <1>1, AtUserProcess, ProcFacts DEF Within
<1>3. proc' = [proc EXCEPT ![tproc[t]].state = "FAILED"]
  BY <1>2 DEF Fault
<1> QED  BY <1>1, <1>3, RestoreStep

\* Any other exception in the program.
LEMMA ExceptionStep ==
    ASSUME Guarded, ProcInv, NEW t \in Slot, Exception(t)
    PROVE  ProcInv'
<1>1. /\ AtUser(t, "user") /\ UNCHANGED vars /\ SameRest
      /\ UNCHANGED <<proc, current_user_process, saved, esp0, owner, upc, uproc, ucode, pending>>
      /\ PushFrame
  BY DEF Exception, SameRest, tableVars, userVars, builtinVars
<1>2. /\ t \in Task /\ cpu = t /\ tproc[t] \in Proc /\ uproc[t] = tproc[t] /\ upc[t] = "user"
      /\ current_user_process = tproc[t] /\ proc[tproc[t]].state \in StateAt(t)
      /\ saved = t /\ esp0 = "user" /\ owner = "USER"
  BY <1>1, AtUserProcess DEF Within
<1>3. ProcTypeOK /\ upc' = [upc EXCEPT ![t] = "user"] /\ kstack' \in {t, kstack}
  BY <1>1, <1>2, ProcInvParts DEF ProcTypeOK, PushFrame
<1>4. ProcTypeOK'
  <2>1. /\ current_user_process' \in ProcOrNull /\ saved' \in Slot \cup {NULL}
        /\ uproc' \in [Task -> ProcOrNull] /\ pending' \in [Builtin -> ProcOrNull]
        /\ kstack' \in Slot \cup {NULL} /\ esp0' \in {"boot", "user"} /\ owner' \in {"SHELL", "USER"}
        /\ proc' \in [Proc -> [state : ProcState, task : Slot \cup {NULL},
                               space : Space \cup {NULL}]]
        /\ ucode' \in [Task -> {"none", "ok", "fault", "zero"}] /\ "user" \in UPC
    BY <1>1, <1>3 DEF ProcTypeOK, UPC
  <2> QED  BY <1>1, <1>3, <2>1, UserType
<1>5. proc'[tproc[t]].state \in StateAt(t)'
  BY <1>1, <1>2 DEF StateAt
<1>6. Local(t, "user", "user")
  BY <1>1, <1>2, <1>3, <1>4, <1>5 DEF Local, UPC, Within, SameRest
<1> QED  BY <1>6, LocalStep

\* run_user_process records how the program ended.
LEMMA MarkStep ==
    ASSUME Guarded, ProcInv, NEW t \in Slot, Mark(t)
    PROVE  ProcInv'
<1>1. /\ AtUser(t, "mark") /\ UNCHANGED vars /\ SameRest /\ UNCHANGED <<globalVars, uproc, pending>>
      /\ ucode' = [ucode EXCEPT ![t] = "none"] /\ upc' = [upc EXCEPT ![t] = "close"]
  BY DEF Mark, SameRest, builtinVars, Goto
<1>2. /\ t \in Task /\ tproc[t] \in Proc /\ uproc[t] = tproc[t]
      /\ current_user_process = tproc[t]
  BY <1>1, AtUserProcess DEF Within
<1>3. PICK p \in Proc, st \in {"EXITED", "FAILED"} :
         p = tproc[t] /\ proc' = [proc EXCEPT ![p].state = st]
  BY <1>2 DEF Mark
<1>4. /\ proc' \in [Proc -> [state : ProcState, task : Slot \cup {NULL},
                             space : Space \cup {NULL}]]
      /\ \A q \in Proc : /\ proc'[q].task = proc[q].task /\ proc'[q].space = proc[q].space
                         /\ proc'[q].state = IF q = p THEN st ELSE proc[q].state
  <2>1. ProcTypeOK /\ st \in ProcState
    BY ProcInvParts DEF ProcState
  <2>2. proc' = [proc EXCEPT ![p].state = st]
    BY <1>3
  <2> QED  BY <2>1, <2>2, SetState
<1>5. /\ ProcTypeOK /\ ucode' \in [Task -> {"none", "ok", "fault", "zero"}]
      /\ \A u \in Slot \ {t} : ucode'[u] = ucode[u]
  BY <1>1, <1>2, ProcInvParts, ProcFacts DEF ProcTypeOK
<1>6. ProcTypeOK'
  BY <1>1, <1>4, <1>5, UserType DEF ProcTypeOK, UPC, globalVars
<1>7. proc'[tproc[t]].state \in StateAt(t)'
  <2>1. upc'[t] = "close"
    BY <1>1, <1>2, <1>5 DEF ProcTypeOK
  <2> QED  BY <1>3, <1>4, <2>1 DEF StateAt
<1>8. Local(t, "mark", "close")
  BY <1>1, <1>2, <1>3, <1>4, <1>5, <1>6, <1>7 DEF Local, UPC, Within, SameRest, globalVars
<1> QED  BY <1>8, LocalStep

\* The descriptors are closed, and the task goes to task_exit.
LEMMA CloseStep ==
    ASSUME Guarded, ProcInv, NEW t \in Slot, Close(t)
    PROVE  ProcInv'
<1>1. /\ AtUser(t, "close") /\ UNCHANGED vars /\ SameRest
      /\ UNCHANGED <<proc, saved, esp0, kstack, owner, uproc, ucode, pending>>
      /\ current_user_process' = NULL /\ upc' = [upc EXCEPT ![t] = "bye"]
  BY DEF Close, SameRest, tableVars, builtinVars, Goto
<1>2. /\ t \in Task /\ tproc[t] \in Proc /\ uproc[t] = tproc[t] /\ upc[t] = "close"
      /\ proc[tproc[t]].state \in StateAt(t)
  BY <1>1, AtUserProcess
<1>3. proc[tproc[t]].state \in {"EXITED", "FAILED"}
  BY <1>2 DEF StateAt
<1>4. ProcTypeOK'
  BY <1>1, ProcInvParts, UserType DEF ProcTypeOK, UPC, ProcOrNull
<1>5. Local(t, "close", "bye")
  BY <1>1, <1>2, <1>3, <1>4 DEF Local, UPC, Within, SameRest
<1> QED  BY <1>5, LocalStep

-----------------------------------------------------------------------------
(* The end of a task *)

\* The user task x is marked EXITED, and its process KILLED if it was active.
Ends(x) ==
    /\ CanRun(x) /\ state' = [state EXCEPT ![x] = "EXITED"]
    /\ UNCHANGED <<body, current, cpu, a>>
    /\ pc' = pc \/ (upc[x] = "bye" /\ pc' = [pc EXCEPT ![x] = "sched"])
    /\ UNCHANGED <<starts, dirs, current_user_process, saved, esp0, owner, cr3>>
    /\ UNCHANGED <<linkVars, userVars, i, tt, builtinVars, cmd>>
    /\ kstack' = kstack \/ (cpu \in Slot /\ Inside(cpu) /\ kstack' = cpu)
    /\ proc' \in [Proc -> [state : ProcState, task : Slot \cup {NULL}, space : Space \cup {NULL}]]
    /\ \A p \in Proc : /\ proc'[p].task = proc[p].task /\ proc'[p].space = proc[p].space
                       /\ \/ proc'[p].state = proc[p].state
                          \/ proc[p].task = x /\ Live(p) /\ proc'[p].state = "KILLED"
                       /\ proc[p].task = x => proc'[p].state \notin {"READY", "RUNNING"}
    /\ \/ sh' = sh /\ pp' = pp /\ sh \notin {"link", "space", "kill", "kill2"}
       \/ sh = "kill2" /\ sh' = "treap" /\ pp' = NULL

\* What stays as it is, and what the others see.
LEMMA EndsFacts ==
    ASSUME ProcInv, NEW x \in Slot, Ends(x)
    PROVE  /\ body' = body /\ current' = current /\ cpu' = cpu /\ a' = a /\ starts' = starts
           /\ dirs' = dirs /\ current_user_process' = current_user_process /\ saved' = saved
           /\ esp0' = esp0 /\ owner' = owner /\ cr3' = cr3 /\ tproc' = tproc /\ tspace' = tspace
           /\ kind' = kind /\ upc' = upc /\ uproc' = uproc /\ ucode' = ucode /\ i' = i /\ tt' = tt
           /\ pending' = pending /\ started' = started /\ btask' = btask /\ cmd' = cmd
           /\ \A t \in Task : state'[t] = IF t = x THEN "EXITED" ELSE state[t]
           /\ \A t \in Slot : CanRun(t)' <=> CanRun(t) /\ t # x
           /\ \A t \in Slot : ~Linking(t) /\ ~Linking(t)'
           /\ CanRun(x) /\ x \in Task /\ body[x] = "user"
<1>1. /\ UNCHANGED <<body, current, cpu, a>>
      /\ UNCHANGED <<starts, dirs, current_user_process, saved, esp0, owner, cr3>>
      /\ UNCHANGED <<linkVars, userVars, i, tt, builtinVars, cmd>>
  BY DEF Ends
<1>2. CanRun(x) /\ state' = [state EXCEPT ![x] = "EXITED"] /\ sh # "link" /\ sh' # "link"
  BY DEF Ends
<1>3. \A t \in Task : state'[t] = IF t = x THEN "EXITED" ELSE state[t]
  BY <1>2, ProcInvParts DEF TypeOK
<1>4. \A t \in Slot : CanRun(t)' <=> CanRun(t) /\ t # x
  BY <1>1, <1>3, ProcFacts DEF CanRun
<1>5. \A t \in Slot : ~Linking(t) /\ ~Linking(t)'
  BY <1>2 DEF Linking
<1> QED  BY <1>1, <1>2, <1>3, <1>4, <1>5, ProcFacts DEF linkVars, userVars, builtinVars, CanRun

\* Types, address spaces and what the shell is building, after a task ended.
LEMMA EndsTables ==
    ASSUME ProcInv, NEW x \in Slot, Ends(x)
    PROVE  ProcTypeOK' /\ Bodies' /\ ShellPoints' /\ Building' /\ Spaces'
<1>1. ProcTypeOK /\ Bodies /\ ShellPoints /\ Building /\ Spaces /\ TypeOK
  BY ProcInvParts
<1>2. \A p \in Proc : /\ proc'[p].task = proc[p].task /\ proc'[p].space = proc[p].space
                      /\ \/ proc'[p].state = proc[p].state
                         \/ proc[p].task = x /\ Live(p) /\ proc'[p].state = "KILLED"
  BY DEF Ends
<1>3. \/ sh' = sh /\ pp' = pp /\ sh \notin {"link", "space", "kill", "kill2"}
      \/ sh = "kill2" /\ sh' = "treap" /\ pp' = NULL
  BY DEF Ends
<1>4. pc' = pc \/ (upc[x] = "bye" /\ pc' = [pc EXCEPT ![x] = "sched"])
  BY DEF Ends
<1>5. ProcTypeOK'
  <2>1. kstack' \in Slot \cup {NULL}
    BY <1>1 DEF Ends, ProcTypeOK
  <2>2. sh' \in SH /\ pp' \in ProcOrNull
    BY <1>1, <1>3 DEF ProcTypeOK, SH, ProcOrNull
  <2>3. proc' \in [Proc -> [state : ProcState, task : Slot \cup {NULL},
                            space : Space \cup {NULL}]]
    BY DEF Ends
  <2> QED  BY <1>1, <2>1, <2>2, <2>3, EndsFacts DEF ProcTypeOK
<1>6. \A t \in Task : pc'[t] = pc[t] \/ (t = x /\ upc[x] = "bye")
  BY <1>1, <1>4 DEF TypeOK
<1>7. Bodies'
  BY <1>1, <1>6, EndsFacts, ProcFacts, SMT DEF Bodies
<1>8. pc'[Main] = pc[Main]
  BY <1>1, <1>4, ProcFacts DEF TypeOK
<1>9. ShellPoints'
  BY <1>1, <1>3, <1>8, EndsFacts DEF ShellPoints
<1>10. Building'
  BY <1>1, <1>2, <1>3, ProcFacts DEF Building
<1>11. Spaces'
  <2>1. \A p \in Proc : proc'[p].state # "UNUSED" <=> proc[p].state # "UNUSED"
    BY <1>2 DEF Live
  <2>2. dirs' = dirs /\ cr3' = cr3 /\ current' = current
    BY EndsFacts
  <2> QED  BY <1>1, <1>2, <2>1, <2>2, SMT DEF Spaces, Cr3Live
<1> QED  BY <1>5, <1>7, <1>9, <1>10, <1>11

\* No process that is READY or RUNNING loses its task: the task that ends has
\* been at its last point, or its process is no longer active.
LEMMA EndsLinks ==
    ASSUME ProcInv, NEW x \in Slot, Ends(x)
    PROVE  Holds' /\ LinkedInv' /\ Entered' /\ BuiltinInv'
<1>1. ProcTypeOK /\ Holds /\ LinkedInv /\ Entered /\ BuiltinInv /\ Building
  BY ProcInvParts
<1>2. \A p \in Proc : /\ proc'[p].task = proc[p].task /\ proc'[p].space = proc[p].space
                      /\ \/ proc'[p].state = proc[p].state
                         \/ proc[p].task = x /\ Live(p) /\ proc'[p].state = "KILLED"
                      /\ proc[p].task = x => proc'[p].state \notin {"READY", "RUNNING"}
  BY DEF Ends
<1>3. \/ sh' = sh /\ pp' = pp /\ sh \notin {"link", "space", "kill", "kill2"}
      \/ sh = "kill2" /\ sh' = "treap" /\ pp' = NULL
  BY DEF Ends
<1>4. /\ tproc' = tproc /\ tspace' = tspace /\ kind' = kind /\ upc' = upc /\ uproc' = uproc
      /\ ucode' = ucode /\ tt' = tt /\ current' = current /\ cpu' = cpu /\ cr3' = cr3
      /\ \A t \in Slot : CanRun(t)' <=> CanRun(t) /\ t # x
      /\ \A t \in Slot : ~Linking(t) /\ ~Linking(t)'
  BY EndsFacts
<1>5. Holds'
  <2> SUFFICES ASSUME NEW u \in Slot, Active(u)'
               PROVE  /\ tproc[u] \in Proc /\ proc'[tproc[u]].task = u
                      /\ proc'[tproc[u]].state \in StateAt(u)'
                      /\ upc[u] # "entry" => uproc[u] = tproc[u]
                      /\ tspace[u] = proc'[tproc[u]].space
                      /\ current = u => cr3 = proc'[tproc[u]].space
    BY <1>4 DEF Holds
  <2>1. Active(u) /\ u # x /\ StateAt(u)' = StateAt(u)
    BY <1>4 DEF Active, StateAt
  <2>2. /\ tproc[u] \in Proc /\ proc[tproc[u]].task = u /\ proc[tproc[u]].state \in StateAt(u)
        /\ upc[u] # "entry" => uproc[u] = tproc[u]
        /\ tspace[u] = proc[tproc[u]].space /\ (current = u => cr3 = proc[tproc[u]].space)
    BY <1>1, <1>3, <2>1 DEF Holds
  <2> QED  BY <1>2, <2>1, <2>2
<1>6. LinkedInv'
  <2>1. ASSUME NEW p \in Proc, Live(p)'
        PROVE  Live(p) /\ proc[p].task # x
    BY <1>2, <2>1 DEF Live
  <2>2. \A p \in Proc : proc[p].task # NULL => proc[p].task \in Slot
    BY <1>1 DEF ProcTypeOK
  <2>3. \A p \in Proc : pp = p /\ sh \in {"spawn", "link"} => pp' = p /\ sh' \in {"spawn", "link"}
    BY <1>3
  <2>4. ASSUME NEW p \in Proc, Live(p)', ~(pp' = p /\ sh' \in {"spawn", "link"})
        PROVE  proc'[p].task # NULL /\ CanRun(proc[p].task) /\ tproc[proc[p].task] = p
    BY <1>1, <1>2, <2>1, <2>3, <2>4 DEF LinkedInv, LinkedOneToOne
  <2>5. ASSUME NEW p \in Proc, Live(p)', proc'[p].task # NULL
        PROVE  upc[proc[p].task] # "bye"
    BY <1>1, <1>2, <2>1, <2>5 DEF LinkedInv
  <2> QED  BY <1>2, <1>4, <2>1, <2>2, <2>4, <2>5, SMT DEF LinkedInv, LinkedOneToOne
<1>7. Entered'
  <2>1. \A t \in Slot : Inside(t)' => Inside(t)
    BY <1>4 DEF Inside
  <2>2. kstack' = kstack \/ (cpu \in Slot /\ Inside(cpu) /\ kstack' = cpu)
    BY DEF Ends
  <2>3. ASSUME NEW t \in Slot, Inside(t)
        PROVE  /\ current_user_process = tproc[t] /\ \A u \in Slot \ {t} : ~Inside(u)
               /\ upc[t] = "user" => /\ saved = t /\ esp0 = "user" /\ owner = "USER"
                                     /\ t # cpu => kstack' = t
    BY <1>1, <2>2, <2>3 DEF Entered
  <2> QED  BY <2>1, <2>3, EndsFacts DEF Entered
<1>8. BuiltinInv'
  <2>1. \A k \in Builtin : btask[k] # NULL => btask[k] \in Slot
    BY <1>1 DEF ProcTypeOK
  <2>2. /\ pending' = pending /\ started' = started /\ btask' = btask /\ cmd' = cmd
        /\ \A t \in Slot : state'[t] = "UNUSED" <=> state[t] = "UNUSED"
    BY EndsFacts, ProcFacts DEF CanRun
  <2>3. /\ sh \in {"walk", "refresh"} <=> sh' \in {"walk", "refresh"}
        /\ sh' = "spawn" => sh = "spawn" /\ pp' = pp
    BY <1>3
  <2> QED  BY <1>1, <1>4, <2>1, <2>2, <2>3 DEF BuiltinInv
<1> QED  BY <1>5, <1>6, <1>7, <1>8

\* The end of a task keeps the invariant.
LEMMA EndsStep ==
    ASSUME ProcInv, Inv', NEW x \in Slot, Ends(x)
    PROVE  ProcInv'
BY EndsTables, EndsLinks DEF ProcInv

\* task_exit of a user task.
LEMMA ByeStep ==
    ASSUME Guarded, ProcInv, NEW t \in Slot, Bye(t)
    PROVE  ProcInv'
<1>1. AtUser(t, "bye") /\ UserExit /\ UNCHANGED procVars
  BY DEF Bye
<1>2. /\ CanRun(t) /\ current = t /\ cpu = t /\ upc[t] = "bye"
      /\ sh \notin {"link", "space", "kill", "kill2"}
  BY <1>1, AtUserFacts
<1>3. Inv'
  BY <1>1, ProcInvParts, InvNext DEF Guarded, Next, UserStep
<1>4. /\ state' = [state EXCEPT ![t] = "EXITED"] /\ pc' = [pc EXCEPT ![t] = "sched"]
      /\ UNCHANGED <<body, current, cpu, a>>
  BY <1>1, <1>2 DEF UserExit, TaskExit, cpuVars, mainVars
<1>5. /\ proc' = proc /\ starts' = starts /\ dirs' = dirs /\ UNCHANGED globalVars /\ cr3' = cr3
      /\ UNCHANGED <<linkVars, userVars, builtinVars>> /\ UNCHANGED shellVars
  BY <1>1 DEF procVars, tableVars
<1>6. \A p \in Proc : proc[p].task = t => proc[p].state \notin {"READY", "RUNNING"}
  <2>1. NULL # t
    BY ProcFacts
  <2> QED  BY <1>2, <2>1, ProcInvParts DEF LinkedInv, Live
<1>7. Ends(t)
  BY <1>2, <1>4, <1>5, <1>6, ProcInvParts DEF Ends, globalVars, shellVars, ProcTypeOK
<1> QED  BY <1>3, <1>7, EndsStep

-----------------------------------------------------------------------------
(* Kills *)

\* user_process_kill_pid on a process that is active and has a task.
LEMMA ProcessKillStep ==
    ASSUME Guarded, ProcInv, NEW p \in Proc, Live(p), proc[p].task # NULL, KillProcess(p),
           UNCHANGED <<starts, dirs, current_user_process, saved, esp0, owner, cr3,
                       linkVars, userVars, i, tt, builtinVars, cmd>>,
           kstack' = kstack \/ (cpu \in Slot /\ Inside(cpu) /\ kstack' = cpu),
           \/ sh' = sh /\ pp' = pp /\ sh \notin {"link", "space", "kill", "kill2"}
           \/ sh = "kill2" /\ sh' = "treap" /\ pp' = NULL
    PROVE  Next /\ ProcInv'
<1>1. PICK x \in Slot : x = proc[p].task
  BY ProcInvParts DEF ProcTypeOK
<1>2. CanRun(x)
  BY <1>1, ProcInvParts DEF LinkedInv, LinkedOneToOne, Building
<1>3. /\ TaskKill(x) /\ proc' = [proc EXCEPT ![p].state = "KILLED"]
  BY <1>1 DEF KillProcess
<1>4. /\ state' = [state EXCEPT ![x] = "EXITED"] /\ pc' = pc /\ UNCHANGED <<body, current, cpu, a>>
  BY <1>3 DEF TaskKill, cpuVars, codeVars, mainVars
<1>5. Next
  BY <1>2, <1>3 DEF Next, UserStep, CanRun
<1>6. Inv'
  BY <1>5, ProcInvParts, InvNext DEF Guarded
<1>7. /\ proc' \in [Proc -> [state : ProcState, task : Slot \cup {NULL},
                             space : Space \cup {NULL}]]
      /\ \A q \in Proc : /\ proc'[q].task = proc[q].task /\ proc'[q].space = proc[q].space
                         /\ proc'[q].state = IF q = p THEN "KILLED" ELSE proc[q].state
  <2>1. ProcTypeOK /\ "KILLED" \in ProcState
    BY ProcInvParts DEF ProcState
  <2> QED  BY <1>3, <2>1, SetState
<1>8. \A q \in Proc : proc[q].task = x /\ Live(q) => q = p
  <2> SUFFICES ASSUME NEW q \in Proc, proc[q].task = x, Live(q) PROVE q = p
    OBVIOUS
  <2>1. proc[q].task # NULL
    BY ProcFacts
  <2> QED  BY <1>1, <2>1, ProcInvParts DEF LinkedInv, LinkedOneToOne, Building
<1>9. \A q \in Proc : /\ \/ proc'[q].state = proc[q].state
                         \/ proc[q].task = x /\ Live(q) /\ proc'[q].state = "KILLED"
                      /\ proc[q].task = x => proc'[q].state \notin {"READY", "RUNNING"}
  BY <1>1, <1>7, <1>8 DEF Live
<1>10. Ends(x)
  BY <1>2, <1>4, <1>7, <1>9 DEF Ends
<1> QED  BY <1>5, <1>6, <1>10, EndsStep

\* SYS_KILL.
LEMMA SysKillStep ==
    ASSUME Guarded, ProcInv, NEW t \in Slot, SysKill(t)
    PROVE  Next /\ ProcInv'
<1>1. /\ AtUser(t, "user") /\ PushFrame
      /\ UNCHANGED <<starts, dirs, current_user_process, saved, esp0, owner, cr3,
                     linkVars, userVars, i, tt, builtinVars, cmd>> /\ sh' = sh /\ pp' = pp
  BY DEF SysKill, shellVars
<1>2. CanRun(t) /\ cpu = t /\ upc[t] = "user" /\ sh \notin {"link", "space", "kill", "kill2"}
  BY <1>1, AtUserFacts
<1>3. PICK p \in Proc : Live(p) /\ proc[p].task # NULL /\ KillProcess(p)
  BY DEF SysKill
<1>4. kstack' = kstack \/ (cpu \in Slot /\ Inside(cpu) /\ kstack' = cpu)
  BY <1>1, <1>2 DEF PushFrame, Inside
<1> QED  BY <1>1, <1>2, <1>3, <1>4, ProcessKillStep

\* KILL, after the process has been found.
LEMMA ShellKillStep ==
    ASSUME Guarded, ProcInv, ShellKill
    PROVE  Next /\ ProcInv'
<1>1. /\ AtShell("kill2") /\ sh' = "treap" /\ cmd' = cmd /\ pp' = NULL /\ kstack' = kstack
      /\ UNCHANGED <<starts, dirs, current_user_process, saved, esp0, owner, cr3,
                     linkVars, userVars, i, tt, builtinVars, cmd>>
  BY DEF ShellKill, ShellAt, globalVars
<1>2. PICK p \in Proc : p = pp /\ Live(p) /\ proc[p].task # NULL
  BY <1>1, ProcInvParts DEF AtShell, Building
<1>3. CanRun(proc[p].task)
  BY <1>1, <1>2, ProcInvParts DEF AtShell, LinkedInv, LinkedOneToOne
<1>4. KillProcess(p)
  BY <1>2, <1>3 DEF ShellKill, CanRun
<1>5. sh = "kill2"
  BY <1>1 DEF AtShell
<1> QED  BY <1>1, <1>2, <1>4, <1>5, ProcessKillStep

-----------------------------------------------------------------------------
(* Steps of the shell that leave the process table alone *)

\* The main task goes on, and the tasks that may run and their processes stay
\* as they are.
Keeps ==
    /\ UNCHANGED <<proc, dirs, globalVars, cr3, current, cpu, pending>>
    /\ sh \notin {"spawn", "link", "space", "kill2"} /\ sh' \notin {"spawn", "link", "space"}
    /\ sh' = "kill2" => \E p \in Proc : pp' = p /\ Live(p) /\ proc[p].task # NULL
    /\ \A t \in Slot : CanRun(t)' = CanRun(t)
    /\ \A t \in Slot : CanRun(t) =>
          /\ tproc'[t] = tproc[t] /\ tspace'[t] = tspace[t] /\ kind'[t] = kind[t]
          /\ upc'[t] = upc[t] /\ uproc'[t] = uproc[t] /\ ucode'[t] = ucode[t]
    /\ \A k \in Builtin :
          /\ started'[k] <=> btask'[k] # NULL
          /\ btask'[k] # NULL => IF state'[btask'[k]] = "UNUSED" THEN sh' \in {"walk", "refresh"}
                                                              ELSE kind'[btask'[k]] = k

\* A step of the shell that moves only its own point keeps the invariant.
LEMMA KeepsStep ==
    ASSUME ProcInv, Inv', ProcTypeOK', Bodies', ShellPoints', Keeps
    PROVE  ProcInv'
<1>1. ProcTypeOK /\ Spaces /\ Holds /\ LinkedInv /\ Entered /\ BuiltinInv
  BY ProcInvParts
<1>2. /\ proc' = proc /\ dirs' = dirs /\ cr3' = cr3 /\ current' = current /\ cpu' = cpu
      /\ pending' = pending /\ current_user_process' = current_user_process
      /\ saved' = saved /\ esp0' = esp0 /\ owner' = owner /\ kstack' = kstack
  BY DEF Keeps, globalVars
<1>3. sh \notin {"spawn", "link", "space", "kill2"} /\ sh' \notin {"spawn", "link", "space"}
  BY DEF Keeps
<1>4. /\ \A t \in Slot : CanRun(t)' = CanRun(t)
      /\ \A t \in Slot : CanRun(t) =>
           /\ tproc'[t] = tproc[t] /\ tspace'[t] = tspace[t] /\ kind'[t] = kind[t]
           /\ upc'[t] = upc[t] /\ uproc'[t] = uproc[t] /\ ucode'[t] = ucode[t]
  BY DEF Keeps
<1>5. \A t \in Slot : ~Linking(t) /\ ~Linking(t)'
  BY <1>3 DEF Linking
<1>6. Building'
  <2>1. sh' = "kill2" => \E p \in Proc : pp' = p /\ Live(p) /\ proc[p].task # NULL
    BY DEF Keeps
  <2> QED  BY <1>2, <1>3, <2>1 DEF Building, Live
<1>7. Spaces'
  BY <1>1, <1>2 DEF Spaces, Cr3Live
<1>8. Holds'
  <2>1. \A t \in Slot : Active(t)' => Active(t) /\ StateAt(t)' = StateAt(t)
    BY <1>4, <1>5 DEF Active, StateAt
  <2>2. \A t \in Slot : Active(t) => CanRun(t)
    BY DEF Active
  <2> QED  BY <1>1, <1>2, <1>3, <1>4, <2>1, <2>2, SMT DEF Holds
<1>9. LinkedInv'
  <2>1. \A p \in Proc : Live(p)' = Live(p)
    BY <1>2 DEF Live
  <2>2. \A p \in Proc : proc[p].task # NULL => proc[p].task \in Slot
    BY <1>1, SMT DEF ProcTypeOK
  <2>3. \A p \in Proc : Live(p) => /\ proc[p].task # NULL /\ CanRun(proc[p].task)
                                   /\ tproc[proc[p].task] = p /\ upc[proc[p].task] # "bye"
    BY <1>1, <1>3 DEF LinkedInv, LinkedOneToOne
  <2> QED  BY <1>2, <1>4, <2>1, <2>2, <2>3 DEF LinkedInv, LinkedOneToOne
<1>10. Entered'
  <2>1. \A t \in Slot : Inside(t)' = Inside(t) /\ (Inside(t) => CanRun(t))
    BY <1>4 DEF Inside
  <2> QED  BY <1>1, <1>2, <1>4, <2>1, SMT DEF Entered
<1>11. BuiltinInv'
  <2>1. \A k \in Builtin :
          /\ started'[k] <=> btask'[k] # NULL
          /\ btask'[k] # NULL => IF state'[btask'[k]] = "UNUSED" THEN sh' \in {"walk", "refresh"}
                                                              ELSE kind'[btask'[k]] = k
    BY DEF Keeps
  <2> QED  BY <1>1, <1>2, <1>3, <1>4, <1>5, <2>1, SMT DEF BuiltinInv
<1> QED  BY <1>6, <1>7, <1>8, <1>9, <1>10, <1>11 DEF ProcInv

\* A step of the shell within a command.
LEMMA PointStep ==
    ASSUME Guarded, ProcInv, ProcTypeOK', AtShell(sh), UNCHANGED vars,
           UNCHANGED <<proc, dirs, globalVars, cr3, linkVars, userVars, pending>>,
           sh \notin {"spawn", "link", "space", "kill2"},
           sh' \notin {"spawn", "link", "space", "walk", "testing"},
           sh' = "kill2" => \E p \in Proc : pp' = p /\ Live(p) /\ proc[p].task # NULL,
           \A k \in Builtin :
              /\ started'[k] <=> btask'[k] # NULL
              /\ btask'[k] # NULL => btask'[k] = btask[k] /\ state[btask[k]] # "UNUSED"
    PROVE  ProcInv'
<1>1. /\ state' = state /\ body' = body /\ current' = current /\ cpu' = cpu /\ pc' = pc /\ a' = a
      /\ tproc' = tproc /\ tspace' = tspace /\ kind' = kind
      /\ upc' = upc /\ uproc' = uproc /\ ucode' = ucode
  BY DEF vars, ringVars, cpuVars, codeVars, mainVars, linkVars, userVars
<1>2. Inv'
  BY ProcInvParts, InvNext DEF Guarded
<1>3. Bodies'
  BY <1>1, ProcInvParts DEF Bodies
<1>4. ShellPoints'
  <2>1. cpu = Main /\ pc[Main] = "run"
    BY AtShellFacts DEF AtShell
  <2> QED  BY <1>1, <2>1 DEF ShellPoints
<1>5. Keeps
  <2>1. \A t \in Slot : CanRun(t)' = CanRun(t)
    BY <1>1 DEF CanRun
  <2>2. \A k \in Builtin : btask[k] # NULL /\ state[btask[k]] # "UNUSED" => kind[btask[k]] = k
    BY ProcInvParts DEF BuiltinInv
  <2> QED  BY <1>1, <2>1, <2>2 DEF Keeps
<1> QED  BY <1>2, <1>3, <1>4, <1>5, KeepsStep

\* Such a step outside the walk that frees tasks.
LEMMA PlainStep ==
    ASSUME Guarded, ProcInv, AtShell(sh), UNCHANGED vars,
           UNCHANGED <<proc, starts, dirs, globalVars, cr3, linkVars, userVars, tt>>,
           UNCHANGED builtinVars,
           sh \notin {"spawn", "link", "space", "kill2", "walk", "refresh"},
           sh' \in SH \ {"spawn", "link", "space", "walk", "testing"},
           cmd' \in Command \cup {"none"}, i' \in Proc, pp' \in ProcOrNull,
           sh' = "kill2" => \E p \in Proc : pp' = p /\ Live(p) /\ proc[p].task # NULL
    PROVE  ProcInv'
<1>1. pending' = pending /\ started' = started /\ btask' = btask
  BY DEF builtinVars
<1>2. ProcTypeOK'
  BY <1>1, ProcInvParts DEF ProcTypeOK, globalVars, linkVars, userVars
<1>3. \A k \in Builtin :
        /\ started'[k] <=> btask'[k] # NULL
        /\ btask'[k] # NULL => btask'[k] = btask[k] /\ state[btask[k]] # "UNUSED"
  BY <1>1, ProcInvParts DEF BuiltinInv
<1> QED  BY <1>1, <1>2, <1>3, PointStep

\* A command is typed.
LEMMA CommandStep ==
    ASSUME Guarded, ProcInv, ShellCommand
    PROVE  ProcInv'
<1>1. /\ AtShell(sh) /\ sh = "prompt" /\ UNCHANGED vars /\ i' = 1 /\ pp' = pp
      /\ UNCHANGED <<proc, starts, dirs, globalVars, cr3, linkVars, userVars, tt>>
      /\ UNCHANGED builtinVars
  BY DEF ShellCommand, AtShell, tableVars
<1>2. sh' \in {"build", "kill", "reappid", "reap"} /\ cmd' \in Command
  BY ProcessesAssumption DEF ShellCommand, Dispatch
<1>3. i' \in Proc /\ pp' \in ProcOrNull
  BY <1>1, ProcInvParts, ProcessesAssumption, SMT DEF Proc, ProcTypeOK
<1> QED  BY <1>1, <1>2, <1>3, PlainStep DEF SH

\* KILL looks for its process.
LEMMA KillCheckStep ==
    ASSUME Guarded, ProcInv, ShellKillCheck
    PROVE  ProcInv'
<1>1. /\ AtShell(sh) /\ sh = "kill" /\ UNCHANGED vars /\ i' = i
      /\ UNCHANGED <<proc, starts, dirs, globalVars, cr3, linkVars, userVars, tt>>
      /\ UNCHANGED builtinVars
  BY DEF ShellKillCheck, AtShell, tableVars
<1>2. /\ sh' \in {"kill2", "treap"} /\ cmd' = cmd /\ (pp' = pp \/ pp' \in Proc)
      /\ sh' = "kill2" => \E p \in Proc : pp' = p /\ Live(p) /\ proc[p].task # NULL
  BY DEF ShellKillCheck, ShellAt
<1>3. i' \in Proc /\ pp' \in ProcOrNull /\ cmd' \in Command \cup {"none"}
  BY <1>1, <1>2, ProcInvParts DEF ProcTypeOK, ProcOrNull
<1> QED  BY <1>1, <1>2, <1>3, PlainStep DEF SH

\* A built-in test that is already started.
LEMMA TestAgainStep ==
    ASSUME Guarded, ProcInv, AtShell("test"), ShellAt("prompt"), UNCHANGED vars,
           UNCHANGED <<tableVars, globalVars, cr3, linkVars, userVars, i, pp, tt, builtinVars>>
    PROVE  ProcInv'
<1>1. /\ AtShell(sh) /\ sh = "test" /\ UNCHANGED vars /\ i' = i /\ pp' = pp
      /\ UNCHANGED <<proc, starts, dirs, globalVars, cr3, linkVars, userVars, tt>>
      /\ UNCHANGED builtinVars /\ sh' = "prompt" /\ cmd' = "none"
  BY DEF AtShell, tableVars, ShellAt
<1>2. i' \in Proc /\ pp' \in ProcOrNull /\ cmd' \in Command \cup {"none"}
  BY <1>1, ProcInvParts DEF ProcTypeOK
<1> QED  BY <1>1, <1>2, PlainStep DEF SH

\* The shell forgets built-in tasks that have ended.
LEMMA RefreshStep ==
    ASSUME Guarded, ProcInv, Refresh
    PROVE  ProcInv'
<1>1. /\ AtShell(sh) /\ sh = "refresh" /\ UNCHANGED vars /\ i' = i /\ pp' = pp
      /\ UNCHANGED <<proc, starts, dirs, globalVars, cr3, linkVars, userVars, tt>>
      /\ pending' = pending
  BY DEF Refresh, AtShell, tableVars
<1>2. sh' \in {"build", "prompt", "test"} /\ cmd' \in {cmd, "none"}
  BY DEF Refresh, AfterReap, ShellAt
<1> DEFINE gone(k) == started[k] /\ btask[k] # NULL /\ state[btask[k]] = "UNUSED"
<1>3. /\ started' = [k \in Builtin |-> started[k] /\ ~gone(k)]
      /\ btask' = [k \in Builtin |-> IF gone(k) THEN NULL ELSE btask[k]]
  BY DEF Refresh
<1>4. ProcTypeOK /\ BuiltinInv
  BY ProcInvParts
<1>5. \A k \in Builtin : started[k] \in BOOLEAN /\ btask[k] \in Slot \cup {NULL}
  BY <1>4 DEF ProcTypeOK
<1>6. \A k \in Builtin :
        /\ started'[k] <=> btask'[k] # NULL
        /\ btask'[k] # NULL => btask'[k] = btask[k] /\ state[btask[k]] # "UNUSED"
  BY <1>3, <1>4, <1>5 DEF BuiltinInv
<1>7. ProcTypeOK'
  <2>1. started' \in [Builtin -> BOOLEAN]
    BY <1>3, <1>5
  <2>2. btask' \in [Builtin -> Slot \cup {NULL}]
    BY <1>3, <1>5
  <2>3. sh' \in SH /\ cmd' \in Command \cup {"none"}
    BY <1>2, <1>4 DEF ProcTypeOK, SH
  <2> QED  BY <1>1, <1>4, <2>1, <2>2, <2>3 DEF ProcTypeOK, globalVars, linkVars, userVars
<1> QED  BY <1>1, <1>2, <1>6, <1>7, PointStep

-----------------------------------------------------------------------------
(* Steps of the shell that change the process table *)

\* The parts of the state that only tasks and the scheduler change.
Still == UNCHANGED vars /\ UNCHANGED <<globalVars, cr3, userVars, kind>>

\* What such a step leaves alone, piece by piece.
LEMMA StillFacts ==
    ASSUME Guarded, ProcInv, ShellReady, Still
    PROVE  /\ Inv' /\ cpu = Main /\ current = Main /\ pc[Main] = "run" /\ cr3 = Kernel
           /\ state' = state /\ body' = body /\ current' = current /\ cpu' = cpu /\ pc' = pc
           /\ a' = a /\ kind' = kind /\ upc' = upc /\ uproc' = uproc /\ ucode' = ucode
           /\ current_user_process' = current_user_process /\ saved' = saved /\ esp0' = esp0
           /\ owner' = owner /\ kstack' = kstack /\ cr3' = cr3
           /\ \A t \in Slot : CanRun(t)' = CanRun(t)
<1>1. UNCHANGED vars /\ UNCHANGED <<globalVars, cr3, userVars, kind>>
  BY DEF Still
<1>2. Inv'
  BY <1>1, ProcInvParts, InvNext DEF Guarded
<1> QED  BY <1>1, <1>2, AtShellFacts
         DEF vars, ringVars, cpuVars, codeVars, mainVars, userVars, globalVars, CanRun

\* The tasks and the globals, when their links to processes stay.
LEMMA StillParts ==
    ASSUME Guarded, ProcInv, ShellReady, Still, tspace'[Main] = Kernel, sh' \notin {"walk", "testing"}
    PROVE  Bodies' /\ ShellPoints'
<1>1. Bodies'
  BY StillFacts, ProcInvParts DEF Bodies
<1>2. ShellPoints'
  BY StillFacts, ProcInvParts DEF ShellPoints
<1> QED  BY <1>1, <1>2

\* It enters no program.
LEMMA StillEntered ==
    ASSUME Guarded, ProcInv, ShellReady, Still, \A t \in Slot : Inside(t) => tproc'[t] = tproc[t]
    PROVE  Entered'
<1>1. \A t \in Slot : Inside(t)' = Inside(t)
  BY StillFacts DEF Inside
<1> QED  BY <1>1, StillFacts, ProcInvParts DEF Entered

\* user_process_clear: of a process that has ended, or of the one that was
\* being built.
Clears(p) ==
    /\ ShellReady /\ Still /\ Clear(p)
    /\ UNCHANGED <<tproc, tspace, starts, tt, started, btask>>
    /\ \/ /\ sh \in {"reap", "reappid"} /\ pending' = pending
          /\ p # current_user_process /\ user_process_is_dead(p)
       \/ /\ sh = "spawn" /\ p = pp
          /\ pending' = IF KindOf(cmd) \in Builtin
                        THEN [pending EXCEPT ![KindOf(cmd)] = NULL] ELSE pending
    /\ sh' \in {"reap", "treap", "prompt"} /\ cmd' \in {cmd, "none"}
    /\ i' \in Proc /\ pp' \in {pp, NULL}

\* No running task has the process that is cleared.
LEMMA ClearsFacts ==
    ASSUME ProcInv, NEW p \in Proc, Clears(p)
    PROVE  /\ proc[p].state # "UNUSED" /\ dirs' = dirs \ {proc[p].space}
           /\ proc' \in [Proc -> [state : ProcState, task : Slot \cup {NULL},
                                  space : Space \cup {NULL}]]
           /\ proc'[p].state = "UNUSED" /\ \A q \in Proc \ {p} : proc'[q] = proc[q]
           /\ \A t \in Slot : Active(t) => tproc[t] # p
           /\ \A t \in Slot : ~Linking(t) /\ ~Linking(t)'
<1>1. /\ proc' = [proc EXCEPT ![p] = Unused] /\ dirs' = dirs \ {proc[p].space}
      /\ sh # "link" /\ sh' # "link"
  BY DEF Clears, Clear
<1>2. \/ /\ p # current_user_process /\ user_process_is_dead(p)
      \/ /\ sh = "spawn" /\ p = pp
  BY DEF Clears
<1>3. proc[p].state # "UNUSED"
  BY <1>2, ProcInvParts DEF user_process_is_dead, Building
<1>4. \A t \in Slot : Active(t) => tproc[t] # p
  <2> SUFFICES ASSUME NEW t \in Slot, Active(t), tproc[t] = p PROVE FALSE
    OBVIOUS
  <2>1. proc[p].task = t /\ proc[p].state \in StateAt(t) /\ CanRun(t) /\ upc[t] # "bye"
    BY ProcInvParts DEF Holds, Active
  <2>2. CASE p # current_user_process /\ user_process_is_dead(p)
    <3>1. upc[t] \in {"mark", "close"}
      BY <2>1, <2>2, ProcInvParts, ProcFacts DEF StateAt, user_process_is_dead, ProcTypeOK, UPC
    <3>2. Inside(t)
      BY <2>1, <3>1 DEF Inside
    <3> QED  BY <2>2, <3>2, ProcInvParts DEF Entered
  <2>3. CASE sh = "spawn" /\ p = pp
    BY <2>1, <2>3, ProcInvParts, ProcFacts DEF Building
  <2> QED  BY <1>2, <2>2, <2>3
<1>5. \A t \in Slot : ~Linking(t) /\ ~Linking(t)'
  BY <1>1 DEF Linking
<1>6. /\ proc' \in [Proc -> [state : ProcState, task : Slot \cup {NULL},
                             space : Space \cup {NULL}]]
      /\ proc'[p].state = "UNUSED" /\ \A q \in Proc \ {p} : proc'[q] = proc[q]
  BY <1>1, ProcInvParts DEF ProcTypeOK, Unused, ProcState
<1> QED  BY <1>1, <1>3, <1>4, <1>5, <1>6

\* Clearing a process keeps the invariant: the states that StateAt allows a
\* task at work are not among those that are cleared.
LEMMA ClearsStep ==
    ASSUME Guarded, ProcInv, NEW p \in Proc, Clears(p)
    PROVE  ProcInv'
<1>1. ProcTypeOK /\ Bodies /\ Building /\ Spaces /\ Holds /\ LinkedInv /\ BuiltinInv
  BY ProcInvParts
<1>2. /\ ShellReady /\ Still /\ tproc' = tproc /\ tspace' = tspace /\ starts' = starts
      /\ tt' = tt /\ started' = started /\ btask' = btask
      /\ sh' \in {"reap", "treap", "prompt"} /\ cmd' \in {cmd, "none"}
      /\ i' \in Proc /\ pp' \in {pp, NULL}
  BY DEF Clears
<1>3. \/ sh \in {"reap", "reappid"} /\ pending' = pending
      \/ /\ sh = "spawn" /\ p = pp
         /\ pending' = IF KindOf(cmd) \in Builtin
                       THEN [pending EXCEPT ![KindOf(cmd)] = NULL] ELSE pending
  BY DEF Clears
<1>4. Inv' /\ Bodies' /\ ShellPoints' /\ Entered'
  BY <1>1, <1>2, StillFacts, StillParts, StillEntered DEF Bodies
<1>5. /\ proc[p].state # "UNUSED" /\ dirs' = dirs \ {proc[p].space}
      /\ proc'[p].state = "UNUSED" /\ \A q \in Proc \ {p} : proc'[q] = proc[q]
      /\ \A t \in Slot : Active(t) => tproc[t] # p
      /\ \A t \in Slot : ~Linking(t) /\ ~Linking(t)'
  BY ClearsFacts
<1>6. /\ kind' = kind /\ upc' = upc /\ uproc' = uproc /\ ucode' = ucode /\ state' = state
      /\ current' = current /\ current = Main /\ cr3' = cr3 /\ cr3 = Kernel
      /\ \A t \in Slot : CanRun(t)' = CanRun(t)
  BY <1>2, StillFacts
<1>7. ProcTypeOK'
  <2>1. proc' \in [Proc -> [state : ProcState, task : Slot \cup {NULL},
                            space : Space \cup {NULL}]]
    BY ClearsFacts
  <2>2. pending' \in [Builtin -> ProcOrNull] /\ dirs' \subseteq Space
    BY <1>1, <1>3, <1>5 DEF ProcTypeOK, ProcOrNull
  <2>3. sh' \in SH /\ cmd' \in Command \cup {"none"} /\ pp' \in ProcOrNull
    BY <1>1, <1>2 DEF ProcTypeOK, SH, ProcOrNull
  <2> QED  BY <1>1, <1>2, <1>6, <2>1, <2>2, <2>3, StillFacts DEF ProcTypeOK
<1>8. Building'
  BY <1>2 DEF Building
<1>9. Spaces'
  <2>1. \A q \in Proc : proc'[q].state # "UNUSED" =>
          q # p /\ proc'[q] = proc[q] /\ proc[q].space # proc[p].space
    BY <1>1, <1>5 DEF Spaces
  <2> QED  BY <1>1, <1>5, <1>6, <2>1, SMT DEF Spaces, Cr3Live
<1>10. Holds'
  <2>1. \A t \in Slot : Active(t)' => Active(t) /\ StateAt(t)' = StateAt(t)
    BY <1>5, <1>6 DEF Active, StateAt
  <2>2. \A t \in Slot : Active(t) => current # t
    BY <1>6, ProcFacts
  <2>3. \A t \in Slot : Active(t) => tproc[t] \in Proc \ {p}
    BY <1>1, <1>5 DEF Holds
  <2>4. sh # "space"
    BY <1>3
  <2> QED  BY <1>1, <1>2, <1>5, <1>6, <2>1, <2>2, <2>3, <2>4, SMT DEF Holds
<1>11. LinkedInv'
  <2>1. \A q \in Proc : Live(q)' => q # p /\ Live(q) /\ proc'[q] = proc[q]
    BY <1>5 DEF Live
  <2>2. \A q \in Proc \ {p} : ~(pp = q /\ sh \in {"spawn", "link"})
    BY <1>3
  <2>3. \A q \in Proc : proc[q].task # NULL => proc[q].task \in Slot
    BY <1>1 DEF ProcTypeOK
  <2> QED  BY <1>1, <1>2, <1>6, <2>1, <2>2, <2>3 DEF LinkedInv, LinkedOneToOne
<1>12. BuiltinInv'
  <2>1. \A k \in Builtin :
          /\ started'[k] <=> btask'[k] # NULL
          /\ btask'[k] # NULL => IF state'[btask'[k]] = "UNUSED" THEN sh' \in {"walk", "refresh"}
                                                              ELSE kind'[btask'[k]] = k
    BY <1>1, <1>2, <1>3, <1>6 DEF BuiltinInv
  <2>2. ASSUME NEW t \in Slot, CanRun(t), kind[t] \in Builtin, upc[t] = "entry"
        PROVE  pending'[kind[t]] = tproc[t]
    <3>1. Active(t) /\ pending[kind[t]] = tproc[t]
      BY <1>1, <1>5, <2>2 DEF Active, BuiltinInv
    <3>2. tproc[t] # p
      BY <1>5, <3>1
    <3>3. sh = "spawn" /\ p = pp /\ KindOf(cmd) \in Builtin => kind[t] # KindOf(cmd)
      BY <1>1, <3>1, <3>2 DEF BuiltinInv
    <3> QED  BY <1>1, <1>3, <2>2, <3>1, <3>3 DEF ProcTypeOK
  <2> QED  BY <1>2, <1>5, <1>6, <2>1, <2>2 DEF BuiltinInv
<1> QED  BY <1>4, <1>7, <1>8, <1>9, <1>10, <1>11, <1>12 DEF ProcInv

\* One step of the loop of user_process_reap.
LEMMA ReapProcessStep ==
    ASSUME Guarded, ProcInv, ReapProcess
    PROVE  ProcInv'
<1>1. /\ AtShell("reap") /\ UNCHANGED vars /\ pp' = pp
      /\ UNCHANGED <<starts, globalVars, cr3, linkVars, userVars, tt>> /\ UNCHANGED builtinVars
  BY DEF ReapProcess
<1>2. sh' \in {"reap", "treap"} /\ cmd' = cmd /\ i' = IF i < MAX_USER_PROCESSES THEN i + 1 ELSE 1
  BY DEF ReapProcess, ShellAt
<1>3. i \in Proc /\ i' \in Proc /\ pp' \in ProcOrNull /\ cmd' \in Command \cup {"none"}
  <2>1. i \in Proc
    BY ProcInvParts DEF ProcTypeOK
  <2>2. i' \in Proc
    BY <1>2, <2>1, ProcessesAssumption, SMT DEF Proc
  <2> QED  BY <1>1, <1>2, <2>1, <2>2, ProcInvParts DEF ProcTypeOK
<1>4. CASE i # current_user_process /\ user_process_is_dead(i) /\ Clear(i)
  <2>1. PICK p \in Proc : p = i
    BY <1>3
  <2>2. Clears(p)
    BY <1>1, <1>2, <1>3, <1>4, <2>1 DEF Clears, AtShell, Still, linkVars, builtinVars
  <2> QED  BY <2>2, ClearsStep
<1>5. CASE UNCHANGED <<proc, dirs>>
  BY <1>1, <1>2, <1>3, <1>5, PlainStep DEF AtShell, SH
<1> QED  BY <1>4, <1>5 DEF ReapProcess

\* REAP of one process.
LEMMA ReapPidStep ==
    ASSUME Guarded, ProcInv, ReapPid
    PROVE  ProcInv'
<1>1. /\ AtShell("reappid") /\ UNCHANGED vars /\ pp' = pp /\ i' = i
      /\ UNCHANGED <<starts, globalVars, cr3, linkVars, userVars, tt>> /\ UNCHANGED builtinVars
      /\ sh' = "treap" /\ cmd' = cmd
  BY DEF ReapPid, ShellAt
<1>2. i' \in Proc /\ pp' \in ProcOrNull /\ cmd' \in Command \cup {"none"}
  BY <1>1, ProcInvParts DEF ProcTypeOK
<1>3. CASE \E p \in Proc : p # current_user_process /\ user_process_is_dead(p) /\ Clear(p)
  <2>1. PICK p \in Proc : p # current_user_process /\ user_process_is_dead(p) /\ Clear(p)
    BY <1>3
  <2>2. Clears(p)
    BY <1>1, <1>2, <2>1 DEF Clears, AtShell, Still, linkVars, builtinVars
  <2> QED  BY <2>2, ClearsStep
<1>4. CASE UNCHANGED <<proc, dirs>>
  BY <1>1, <1>2, <1>4, PlainStep DEF AtShell, SH
<1> QED  BY <1>3, <1>4 DEF ReapPid

\* spawn_task fails, and the command gives its process back.
LEMMA SpawnFailsStep ==
    ASSUME Guarded, ProcInv, Spawn, UNCHANGED vars, Clear(pp),
           pending' = (IF KindOf(cmd) \in Builtin
                       THEN [pending EXCEPT ![KindOf(cmd)] = NULL] ELSE pending),
           pp' = NULL, ShellAt("prompt"), UNCHANGED <<linkVars, upc, tt>>
    PROVE  ProcInv'
<1>1. AtShell("spawn") /\ UNCHANGED <<starts, globalVars, cr3, uproc, ucode, i, started, btask>>
  BY DEF Spawn
<1>2. PICK p \in Proc : p = pp
  BY <1>1, ProcInvParts DEF AtShell, Building
<1>3. i' \in Proc
  BY <1>1, ProcInvParts DEF ProcTypeOK
<1>4. Clears(p)
  BY <1>1, <1>2, <1>3 DEF Clears, AtShell, Still, linkVars, userVars, ShellAt
<1> QED  BY <1>4, ClearsStep

\* A process and an address space for a program.
Builds(p, s) ==
    /\ ShellReady /\ Still /\ sh = "build" /\ sh' = "spawn" /\ cmd' = cmd /\ pp' = p
    /\ UNCHANGED <<tproc, tspace, i, tt, started, btask>> /\ starts' \in 0 .. MAX_STARTS
    /\ proc[p].state = "UNUSED" /\ s \notin dirs /\ dirs' = dirs \cup {s}
    /\ proc' = [proc EXCEPT ![p] = [state |-> "READY", task |-> NULL, space |-> s]]
    /\ KindOf(cmd) \in Builtin => pending[KindOf(cmd)] = NULL
    /\ pending' = IF KindOf(cmd) \in Builtin THEN [pending EXCEPT ![KindOf(cmd)] = p] ELSE pending

\* A new process keeps the invariant: its address space is nobody's.
LEMMA BuildsStep ==
    ASSUME Guarded, ProcInv, NEW p \in Proc, NEW s \in Space, Builds(p, s)
    PROVE  ProcInv'
<1>1. ProcTypeOK /\ Bodies /\ Spaces /\ Holds /\ LinkedInv /\ BuiltinInv
  BY ProcInvParts
<1>2. /\ ShellReady /\ Still /\ sh = "build" /\ sh' = "spawn" /\ cmd' = cmd /\ pp' = p
      /\ tproc' = tproc /\ tspace' = tspace /\ i' = i /\ tt' = tt
      /\ started' = started /\ btask' = btask /\ starts' \in 0 .. MAX_STARTS
  BY DEF Builds
<1>3. proc[p].state = "UNUSED" /\ s \notin dirs /\ dirs' = dirs \cup {s}
  BY DEF Builds
<1>4. /\ KindOf(cmd) \in Builtin => pending[KindOf(cmd)] = NULL
      /\ pending' = IF KindOf(cmd) \in Builtin THEN [pending EXCEPT ![KindOf(cmd)] = p] ELSE pending
  BY DEF Builds
<1>5. Inv' /\ Bodies' /\ ShellPoints' /\ Entered'
  BY <1>1, <1>2, StillFacts, StillParts, StillEntered DEF Bodies
<1>6. /\ kind' = kind /\ upc' = upc /\ uproc' = uproc /\ ucode' = ucode /\ state' = state
      /\ current' = current /\ current = Main /\ cr3' = cr3 /\ cr3 = Kernel
      /\ \A t \in Slot : CanRun(t)' = CanRun(t)
  BY <1>2, StillFacts
<1>7. /\ proc' \in [Proc -> [state : ProcState, task : Slot \cup {NULL},
                             space : Space \cup {NULL}]]
      /\ proc'[p] = [state |-> "READY", task |-> NULL, space |-> s]
      /\ \A q \in Proc \ {p} : proc'[q] = proc[q]
  BY <1>1 DEF Builds, ProcTypeOK, ProcState
<1>8. ProcTypeOK'
  <2>1. pending' \in [Builtin -> ProcOrNull] /\ dirs' \subseteq Space
    BY <1>1, <1>3, <1>4 DEF ProcTypeOK, ProcOrNull
  <2>2. sh' \in SH /\ pp' \in ProcOrNull
    BY <1>2 DEF SH, ProcOrNull
  <2> QED  BY <1>1, <1>2, <1>6, <1>7, <2>1, <2>2, StillFacts DEF ProcTypeOK
<1>9. Building'
  BY <1>2, <1>7, SMT DEF Building
<1>10. Spaces'
  BY <1>1, <1>3, <1>6, <1>7, SMT DEF Spaces, Cr3Live
<1>11. \A t \in Slot : ~Linking(t) /\ ~Linking(t)'
  BY <1>2 DEF Linking
<1>12. \A t \in Slot : Active(t) => tproc[t] \in Proc \ {p}
  BY <1>1, <1>3 DEF Holds, StateAt
<1>13. Holds'
  <2>1. \A t \in Slot : Active(t)' => Active(t) /\ StateAt(t)' = StateAt(t)
    BY <1>6, <1>11 DEF Active, StateAt
  <2>2. \A t \in Slot : current # t
    BY <1>6, ProcFacts
  <2> QED  BY <1>1, <1>2, <1>6, <1>7, <1>12, <2>1, <2>2, SMT DEF Holds
<1>14. LinkedInv'
  <2>1. \A q \in Proc \ {p} : Live(q)' => Live(q) /\ proc'[q] = proc[q]
    BY <1>7 DEF Live
  <2>2. \A q \in Proc : proc[q].task # NULL => proc[q].task \in Slot
    BY <1>1 DEF ProcTypeOK
  <2> QED  BY <1>1, <1>2, <1>6, <1>7, <2>1, <2>2, SMT DEF LinkedInv, LinkedOneToOne
<1>15. BuiltinInv'
  <2>1. \A k \in Builtin :
          /\ started'[k] <=> btask'[k] # NULL
          /\ btask'[k] # NULL => IF state'[btask'[k]] = "UNUSED" THEN sh' \in {"walk", "refresh"}
                                                              ELSE kind'[btask'[k]] = k
    BY <1>1, <1>2, <1>6 DEF BuiltinInv
  <2>2. ASSUME NEW t \in Slot, CanRun(t), kind[t] \in Builtin, upc[t] = "entry"
        PROVE  pending'[kind[t]] = tproc[t]
    <3>1. Active(t) /\ pending[kind[t]] = tproc[t]
      BY <1>1, <1>11, <2>2 DEF Active, BuiltinInv
    <3>2. KindOf(cmd) \in Builtin => kind[t] # KindOf(cmd)
      BY <1>4, <1>12, <3>1, ProcFacts
    <3> QED  BY <1>1, <1>4, <2>2, <3>1, <3>2 DEF ProcTypeOK
  <2>3. KindOf(cmd) \in Builtin => pending'[KindOf(cmd)] = p
    BY <1>1, <1>4 DEF ProcTypeOK
  <2> QED  BY <1>2, <1>6, <1>11, <2>1, <2>2, <2>3 DEF BuiltinInv
<1> QED  BY <1>5, <1>8, <1>9, <1>10, <1>13, <1>14, <1>15 DEF ProcInv

\* A command builds its process, or fails to.
LEMMA BuildStep ==
    ASSUME Guarded, ProcInv, Build
    PROVE  ProcInv'
<1>1. /\ AtShell("build") /\ UNCHANGED vars
      /\ UNCHANGED <<globalVars, cr3, linkVars, userVars, i, tt, started, btask>>
  BY DEF Build
<1>2. CASE ShellAt("prompt") /\ UNCHANGED <<tableVars, pp, pending>>
  <2>1. i' \in Proc /\ pp' \in ProcOrNull /\ cmd' \in Command \cup {"none"} /\ sh' = "prompt"
    BY <1>1, <1>2, ProcInvParts DEF ProcTypeOK, ShellAt
  <2>2. UNCHANGED <<proc, starts, dirs, globalVars, cr3, linkVars, userVars, tt>>
        /\ UNCHANGED builtinVars /\ AtShell(sh) /\ sh = "build"
    BY <1>1, <1>2 DEF tableVars, builtinVars, AtShell
  <2> QED  BY <1>1, <2>1, <2>2, PlainStep DEF SH
<1>3. CASE ~(ShellAt("prompt") /\ UNCHANGED <<tableVars, pp, pending>>)
  <2>1. PICK p \in Proc, s \in Space :
           /\ FreeProc(p) /\ FreeSpace(s)
           /\ proc' = [proc EXCEPT ![p] = [state |-> "READY", task |-> NULL, space |-> s]]
           /\ dirs' = dirs \cup {s} /\ pp' = p
           /\ pending' = IF KindOf(cmd) \in Builtin THEN [pending EXCEPT ![KindOf(cmd)] = p]
                                                    ELSE pending
    BY <1>3 DEF Build
  <2>2. /\ KindOf(cmd) \in Builtin => pending[KindOf(cmd)] = NULL
        /\ starts < MAX_STARTS /\ starts' = starts + 1 /\ ShellAt("spawn")
    BY <1>3 DEF Build
  <2>3. starts' \in 0 .. MAX_STARTS
    <3>1. starts \in 0 .. MAX_STARTS
      BY ProcInvParts DEF ProcTypeOK
    <3> QED  BY <2>2, <3>1, ProcessesAssumption, SMT
  <2>4. Builds(p, s)
    BY <1>1, <2>1, <2>2, <2>3 DEF Builds, AtShell, ShellAt, Still, linkVars, FreeProc, FreeSpace
  <2> QED  BY <2>4, BuildsStep
<1> QED  BY <1>2, <1>3

\* The process p and the task x learn of each other.
LEMMA LinkStep ==
    ASSUME Guarded, ProcInv, Link
    PROVE  ProcInv'
<1>1. ProcTypeOK /\ Bodies /\ Building /\ Spaces /\ Holds /\ LinkedInv /\ BuiltinInv
  BY ProcInvParts
<1>2. ShellReady /\ sh = "link" /\ Still
  BY DEF Link, AtShell, Still
<1>3. PICK p \in Proc : p = pp /\ proc[p].state = "READY" /\ proc[p].task = NULL
  BY <1>1, <1>2 DEF Building
<1>4. PICK x \in Slot : /\ x = tt /\ CanRun(x) /\ upc[x] = "entry" /\ kind[x] = KindOf(cmd)
                        /\ tproc[x] = NULL
  BY <1>1, <1>2 DEF Building
<1>5. /\ sh' = "space" /\ cmd' = cmd /\ starts' = starts /\ dirs' = dirs /\ tspace' = tspace
      /\ i' = i /\ pp' = pp /\ tt' = tt
      /\ pending' = pending /\ started' = started /\ btask' = btask
      /\ proc' = [proc EXCEPT ![p].task = x] /\ tproc' = [tproc EXCEPT ![x] = p]
  BY <1>3, <1>4 DEF Link, ShellAt, builtinVars
<1>6. /\ kind' = kind /\ upc' = upc /\ uproc' = uproc /\ ucode' = ucode /\ state' = state
      /\ current' = current /\ current = Main /\ cr3' = cr3 /\ cr3 = Kernel
      /\ \A t \in Slot : CanRun(t)' = CanRun(t)
  BY <1>2, StillFacts
<1>7. /\ proc' \in [Proc -> [state : ProcState, task : Slot \cup {NULL},
                             space : Space \cup {NULL}]]
      /\ \A q \in Proc : /\ proc'[q].state = proc[q].state /\ proc'[q].space = proc[q].space
                         /\ proc'[q].task = IF q = p THEN x ELSE proc[q].task
  BY <1>1, <1>5, SMT DEF ProcTypeOK
<1>8. /\ tproc' \in [Task -> ProcOrNull]
      /\ \A t \in Task : tproc'[t] = IF t = x THEN p ELSE tproc[t]
  BY <1>1, <1>5, ProcFacts DEF ProcTypeOK, ProcOrNull
<1>9. ProcTypeOK'
  <2>1. sh' \in SH
    BY <1>5 DEF SH
  <2> QED  BY <1>1, <1>2, <1>5, <1>6, <1>7, <1>8, <2>1, StillFacts DEF ProcTypeOK
<1>10. Inv' /\ Bodies' /\ ShellPoints' /\ Entered'
  <2>1. tspace'[Main] = Kernel /\ sh' \notin {"walk", "testing"}
    BY <1>1, <1>5 DEF Bodies
  <2>2. \A t \in Slot : Inside(t) => tproc'[t] = tproc[t]
    BY <1>4, <1>8, ProcFacts DEF Inside
  <2> QED  BY <1>2, <2>1, <2>2, StillFacts, StillParts, StillEntered
<1>11. Building'
  <2>1. CanRun(x)' /\ x \in Task
    BY <1>4, <1>6, ProcFacts
  <2> QED  BY <1>3, <1>4, <1>5, <1>6, <1>7, <1>8, <2>1 DEF Building
<1>12. Spaces'
  BY <1>1, <1>5, <1>6, <1>7, SMT DEF Spaces, Cr3Live
<1>13. Holds'
  <2> SUFFICES ASSUME NEW t \in Slot, Active(t)'
               PROVE  /\ tproc'[t] \in Proc /\ proc'[tproc'[t]].task = t
                      /\ proc'[tproc'[t]].state \in StateAt(t)'
                      /\ upc[t] # "entry" => uproc[t] = tproc'[t]
                      /\ t # x => tspace[t] = proc'[tproc'[t]].space
    <3>1. \A t \in Slot : current' # t
      BY <1>6, ProcFacts
    <3> QED  BY <1>4, <1>5, <1>6, <3>1 DEF Holds
  <2>1. StateAt(t)' = StateAt(t)
    BY <1>6 DEF StateAt
  <2>2. CASE t = x
    BY <1>3, <1>4, <1>7, <1>8, <2>1, <2>2, ProcFacts DEF StateAt
  <2>3. CASE t # x
    <3>1. Active(t)
      BY <1>4, <1>6, <2>3 DEF Active, Linking
    <3>2. /\ tproc[t] \in Proc /\ proc[tproc[t]].task = t /\ tproc[t] # p
      BY <1>1, <1>3, <3>1, ProcFacts, SMT DEF Holds
    <3> QED  BY <1>1, <1>2, <1>7, <1>8, <2>1, <2>3, <3>1, <3>2, ProcFacts, SMT DEF Holds
  <2> QED  BY <2>2, <2>3
<1>14. LinkedInv'
  <2>1. \A q \in Proc : Live(q)' = Live(q)
    BY <1>7 DEF Live
  <2>2. \A q \in Proc \ {p} : Live(q) =>
          /\ proc[q].task \in Slot /\ proc[q].task # x /\ CanRun(proc[q].task)
          /\ tproc[proc[q].task] = q /\ upc[proc[q].task] # "bye"
    <3> SUFFICES ASSUME NEW q \in Proc \ {p}, Live(q)
                 PROVE  /\ proc[q].task \in Slot /\ proc[q].task # x /\ CanRun(proc[q].task)
                        /\ tproc[proc[q].task] = q /\ upc[proc[q].task] # "bye"
      OBVIOUS
    <3>1. /\ proc[q].task # NULL /\ CanRun(proc[q].task) /\ tproc[proc[q].task] = q
          /\ upc[proc[q].task] # "bye"
      BY <1>1, <1>3 DEF LinkedInv, LinkedOneToOne
    <3> QED  BY <1>1, <1>4, <3>1, ProcFacts DEF ProcTypeOK
  <2>3. \A q \in Proc \ {p} : proc'[q].task = proc[q].task
    BY <1>7
  <2>4. /\ proc'[p].task = x /\ tproc'[x] = p /\ CanRun(x)' /\ upc'[x] # "bye"
    BY <1>4, <1>6, <1>7, <1>8, ProcFacts
  <2> QED  BY <1>6, <1>8, <2>1, <2>2, <2>3, <2>4, ProcFacts, SMT DEF LinkedInv, LinkedOneToOne
<1>15. BuiltinInv'
  <2>1. \A k \in Builtin :
          /\ started'[k] <=> btask'[k] # NULL
          /\ btask'[k] # NULL => IF state'[btask'[k]] = "UNUSED" THEN sh' \in {"walk", "refresh"}
                                                              ELSE kind'[btask'[k]] = k
    BY <1>1, <1>2, <1>5, <1>6 DEF BuiltinInv
  <2>2. \A t \in Slot : Linking(t) <=> t = x
    BY <1>2, <1>4 DEF Linking
  <2>3. \A t \in Slot : CanRun(t) /\ kind[t] \in Builtin /\ upc[t] = "entry" =>
          pending[kind[t]] = tproc'[t]
    BY <1>1, <1>3, <1>8, <2>2, ProcFacts, SMT DEF BuiltinInv
  <2>4. \A t \in Slot : ~Linking(t)'
    BY <1>5 DEF Linking
  <2> QED  BY <1>5, <1>6, <2>1, <2>3, <2>4 DEF BuiltinInv
<1> QED  BY <1>9, <1>10, <1>11, <1>12, <1>13, <1>14, <1>15 DEF ProcInv

\* The address space of the process is given to the task.
LEMMA LinkSpaceStep ==
    ASSUME Guarded, ProcInv, LinkSpace
    PROVE  ProcInv'
<1>1. ProcTypeOK /\ Bodies /\ Building /\ Spaces /\ Holds /\ LinkedInv /\ BuiltinInv
  BY ProcInvParts
<1>2. ShellReady /\ sh = "space" /\ Still
  BY DEF LinkSpace, AtShell, Still
<1>3. PICK p \in Proc : p = pp /\ proc[p].state = "READY" /\ proc[p].task = tt
  BY <1>1, <1>2 DEF Building
<1>4. PICK x \in Slot : /\ x = tt /\ CanRun(x) /\ upc[x] = "entry" /\ kind[x] = KindOf(cmd)
                        /\ tproc[x] = p
  BY <1>1, <1>2, <1>3 DEF Building
<1>5. /\ sh' = "prompt" /\ cmd' = "none" /\ starts' = starts /\ dirs' = dirs /\ tproc' = tproc
      /\ proc' = proc /\ i' = i /\ pp' = NULL /\ tt' = NULL /\ pending' = pending
      /\ tspace' = [tspace EXCEPT ![x] = proc[p].space]
  BY <1>3, <1>4 DEF LinkSpace, ShellAt, tableVars
<1>6. \/ started' = started /\ btask' = btask
      \/ /\ kind[x] \in Builtin /\ started' = [started EXCEPT ![kind[x]] = TRUE]
         /\ btask' = [btask EXCEPT ![kind[x]] = x]
  BY <1>4 DEF LinkSpace
<1>7. /\ kind' = kind /\ upc' = upc /\ uproc' = uproc /\ ucode' = ucode /\ state' = state
      /\ current' = current /\ current = Main /\ cr3' = cr3 /\ cr3 = Kernel
      /\ \A t \in Slot : CanRun(t)' = CanRun(t)
  BY <1>2, StillFacts
<1>8. /\ proc[p].space \in Space /\ tspace' \in [Task -> Space \cup {Kernel, NULL}]
      /\ \A t \in Task : tspace'[t] = IF t = x THEN proc[p].space ELSE tspace[t]
  <2>1. proc[p].space \in Space
    BY <1>1, <1>3 DEF Spaces, ProcTypeOK
  <2> QED  BY <1>1, <1>5, <2>1, ProcFacts DEF ProcTypeOK
<1>9. ProcTypeOK'
  <2>1. started' \in [Builtin -> BOOLEAN] /\ btask' \in [Builtin -> Slot \cup {NULL}]
    <3>1. started \in [Builtin -> BOOLEAN] /\ btask \in [Builtin -> Slot \cup {NULL}]
      BY <1>1 DEF ProcTypeOK
    <3>2. btask' \in [Builtin -> Slot \cup {NULL}]
      BY <1>6, <3>1
    <3>3. started' \in [Builtin -> BOOLEAN]
      BY <1>6, <3>1
    <3> QED  BY <3>2, <3>3
  <2>2. sh' \in SH /\ pp' \in ProcOrNull
    BY <1>5 DEF SH, ProcOrNull
  <2> QED  BY <1>1, <1>2, <1>5, <1>7, <1>8, <2>1, <2>2, StillFacts DEF ProcTypeOK
<1>10. Inv' /\ Bodies' /\ ShellPoints' /\ Entered'
  <2>1. tspace'[Main] = Kernel /\ sh' \notin {"walk", "testing"}
    BY <1>1, <1>5, <1>8, ProcFacts DEF Bodies
  <2> QED  BY <1>2, <1>5, <2>1, StillFacts, StillParts, StillEntered
<1>11. Building'
  BY <1>5 DEF Building
<1>12. Spaces'
  BY <1>1, <1>5, <1>7 DEF Spaces, Cr3Live
<1>13. Holds'
  <2> SUFFICES ASSUME NEW t \in Slot, Active(t)'
               PROVE  /\ tproc[t] \in Proc /\ proc[tproc[t]].task = t
                      /\ proc[tproc[t]].state \in StateAt(t)'
                      /\ upc[t] # "entry" => uproc[t] = tproc[t]
                      /\ tspace'[t] = proc[tproc[t]].space
    <3>1. \A t \in Slot : current' # t
      BY <1>7, ProcFacts
    <3> QED  BY <1>5, <1>7, <3>1 DEF Holds
  <2>1. StateAt(t)' = StateAt(t) /\ Active(t)
    BY <1>2, <1>7 DEF StateAt, Active, Linking
  <2> QED  BY <1>1, <1>4, <1>8, <2>1, ProcFacts DEF Holds
<1>14. LinkedInv'
  <2>1. \A q \in Proc : Live(q)' = Live(q)
    BY <1>5 DEF Live
  <2>2. \A q \in Proc : proc[q].task # NULL => proc[q].task \in Slot
    BY <1>1 DEF ProcTypeOK
  <2> QED  BY <1>1, <1>2, <1>5, <1>7, <2>1, <2>2 DEF LinkedInv, LinkedOneToOne
<1>15. BuiltinInv'
  <2>1. ASSUME NEW k \in Builtin
        PROVE  /\ started'[k] <=> btask'[k] # NULL
               /\ btask'[k] # NULL => state[btask'[k]] # "UNUSED" /\ kind[btask'[k]] = k
    <3>1. /\ started[k] <=> btask[k] # NULL
          /\ btask[k] # NULL => state[btask[k]] # "UNUSED" /\ kind[btask[k]] = k
      BY <1>1, <1>2 DEF BuiltinInv
    <3>2. \/ started'[k] = started[k] /\ btask'[k] = btask[k]
          \/ k = kind[x] /\ started'[k] = TRUE /\ btask'[k] = x
      BY <1>1, <1>6 DEF ProcTypeOK
    <3> QED  BY <1>4, <3>1, <3>2, ProcFacts DEF CanRun
  <2>2. \A t \in Slot : ~Linking(t) /\ ~Linking(t)'
    BY <1>2, <1>5 DEF Linking
  <2> QED  BY <1>1, <1>5, <1>7, <2>1, <2>2 DEF BuiltinInv
<1> QED  BY <1>9, <1>10, <1>11, <1>12, <1>13, <1>14, <1>15 DEF ProcInv

=============================================================================
