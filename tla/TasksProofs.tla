---------------------------- MODULE TasksProofs ----------------------------
(***************************************************************************)
(* Theorems about Tasks, for every number of task slots.                   *)
(***************************************************************************)
EXTENDS Tasks, FiniteSetTheorems, WellFoundedInduction, TLAPS

\* A leaf is for Zenon unless it says SMT.
USE ZenonT(30)

-----------------------------------------------------------------------------
(* The inductive invariant. *)

\* Along the ring from main the tasks stand in the order they were added, so
\* no chain of "next" pointers closes without passing main.
RingOrdered ==
    \E ord \in [Task -> Nat] :
        \A t \in Task : Linked(t) /\ next[t] # Main => ord[t] < ord[next[t]]

\* The walk of task_reap_exited stands on a task of the ring.
WalkLinked == pc[Main] = "reap" => Linked(at)

\* Only the task on the processor is in the middle of a schedule(); it has
\* chosen a READY task, and has handed "current" to it before it switches.
MidSchedule(t) == pc[t] \in {"picked", "switch"}
ScheduleInv ==
    /\ \A t \in Task : MidSchedule(t) => t = cpu
    /\ MidSchedule(cpu) => sel[cpu][1] = cpu /\ sel[cpu][2] \in Task \ {cpu}
    /\ pc[cpu] = "picked" => state[sel[cpu][2]] = "READY"
    /\ pc[cpu] = "switch" =>
          /\ current = sel[cpu][2]
          /\ state[current] = "RUNNING" /\ state[cpu] \in {"READY", "EXITED"}
          /\ \A t \in Task \ {current} : state[t] # "RUNNING"

RingInv == TypeOK /\ RingClosed /\ RingOrdered
Inv == RingInv /\ WalkLinked /\ ScheduleInv /\ SettledTask /\ StackParked

\* The timer does not interrupt schedule() between its choice and the switch.
ScheduleIsMasked == Preemptible \cap {"picked", "switch"} = {}

\* The constants name distinct tasks.
LEMMA TaskFacts ==
    /\ Main \in Task /\ Idle \in Task /\ Slot \subseteq Task
    /\ NULL \notin Task
    /\ \A s \in Slot : s # Main /\ s # Idle
BY TasksAssumption DEF Task

\* The invariant holds when scheduler_init has run.
LEMMA InvInit == Init => Inv
<1> SUFFICES ASSUME Init PROVE Inv
  OBVIOUS
<1>1. TypeOK
  BY TasksAssumption DEF Init, TypeOK, Task, Slot, TaskOrNull, TaskState, PC
<1>2. RingClosed
  BY TasksAssumption DEF Init, RingClosed, Linked, Task
<1>3. WalkLinked /\ ScheduleInv /\ SettledTask /\ StackParked
  BY TasksAssumption DEF Init, WalkLinked, ScheduleInv, MidSchedule, SettledTask,
                         StackParked, Task
<1>4. RingOrdered
  <2> DEFINE o == [t \in Task |-> IF t = Idle THEN 1 ELSE 0]
  <2>1. o \in [Task -> Nat]
    OBVIOUS
  <2>2. \A t \in Task : Linked(t) /\ next[t] # Main => o[t] < o[next[t]]
    BY TasksAssumption, SMT DEF Init, Linked, Task
  <2> QED
    BY <2>1, <2>2 DEF RingOrdered
<1> QED
  BY <1>1, <1>2, <1>3, <1>4 DEF Inv, RingInv

\* add_task behind the last task of the ring keeps the ring a ring.
LEMMA SpawnRing ==
    ASSUME RingInv, NEW s \in Slot, NEW what, SpawnTask(s, what)
    PROVE  RingClosed' /\ RingOrdered'
<1> USE TaskFacts
<1>1. PICK last \in Task : /\ next[last] = Main
                           /\ next' = [next EXCEPT ![last] = s, ![s] = Main]
  BY DEF SpawnTask, CreateTask
<1>2. ~Linked(s) /\ s \in Task /\ s # Main /\ s # Idle /\ state[s] = "UNUSED"
  BY DEF SpawnTask, CreateTask, FreeSlot, RingInv, RingClosed
<1>3. last # s /\ Linked(last)
  BY <1>1, <1>2 DEF Linked
<1>4. next \in [Task -> TaskOrNull] /\ state \in [Task -> TaskState]
  BY DEF RingInv, TypeOK
<1>5. /\ next'[last] = s /\ next'[s] = Main
      /\ \A t \in Task \ {last, s} : next'[t] = next[t]
  BY <1>1, <1>3, <1>4, <1>2
<1>6. \A t \in Task : state'[t] = IF t = s THEN "READY" ELSE state[t]
  BY <1>4 DEF SpawnTask, CreateTask
<1>7. \A t \in Task : next[t] # s
  BY <1>2 DEF RingInv, RingClosed, Linked
<1>8. RingClosed'
  <2>1. \A t \in Task : Linked(t)' <=> (Linked(t) \/ t = s)
    BY <1>2, <1>3, <1>5 DEF Linked
  <2>2. \A t \in Task : Linked(t)' => Linked(next[t])'
    BY <1>2, <1>3, <1>5, <2>1, <1>4, SMT DEF RingInv, RingClosed, Linked, TaskOrNull
  <2>3. \A t, u \in Task : Linked(t)' /\ next'[t] = next'[u] => t = u
    BY <1>1, <1>2, <1>3, <1>5, <1>7, <2>1, SMT DEF RingInv, RingClosed, Linked
  <2>4. \A t \in Task : Linked(t)' <=> state'[t] # "UNUSED"
    BY <1>6, <2>1 DEF RingInv, RingClosed
  <2> QED
    BY <2>1, <2>2, <2>3, <2>4 DEF RingInv, RingClosed
<1>9. RingOrdered'
  <2>1. PICK ord \in [Task -> Nat] :
           \A t \in Task : Linked(t) /\ next[t] # Main => ord[t] < ord[next[t]]
    BY DEF RingInv, RingOrdered
  <2> DEFINE o == [ord EXCEPT ![s] = ord[last] + 1]
  <2>2. o \in [Task -> Nat]
    BY <2>1, SMT
  <2>3. ASSUME NEW t \in Task, Linked(t)', next'[t] # Main
        PROVE  o[t] < o[next'[t]]
    <3>1. CASE t = last
      BY <3>1, <1>2, <1>3, <1>5, SMT
    <3>2. CASE t # last
      <4>1. t # s /\ next'[t] = next[t] /\ Linked(t) /\ next[t] \in Task
        BY <3>2, <2>3, <1>4, <1>5 DEF Linked, TaskOrNull
      <4> QED
        BY <4>1, <2>1, <2>3, <1>7
    <3> QED
      BY <3>1, <3>2
  <2> QED
    BY <2>2, <2>3 DEF RingOrdered
<1> QED
  BY <1>8, <1>9

\* Unlinking a task other than main and idle keeps the ring a ring, and its
\* successor stays in it.
LEMMA UnlinkRing ==
    ASSUME RingInv, NEW t \in Slot, Unlink(t)
    PROVE  /\ RingClosed' /\ RingOrdered'
           /\ Linked(t) /\ next[t] \in Task /\ next'[next[t]] # NULL
           /\ next' \in [Task -> TaskOrNull]
<1> USE TaskFacts
<1>1. PICK p \in Task : next[p] = t /\ next' = [next EXCEPT ![p] = next[t], ![t] = NULL]
  BY DEF Unlink
<1>2. next \in [Task -> TaskOrNull] /\ state \in [Task -> TaskState] /\ t \in Task
  BY DEF RingInv, TypeOK
<1>3. Linked(p) /\ Linked(t) /\ next[t] \in Task /\ Linked(next[t])
  BY <1>1, <1>2 DEF RingInv, RingClosed, Linked, TaskOrNull
<1>4. PICK ord \in [Task -> Nat] :
           \A u \in Task : Linked(u) /\ next[u] # Main => ord[u] < ord[next[u]]
  BY DEF RingInv, RingOrdered
<1>5. ord[p] < ord[t] /\ p # t
  BY <1>1, <1>3, <1>4, SMT
<1>6. next[t] # t
  BY <1>2, <1>3, <1>4, SMT
<1>7. /\ next'[p] = next[t] /\ next'[t] = NULL
      /\ \A u \in Task \ {p, t} : next'[u] = next[u]
  BY <1>1, <1>2, <1>5
<1>8. \A u \in Task : state'[u] = IF u = t THEN "UNUSED" ELSE state[u]
  BY <1>2 DEF Unlink
<1>9. \A u \in Task : Linked(u)' <=> (Linked(u) /\ u # t)
  BY <1>3, <1>7 DEF Linked
<1>10. RingClosed'
  <2>1. \A u \in Task : Linked(u)' => Linked(next[u])'
    BY <1>1, <1>2, <1>3, <1>6, <1>7, <1>9, SMT DEF RingInv, RingClosed, Linked, TaskOrNull
  <2>2. ASSUME NEW u \in Task, NEW v \in Task, Linked(u)', next'[u] = next'[v]
        PROVE  u = v
    <3>1. u # t /\ v # t
      BY <2>2, <1>7 DEF Linked
    <3>2. next[u] # next[t] /\ next[v] # next[t]
      BY <3>1, <1>3 DEF RingInv, RingClosed
    <3>3. Linked(u) /\ next[p] = t
      BY <2>2, <1>1, <1>9
    <3> QED
      BY <2>2, <3>1, <3>2, <3>3, <1>7, SMT DEF RingInv, RingClosed
  <2>3. \A u \in Task : Linked(u)' <=> state'[u] # "UNUSED"
    BY <1>8, <1>9 DEF RingInv, RingClosed
  <2> QED
    BY <1>9, <2>1, <2>2, <2>3 DEF RingInv, RingClosed
<1>11. RingOrdered'
  <2>1. ASSUME NEW u \in Task, Linked(u)', next'[u] # Main
        PROVE  ord[u] < ord[next'[u]]
    <3>1. CASE u = p
      BY <3>1, <2>1, <1>2, <1>3, <1>4, <1>5, <1>7, SMT
    <3>2. CASE u # p
      BY <3>2, <2>1, <1>4, <1>7, <1>9
    <3> QED
      BY <3>1, <3>2
  <2> QED
    BY <2>1, <1>4 DEF RingOrdered
<1>12. next'[next[t]] # NULL
  BY <1>3, <1>6, <1>9 DEF Linked
<1>13. next' \in [Task -> TaskOrNull]
  BY <1>1, <1>2, <1>3 DEF TaskOrNull
<1> QED
  BY <1>3, <1>10, <1>11, <1>12, <1>13


\* Steps that leave the ring and the set of used slots alone.
LEMMA SameRing ==
    ASSUME RingClosed, RingOrdered, next' = next,
           \A t \in Task : (state'[t] = "UNUSED") <=> (state[t] = "UNUSED")
    PROVE  RingClosed' /\ RingOrdered'
BY DEF RingClosed, RingOrdered, Linked

\* The processor's task and the task that schedule() chooses.
LEMMA CpuFacts ==
    ASSUME Inv
    PROVE  /\ state[cpu] # "UNUSED"
           /\ ~MidSchedule(cpu) => current = cpu /\ state[cpu] # "READY"
           /\ \A n : FirstReady(n) => state[n] = "READY"
BY DEF Inv, SettledTask, ScheduleInv, MidSchedule, Exiting, FirstReady

\* schedule() with interrupts disabled: the timer and SYS_YIELD.
LEMMA MaskedStep ==
    ASSUME Inv, ScheduleMasked, ~MidSchedule(cpu), UNCHANGED <<next, body, codeVars, mainVars>>
    PROVE  Inv'
<1> USE TaskFacts
<1>1. CASE UNCHANGED <<state, cpuVars>>
  BY <1>1, SMT DEF Inv, RingInv, TypeOK, RingClosed, RingOrdered, WalkLinked, ScheduleInv,
     MidSchedule, SettledTask, Exiting, StackParked, Linked, cpuVars, codeVars, mainVars
<1>2. ASSUME NEW n \in Task, FirstReady(n), Commit(current, n),
             IF n # current THEN SwitchContext(current, n, TRUE)
                            ELSE UNCHANGED <<cpu, esp, iret, interrupts>>
      PROVE  Inv'
  <2>1. /\ current = cpu /\ n # cpu /\ state[n] = "READY" /\ cpu \in Task
        /\ SwitchContext(cpu, n, TRUE)
        /\ TypeOK /\ RingClosed /\ RingOrdered
    BY <1>2, CpuFacts DEF Inv, RingInv, TypeOK
  <2>2. /\ current' = n /\ cpu' = n
        /\ state' = [[state EXCEPT ![cpu] = IF @ = "RUNNING" THEN "READY" ELSE @]
                            EXCEPT ![n] = "RUNNING"]
        /\ esp' = [esp EXCEPT ![cpu] = cpu]
        /\ iret' = [iret EXCEPT ![cpu] = TRUE]
        /\ interrupts' \in BOOLEAN
    BY <1>2, <2>1 DEF Commit, SwitchContext, Inv, StackParked, TypeOK
  <2>3. /\ next' = next /\ body' = body /\ pc' = pc /\ sel' = sel /\ left' = left
        /\ at' = at /\ a' = a /\ b' = b /\ task_a' = task_a /\ task_b' = task_b
        /\ task_test_started' = task_test_started
    BY DEF codeVars, mainVars
  <2>4. TypeOK'
    BY <2>1, <2>2, <2>3 DEF TypeOK, TaskState
  <2>5. RingClosed' /\ RingOrdered'
    <3>1. \A t \in Task : (state'[t] = "UNUSED") <=> (state[t] = "UNUSED")
      BY <2>1, <2>2 DEF TypeOK
    <3> QED
      BY <3>1, <2>1, <2>3, SameRing
  <2>6. WalkLinked'
    BY <2>3 DEF Inv, WalkLinked, Linked
  <2>7. ~MidSchedule(cpu)' /\ ScheduleInv'
    BY <2>1, <2>2, <2>3 DEF Inv, ScheduleInv, MidSchedule
  <2>8. SettledTask'
    BY <2>1, <2>2, <2>3 DEF Inv, SettledTask, TypeOK, MidSchedule
  <2>9. StackParked'
    BY <2>1, <2>2 DEF Inv, StackParked, TypeOK
  <2> QED
    BY <2>4, <2>5, <2>6, <2>7, <2>8, <2>9 DEF Inv, RingInv
<1> QED
  BY <1>1, <1>2 DEF ScheduleMasked


\* Steps of the task on the processor that change no task's state and leave
\* the processor to it: they only move on in its own code.
LEMMA CodeStep ==
    ASSUME Inv, TypeOK', UNCHANGED <<ringVars, cpuVars>>, WalkLinked',
           \A t \in Task \ {cpu} : pc'[t] = pc[t],
           pc[cpu] # "switch", ~MidSchedule(cpu)',
           state[cpu] = "RUNNING" \/ Exiting(cpu)'
    PROVE  Inv'
<1>1. RingClosed' /\ RingOrdered'
  BY SameRing DEF Inv, RingInv, ringVars
<1>2. ScheduleInv'
  BY DEF Inv, ScheduleInv, MidSchedule, cpuVars, ringVars
<1>3. SettledTask' /\ StackParked'
  BY DEF Inv, SettledTask, StackParked, cpuVars, ringVars
<1> QED
  BY <1>1, <1>2, <1>3 DEF Inv, RingInv

\* Steps of the task on the processor that change the states of other tasks
\* without making one RUNNING.
LEMMA OthersStep ==
    ASSUME Inv, TypeOK', RingClosed', RingOrdered', WalkLinked', StackParked',
           UNCHANGED <<current, cpu>>, ~MidSchedule(cpu), ~MidSchedule(cpu)',
           state'[cpu] = state[cpu], state[cpu] = "RUNNING",
           \A t \in Task \ {cpu} : /\ state'[t] # "RUNNING"
                                   /\ pc'[t] = pc[t] \/ pc'[t] = "run"
    PROVE  Inv'
<1>1. ScheduleInv'
  BY DEF Inv, ScheduleInv, MidSchedule
<1>2. SettledTask'
  BY DEF Inv, SettledTask, MidSchedule
<1> QED
  BY <1>1, <1>2 DEF Inv, RingInv

\* schedule() chooses a READY task.
LEMMA SelectStep == Inv /\ ScheduleSelect => Inv'
<1> SUFFICES ASSUME Inv, ScheduleSelect PROVE Inv'
  OBVIOUS
<1> USE TaskFacts
<1>1. TypeOK /\ cpu \in Task /\ current = cpu /\ pc[cpu] = "sched" /\ state[cpu] # "READY"
  BY CpuFacts DEF Inv, RingInv, TypeOK, ScheduleSelect, MidSchedule
<1>2. UNCHANGED <<ringVars, cpuVars, left, mainVars>>
  BY DEF ScheduleSelect
<1>3. CASE Return(cpu) /\ UNCHANGED sel
  <2>1. pc' = [pc EXCEPT ![cpu] = IF state[cpu] = "EXITED" THEN "dead" ELSE "run"]
    BY <1>3 DEF Return
  <2>2. TypeOK'
    BY <1>1, <1>2, <1>3, <2>1 DEF TypeOK, PC, ringVars, cpuVars, mainVars
  <2>3. WalkLinked'
    BY <1>1, <1>2, <2>1 DEF Inv, WalkLinked, Linked, TypeOK, ringVars, mainVars
  <2>4. state[cpu] = "RUNNING" \/ Exiting(cpu)'
    BY <1>1, <1>2, <2>1 DEF Inv, SettledTask, Exiting, TypeOK, ringVars, cpuVars
  <2> QED
    BY <1>1, <1>2, <2>1, <2>2, <2>3, <2>4, CodeStep DEF MidSchedule, TypeOK, cpuVars
<1>4. ASSUME NEW n \in Task, FirstReady(n),
             sel' = [sel EXCEPT ![cpu] = <<current, n>>],
             pc' = [pc EXCEPT ![cpu] = "picked"]
      PROVE  Inv'
  <2>1. state[n] = "READY" /\ n # cpu
    BY <1>1, <1>4, CpuFacts
  <2>2. TypeOK'
    BY <1>1, <1>2, <1>4 DEF TypeOK, PC, TaskOrNull, ringVars, cpuVars, mainVars
  <2>3. RingClosed' /\ RingOrdered'
    BY <1>2, SameRing DEF Inv, RingInv, ringVars
  <2>4. WalkLinked'
    BY <1>1, <1>2, <1>4 DEF Inv, WalkLinked, Linked, TypeOK, ringVars, mainVars
  <2>5. sel'[cpu] = <<cpu, n>> /\ pc'[cpu] = "picked" /\ \A t \in Task \ {cpu} : pc'[t] = pc[t]
    BY <1>1, <1>4 DEF TypeOK
  <2>6. ScheduleInv'
    BY <1>1, <1>2, <2>1, <2>5, SMT DEF Inv, ScheduleInv, MidSchedule, ringVars, cpuVars
  <2>7. SettledTask' /\ StackParked'
    BY <1>1, <1>2, <2>5 DEF Inv, SettledTask, Exiting, StackParked, ringVars, cpuVars
  <2> QED
    BY <2>2, <2>3, <2>4, <2>6, <2>7 DEF Inv, RingInv
<1> QED
  BY <1>3, <1>4 DEF ScheduleSelect

\* schedule() hands the RUNNING mark and "current" to the chosen task.
LEMMA CommitStep == Inv /\ ScheduleCommit => Inv'
<1> SUFFICES ASSUME Inv, ScheduleCommit PROVE Inv'
  OBVIOUS
<1> USE TaskFacts
<1> DEFINE n == sel[cpu][2]
<1>1. /\ TypeOK /\ cpu \in Task /\ current = cpu /\ pc[cpu] = "picked"
      /\ sel[cpu][1] = cpu /\ n \in Task /\ n # cpu /\ state[n] = "READY"
      /\ state[cpu] \in {"RUNNING", "EXITED"}
      /\ \A t \in Task \ {cpu} : state[t] # "RUNNING"
  BY DEF Inv, RingInv, TypeOK, ScheduleCommit, ScheduleInv, MidSchedule, SettledTask, Exiting
<1>2. /\ state' = [[state EXCEPT ![cpu] = IF @ = "RUNNING" THEN "READY" ELSE @]
                          EXCEPT ![n] = "RUNNING"]
      /\ current' = n
      /\ pc' = [pc EXCEPT ![cpu] = "switch"]
      /\ next' = next /\ body' = body /\ cpu' = cpu /\ esp' = esp /\ iret' = iret
      /\ interrupts' = interrupts /\ sel' = sel /\ left' = left /\ UNCHANGED mainVars
  BY <1>1 DEF ScheduleCommit, Commit
<1>3. TypeOK'
  BY <1>1, <1>2 DEF TypeOK, TaskState, PC, mainVars
<1>4. RingClosed' /\ RingOrdered'
  <2>1. \A t \in Task : (state'[t] = "UNUSED") <=> (state[t] = "UNUSED")
    BY <1>1, <1>2 DEF TypeOK
  <2> QED
    BY <2>1, <1>2, SameRing DEF Inv, RingInv
<1>5. WalkLinked'
  BY <1>1, <1>2 DEF Inv, WalkLinked, Linked, TypeOK, mainVars
<1>6. ScheduleInv'
  <2>1. pc'[cpu] = "switch" /\ \A t \in Task \ {cpu} : pc'[t] = pc[t]
    BY <1>1, <1>2 DEF TypeOK
  <2>2. /\ state'[n] = "RUNNING" /\ state'[cpu] \in {"READY", "EXITED"}
        /\ \A t \in Task \ {n} : state'[t] # "RUNNING"
    BY <1>1, <1>2 DEF TypeOK
  <2> QED
    BY <1>1, <1>2, <2>1, <2>2 DEF Inv, ScheduleInv, MidSchedule
<1>7. SettledTask' /\ StackParked'
  BY <1>1, <1>2 DEF Inv, SettledTask, StackParked, TypeOK
<1> QED
  BY <1>3, <1>4, <1>5, <1>6, <1>7 DEF Inv, RingInv

\* schedule() switches to the chosen task.
LEMMA SwitchStep == Inv /\ ScheduleSwitch => Inv'
<1> SUFFICES ASSUME Inv, ScheduleSwitch PROVE Inv'
  OBVIOUS
<1> USE TaskFacts
<1> DEFINE n == sel[cpu][2]
<1>1. /\ TypeOK /\ cpu \in Task /\ pc[cpu] = "switch"
      /\ sel[cpu][1] = cpu /\ n \in Task /\ n # cpu /\ current = n
      /\ state[n] = "RUNNING" /\ state[cpu] \in {"READY", "EXITED"}
      /\ \A t \in Task \ {n} : state[t] # "RUNNING"
  BY DEF Inv, RingInv, TypeOK, ScheduleSwitch, ScheduleInv, MidSchedule
<1>2. /\ cpu' = n
      /\ esp' = [esp EXCEPT ![cpu] = cpu]
      /\ iret' = [iret EXCEPT ![cpu] = FALSE] /\ interrupts' \in BOOLEAN
      /\ pc' = [pc EXCEPT ![cpu] = IF state[cpu] = "EXITED" THEN "dead" ELSE "run"]
      /\ sel' = [sel EXCEPT ![cpu] = <<NULL, NULL>>]
      /\ UNCHANGED <<ringVars, current, left, mainVars>>
  BY <1>1 DEF ScheduleSwitch, SwitchContext, Return, Inv, StackParked
<1>3. TypeOK'
  BY <1>1, <1>2 DEF TypeOK, PC, TaskOrNull, ringVars, mainVars
<1>4. RingClosed' /\ RingOrdered'
  BY <1>2, SameRing DEF Inv, RingInv, ringVars
<1>5. WalkLinked'
  BY <1>1, <1>2 DEF Inv, WalkLinked, Linked, TypeOK, ringVars, mainVars
<1>6. \A t \in Task : ~MidSchedule(t)'
  BY <1>1, <1>2 DEF Inv, ScheduleInv, MidSchedule, TypeOK
<1>7. ScheduleInv'
  BY <1>1, <1>2, <1>6 DEF ScheduleInv, MidSchedule
<1>8. SettledTask' /\ StackParked'
  BY <1>1, <1>2 DEF Inv, SettledTask, StackParked, TypeOK, ringVars
<1> QED
  BY <1>3, <1>4, <1>5, <1>7, <1>8 DEF Inv, RingInv


\* A round of thread_a or thread_b.
LEMMA ThreadLoopStep == Inv /\ ThreadLoop => Inv'
<1> SUFFICES ASSUME Inv, ThreadLoop PROVE Inv'
  OBVIOUS
<1> USE TaskFacts
<1>1. /\ TypeOK /\ cpu \in Task /\ pc[cpu] = "run" /\ left[cpu] > 0
      /\ left' = [left EXCEPT ![cpu] = @ - 1]
      /\ pc' = [pc EXCEPT ![cpu] = "sched"]
      /\ UNCHANGED <<ringVars, cpuVars, sel, mainVars>>
  BY DEF ThreadLoop, Inv, RingInv, TypeOK
<1>2. state[cpu] = "RUNNING"
  BY <1>1 DEF Inv, SettledTask, Exiting
<1>3. TypeOK'
  BY <1>1, SMT DEF TypeOK, PC, ringVars, cpuVars, mainVars
<1>4. WalkLinked'
  BY <1>1 DEF Inv, WalkLinked, Linked, TypeOK, ringVars, mainVars
<1> QED
  BY <1>1, <1>2, <1>3, <1>4, CodeStep DEF MidSchedule, TypeOK, cpuVars

\* task_exit up to its schedule().
LEMMA ExitStep == Inv /\ TaskExit => Inv'
<1> SUFFICES ASSUME Inv, TaskExit PROVE Inv'
  OBVIOUS
<1> USE TaskFacts
<1>1. /\ TypeOK /\ cpu \in Task /\ pc[cpu] = "run" /\ current = cpu
      /\ state[cpu] = "RUNNING"
      /\ state' = [state EXCEPT ![cpu] = "EXITED"]
      /\ pc' = [pc EXCEPT ![cpu] = "sched"]
      /\ UNCHANGED <<next, body, cpuVars, sel, left, mainVars>>
  BY DEF TaskExit, Inv, RingInv, TypeOK, SettledTask, Exiting
<1>2. TypeOK'
  BY <1>1 DEF TypeOK, PC, TaskState, cpuVars, mainVars
<1>3. RingClosed' /\ RingOrdered'
  <2>1. \A t \in Task : (state'[t] = "UNUSED") <=> (state[t] = "UNUSED")
    BY <1>1 DEF TypeOK
  <2> QED
    BY <1>1, <2>1, SameRing DEF Inv, RingInv
<1>4. WalkLinked'
  BY <1>1 DEF Inv, WalkLinked, Linked, TypeOK, mainVars
<1>5. ScheduleInv'
  BY <1>1 DEF Inv, ScheduleInv, MidSchedule, TypeOK, cpuVars
<1>6. SettledTask' /\ StackParked'
  BY <1>1 DEF Inv, SettledTask, Exiting, StackParked, TypeOK, cpuVars
<1> QED
  BY <1>2, <1>3, <1>4, <1>5, <1>6 DEF Inv, RingInv

\* task_kill of another task.
LEMMA KillStep == ASSUME Inv, NEW t \in Slot, TaskKill(t) PROVE Inv'
<1> USE TaskFacts
<1>1. /\ TypeOK /\ cpu \in Task /\ pc[cpu] = "run" /\ current = cpu /\ t # cpu /\ t \in Task
      /\ state[cpu] = "RUNNING" /\ state[t] # "UNUSED"
      /\ state' = [state EXCEPT ![t] = "EXITED"]
      /\ UNCHANGED <<next, body, cpuVars, codeVars, mainVars>>
  BY DEF TaskKill, Inv, RingInv, TypeOK, SettledTask, Exiting
<1>2. TypeOK'
  BY <1>1 DEF TypeOK, TaskState, cpuVars, codeVars, mainVars
<1>3. RingClosed' /\ RingOrdered'
  <2>1. \A u \in Task : (state'[u] = "UNUSED") <=> (state[u] = "UNUSED")
    BY <1>1 DEF TypeOK
  <2> QED
    BY <1>1, <2>1, SameRing DEF Inv, RingInv
<1>4. WalkLinked' /\ StackParked'
  BY <1>1 DEF Inv, WalkLinked, StackParked, Linked, cpuVars, codeVars, mainVars
<1>5. \A u \in Task \ {cpu} : state'[u] # "RUNNING"
  BY <1>1 DEF Inv, SettledTask, TypeOK
<1> QED
  BY <1>1, <1>2, <1>3, <1>4, <1>5, OthersStep
     DEF MidSchedule, TypeOK, cpuVars, codeVars

\* spawn_task from the main task, which goes on at some point outside
\* schedule() and outside the walk of task_reap_exited.
LEMMA SpawnStep ==
    ASSUME Inv, NEW s \in Slot, NEW what \in {"thread", "user"}, SpawnTask(s, what),
           cpu = Main, pc[Main] \in {"run", "spawn_a", "spawn_b"},
           NEW point \in {"run", "spawn_b", "record"},
           pc' = [pc EXCEPT ![Main] = point, ![s] = "run"],
           UNCHANGED <<current, cpu, interrupts, at, task_a, task_b, task_test_started>>,
           a' \in Slot \cup {NULL}, b' \in Slot \cup {NULL}
    PROVE  Inv'
<1> USE TaskFacts
<1>1. TypeOK /\ state[cpu] = "RUNNING" /\ state[s] = "UNUSED" /\ s # cpu /\ s \in Task
  BY DEF Inv, RingInv, SettledTask, Exiting, SpawnTask, FreeSlot
<1>2. /\ next' \in [Task -> TaskOrNull]
      /\ state' = [state EXCEPT ![s] = "READY"]
      /\ body' = [body EXCEPT ![s] = what]
      /\ esp' = [esp EXCEPT ![s] = s]
      /\ iret' = [iret EXCEPT ![s] = TRUE]
      /\ left' = [left EXCEPT ![s] = IF what = "thread" THEN LOOPS ELSE 0]
      /\ sel' = [sel EXCEPT ![s] = <<NULL, NULL>>]
  <2>1. next' \in [Task -> TaskOrNull]
    <3>1. PICK last \in Task : next' = [next EXCEPT ![last] = s, ![s] = Main]
      BY DEF SpawnTask
    <3>2. QED
      BY <1>1, <3>1, SMT DEF TypeOK, TaskOrNull
  <2>2. QED
    BY <2>1, Zenon DEF SpawnTask, CreateTask
<1>3. TypeOK'
  BY <1>1, <1>2, TasksAssumption DEF TypeOK, TaskState, PC, TaskOrNull
<1>4. RingClosed' /\ RingOrdered'
  BY SpawnRing DEF Inv
<1>5. \A t \in Task \ {cpu} : state'[t] # "RUNNING" /\ (pc'[t] = pc[t] \/ pc'[t] = "run")
  BY <1>1, <1>2 DEF Inv, SettledTask, TypeOK
<1>6. WalkLinked' /\ StackParked' /\ state'[cpu] = state[cpu]
  BY <1>1, <1>2 DEF Inv, WalkLinked, StackParked, TypeOK
<1>7. ~MidSchedule(cpu) /\ ~MidSchedule(cpu)'
  BY <1>1 DEF MidSchedule, TypeOK
<1> QED
  BY <1>1, <1>3, <1>4, <1>5, <1>6, <1>7, OthersStep


\* spawn_task for a user process.
LEMMA SpawnUserStep == Inv /\ SpawnUser => Inv'
<1> SUFFICES ASSUME Inv, SpawnUser PROVE Inv'
  OBVIOUS
<1> USE TaskFacts
<1>1. PICK s \in Slot : SpawnTask(s, "user") /\ pc' = [pc EXCEPT ![s] = "run"]
  BY DEF SpawnUser
<1>2. /\ cpu = Main /\ pc[Main] = "run"
      /\ UNCHANGED <<current, cpu, interrupts, at, task_a, task_b, task_test_started>>
      /\ a' \in Slot \cup {NULL} /\ b' \in Slot \cup {NULL}
  BY DEF SpawnUser, ShellReady, mainVars, Inv, RingInv, TypeOK
<1>3. pc' = [pc EXCEPT ![Main] = "run", ![s] = "run"]
  BY <1>1, <1>2 DEF Inv, RingInv, TypeOK
<1> QED
  BY <1>1, <1>2, <1>3, SpawnStep

\* A step of the main task that only moves on in the shell's code.
LEMMA MainCodeStep ==
    ASSUME Inv, UNCHANGED <<ringVars, cpuVars, sel, left>>,
           cpu = Main, pc[Main] \in {"run", "reap", "spawn_a", "spawn_b", "record"},
           NEW point \in PC \ {"picked", "switch"},
           pc' = [pc EXCEPT ![Main] = point],
           at' \in Task, point = "reap" => next[at'] # NULL,
           a' \in Slot \cup {NULL}, b' \in Slot \cup {NULL},
           task_a' \in Slot \cup {NULL}, task_b' \in Slot \cup {NULL},
           task_test_started' \in BOOLEAN
    PROVE  Inv'
<1> USE TaskFacts
<1>1. TypeOK /\ state[cpu] = "RUNNING"
  BY DEF Inv, RingInv, SettledTask, Exiting
<1>2. TypeOK'
  BY <1>1 DEF TypeOK, ringVars, cpuVars
<1>3. WalkLinked'
  BY <1>1 DEF WalkLinked, Linked, TypeOK, ringVars
<1> QED
  BY <1>1, <1>2, <1>3, CodeStep DEF MidSchedule, TypeOK, cpuVars

\* Unlinking a task from the main task, which then is outside schedule().
LEMMA UnlinkStep ==
    ASSUME Inv, NEW t \in Slot, Unlink(t), UNCHANGED <<cpuVars, sel, left>>,
           cpu = Main, pc[Main] \in {"reap", "record"},
           NEW point \in {"reap", "run"},
           pc' = [pc EXCEPT ![Main] = point],
           at' \in Task, point = "reap" => at' = next[t],
           a' \in Slot \cup {NULL}, b' \in Slot \cup {NULL},
           task_a' \in Slot \cup {NULL}, task_b' \in Slot \cup {NULL},
           task_test_started' \in BOOLEAN
    PROVE  Inv'
<1> USE TaskFacts
<1>1. TypeOK /\ state[cpu] = "RUNNING" /\ t \in Task /\ t # cpu
  BY DEF Inv, RingInv, SettledTask, Exiting
<1>2. /\ RingClosed' /\ RingOrdered' /\ next'[next[t]] # NULL
      /\ next' \in [Task -> TaskOrNull]
      /\ state' = [state EXCEPT ![t] = "UNUSED"] /\ body' = [body EXCEPT ![t] = "none"]
  BY UnlinkRing DEF Inv, Unlink
<1>3. TypeOK'
  BY <1>1, <1>2 DEF TypeOK, TaskState, PC, cpuVars
<1>4. WalkLinked' /\ StackParked'
  BY <1>1, <1>2 DEF Inv, WalkLinked, StackParked, Linked, TypeOK, cpuVars
<1>5. \A u \in Task \ {cpu} : state'[u] # "RUNNING" /\ pc'[u] = pc[u]
  BY <1>1, <1>2 DEF Inv, SettledTask, TypeOK
<1>6. ~MidSchedule(cpu) /\ ~MidSchedule(cpu)' /\ state'[cpu] = state[cpu]
  BY <1>1, <1>2 DEF MidSchedule, TypeOK, cpuVars
<1> QED
  BY <1>1, <1>2, <1>3, <1>4, <1>5, <1>6, OthersStep DEF cpuVars

\* task_reap_exited.
LEMMA ReapStep == Inv /\ (ReapStart \/ ReapUnlink \/ ReapSkip \/ ReapDone) => Inv'
<1> SUFFICES ASSUME Inv, ReapStart \/ ReapUnlink \/ ReapSkip \/ ReapDone PROVE Inv'
  OBVIOUS
<1> USE TaskFacts
<1>1. TypeOK /\ RingClosed
  BY DEF Inv, RingInv
<1>2. \A t \in Task : Linked(t) => next[t] \in Task /\ next[next[t]] # NULL
  BY <1>1 DEF RingClosed, TypeOK, Linked, TaskOrNull
<1>3. CASE ReapStart
  <2>1. at' \in Task /\ next[at'] # NULL
    BY <1>1, <1>2, <1>3 DEF ReapStart, RingClosed
  <2> QED
    BY <1>1, <1>3, <2>1, MainCodeStep DEF ReapStart, ShellReady, PC, TypeOK
<1>4. CASE ReapSkip
  <2>1. at' \in Task /\ next[at'] # NULL
    BY <1>1, <1>2, <1>4 DEF ReapSkip, Inv, WalkLinked, TypeOK
  <2>2. pc' = [pc EXCEPT ![Main] = "reap"]
    BY <1>1, <1>4 DEF ReapSkip, codeVars, TypeOK
  <2> QED
    BY <1>1, <1>4, <2>1, <2>2, MainCodeStep DEF ReapSkip, PC, TypeOK, codeVars
<1>5. CASE ReapUnlink
  <2>1. at \in Slot /\ at' = next[at] /\ at' \in Task
    BY <1>1, <1>2, <1>5 DEF ReapUnlink, Inv, WalkLinked, TypeOK, Task
  <2>2. pc' = [pc EXCEPT ![Main] = "reap"]
    BY <1>1, <1>5 DEF ReapUnlink, codeVars, TypeOK
  <2> QED
    BY <1>1, <1>5, <2>1, <2>2, UnlinkStep DEF ReapUnlink, TypeOK, codeVars
<1>6. CASE ReapDone
  BY <1>1, <1>6, MainCodeStep DEF ReapDone, PC, TypeOK, mainVars
<1> QED
  BY <1>3, <1>4, <1>5, <1>6

\* test_task up to its schedule().
LEMMA TestStep ==
    Inv /\ (TestTask \/ TestSpawnA \/ TestSpawnB \/ TestUndo \/ TestRecord) => Inv'
<1> SUFFICES ASSUME Inv, TestTask \/ TestSpawnA \/ TestSpawnB \/ TestUndo \/ TestRecord
             PROVE  Inv'
  OBVIOUS
<1> USE TaskFacts
<1>1. TypeOK
  BY DEF Inv, RingInv
<1>2. CASE TestTask
  BY <1>1, <1>2, MainCodeStep DEF TestTask, ShellReady, PC, TypeOK, mainVars
<1>3. CASE TestSpawnA
  <2>1. ASSUME NEW s \in Slot, SpawnTask(s, "thread"), a' = s,
               pc' = [pc EXCEPT ![Main] = "spawn_b", ![s] = "run"]
        PROVE  Inv'
    BY <1>1, <1>3, <2>1, SpawnStep DEF TestSpawnA, TypeOK
  <2>2. CASE /\ a' = NULL /\ pc' = [pc EXCEPT ![Main] = "spawn_b"]
             /\ UNCHANGED <<ringVars, esp, iret, sel, left>>
    BY <1>1, <1>3, <2>2, MainCodeStep DEF TestSpawnA, PC, TypeOK, cpuVars
  <2> QED
    BY <1>3, <2>1, <2>2 DEF TestSpawnA
<1>4. CASE TestSpawnB
  <2>1. ASSUME NEW s \in Slot, SpawnTask(s, "thread"), b' = s,
               pc' = [pc EXCEPT ![Main] = "record", ![s] = "run"]
        PROVE  Inv'
    BY <1>1, <1>4, <2>1, SpawnStep DEF TestSpawnB, TypeOK
  <2>2. CASE /\ b' = NULL /\ pc' = [pc EXCEPT ![Main] = "record"]
             /\ UNCHANGED <<ringVars, esp, iret, sel, left>>
    BY <1>1, <1>4, <2>2, MainCodeStep DEF TestSpawnB, PC, TypeOK, cpuVars
  <2> QED
    BY <1>4, <2>1, <2>2 DEF TestSpawnB
<1>5. CASE TestUndo
  <2>1. CASE a # NULL
    BY <1>1, <1>5, <2>1, UnlinkStep DEF TestUndo, TypeOK
  <2>2. CASE a = NULL
    BY <1>1, <1>5, <2>2, MainCodeStep DEF TestUndo, PC, TypeOK
  <2> QED
    BY <2>1, <2>2
<1>6. CASE TestRecord
  BY <1>1, <1>6, MainCodeStep DEF TestRecord, PC, TypeOK
<1> QED
  BY <1>2, <1>3, <1>4, <1>5, <1>6

\* The invariant is inductive when schedule() is not interrupted.
LEMMA InvNext == ScheduleIsMasked /\ Inv /\ [Next]_vars => Inv'
<1> SUFFICES ASSUME ScheduleIsMasked, Inv, [Next]_vars PROVE Inv'
  OBVIOUS
<1>1. CASE Timer
  BY <1>1, MaskedStep DEF Timer, ScheduleIsMasked, MidSchedule
<1>2. CASE KernelStep
  BY <1>2, SelectStep, CommitStep, SwitchStep, ThreadLoopStep, ExitStep, ReapStep, TestStep
     DEF KernelStep, ThreadEnd
<1>3. CASE UserStep
  <2>1. CASE Yield
    BY <2>1, MaskedStep DEF Yield, MidSchedule
  <2> QED
    BY <1>3, <2>1, ExitStep, KillStep, SpawnUserStep, ReapStep, TestStep
       DEF UserStep, UserExit
<1>4. CASE UNCHANGED vars
  <2>1. TypeOK'
    BY <1>4 DEF Inv, RingInv, TypeOK, vars, ringVars, cpuVars, codeVars, mainVars
  <2>2. RingClosed' /\ RingOrdered'
    BY <1>4 DEF Inv, RingInv, RingClosed, RingOrdered, Linked, vars, ringVars
  <2>3. WalkLinked' /\ StackParked'
    BY <1>4 DEF Inv, WalkLinked, StackParked, Linked, vars, ringVars, cpuVars, codeVars,
       mainVars
  <2>4. ScheduleInv' /\ SettledTask'
    BY <1>4 DEF Inv, ScheduleInv, MidSchedule, SettledTask, Exiting,
       vars, ringVars, cpuVars, codeVars
  <2> QED
    BY <2>1, <2>2, <2>3, <2>4 DEF Inv, RingInv
<1> QED
  BY <1>1, <1>2, <1>3, <1>4 DEF Next

-----------------------------------------------------------------------------
(* One ring *)

Ring == {t \in Task : Linked(t)}

\* Induction up to N, with a set for the predicate.
LEMMA UpTo ==
    ASSUME NEW N \in Nat, NEW T, 0 \in T, \A k \in Nat : k < N /\ k \in T => k + 1 \in T
    PROVE  \A k \in 0 .. N : k \in T
<1> DEFINE Bad == {k \in Nat : k <= N /\ k \notin T}
<1>1. Bad = {}
  <2> SUFFICES ASSUME Bad # {} PROVE FALSE
    OBVIOUS
  <2> DEFINE R == OpToRel(<, Nat)
  <2>1. \A x, y \in Nat : <<x, y>> \in R <=> x < y
    BY DEF OpToRel
  <2>2. IsWellFoundedOn(R, Nat)
    BY NatLessThanWellFounded
  <2>3. Bad \subseteq Nat
    OBVIOUS
  <2> HIDE DEF R
  <2>4. PICK m \in Bad : \A y \in Bad : ~(<<y, m>> \in R)
    BY <2>2, <2>3, WFMin
  <2>5. m \in Nat /\ m <= N /\ m \notin T
    OBVIOUS
  <2>6. m # 0
    BY <2>5
  <2>7. m - 1 \in Nat /\ m - 1 < m /\ m - 1 < N /\ m - 1 <= N /\ (m - 1) + 1 = m
    BY <2>5, <2>6, SMT
  <2>8. m - 1 \notin Bad
    BY <2>1, <2>4, <2>5, <2>7
  <2>9. m - 1 \in T
    BY <2>7, <2>8
  <2> QED  BY <2>5, <2>7, <2>9
<1>2. \A k \in 0 .. N : k \in Nat /\ k <= N
  BY SMT
<1> QED  BY <1>1, <1>2

\* A sequence that rises at every step is higher at the end.
LEMMA Rising ==
    ASSUME NEW i \in Nat, NEW j \in Nat, i < j, NEW o,
           \A k \in i .. j : o[k] \in Nat, \A k \in i .. j - 1 : o[k] < o[k + 1]
    PROVE  o[i] < o[j]
<1> DEFINE T == {d \in Nat : d > j - i \/ d = 0 \/ o[i] < o[i + d]}
<1>1. 0 \in T
  BY SMT
<1>2. ASSUME NEW d \in Nat, d < j - i, d \in T
      PROVE  d + 1 \in T
  <2>1. /\ i + d \in i .. j - 1 /\ i + d \in i .. j /\ (i + d) + 1 \in i .. j /\ i \in i .. j
        /\ i + (d + 1) = (i + d) + 1 /\ d + 1 \in Nat
    BY <1>2, SMT
  <2>2. o[i + d] < o[(i + d) + 1] /\ o[i + d] \in Nat /\ o[(i + d) + 1] \in Nat /\ o[i] \in Nat
    BY <2>1
  <2>3. d = 0 => i + d = i
    BY SMT
  <2>4. d = 0 \/ o[i] < o[i + d]
    BY <1>2, SMT
  <2>5. o[i] < o[(i + d) + 1]
    BY <2>2, <2>3, <2>4, SMT
  <2> QED  BY <2>1, <2>5
<1>3. j - i \in Nat /\ j - i \in 0 .. j - i /\ ~(j - i > j - i) /\ j - i # 0 /\ i + (j - i) = j
  BY SMT
<1> HIDE DEF T
<1>4. j - i \in T
  BY <1>1, <1>2, <1>3, UpTo
<1> QED  BY <1>3, <1>4 DEF T

\* The "next" pointer of a task in the ring leads to a task in the ring.
LEMMA RingNext ==
    ASSUME RingInv
    PROVE  /\ \A t \in Ring : next[t] \in Ring
           /\ \A t, u \in Ring : next[t] = next[u] => t = u
           /\ Main \in Ring
<1> USE TaskFacts
<1>1. \A t \in Ring : t \in Task /\ Linked(t)
  BY DEF Ring
<1>2. \A t \in Task : Linked(t) => next[t] \in Task /\ Linked(next[t])
  BY DEF RingInv, TypeOK, RingClosed, Linked, TaskOrNull
<1>3. \A t, u \in Task : Linked(t) /\ next[t] = next[u] => t = u
  BY DEF RingInv, RingClosed
<1>4. Main \in Ring
  BY DEF RingInv, RingClosed, Ring
<1>5. \A t \in Ring : next[t] \in Ring
  BY <1>1, <1>2 DEF Ring
<1>6. \A t, u \in Ring : next[t] = next[u] => t = u
  BY <1>1, <1>3
<1> QED  BY <1>4, <1>5, <1>6

\* What Hop defines by recursion: the task at k, when g has those before it.
HopStep(t, N, g) == [k \in 0 .. N |-> IF k = 0 THEN t ELSE next[g[k - 1]]]

\* The first N tasks from t on exist.
LEMMA HopsExist ==
    ASSUME RingInv, NEW t \in Ring, NEW N \in Nat
    PROVE  \E g \in [0 .. N -> Ring] : g = HopStep(t, N, g)
<1> DEFINE Walk(n, g) == /\ g \in [0 .. n -> Ring] /\ g[0] = t
                         /\ \A k \in Nat : k < n => g[k + 1] = next[g[k]]
           T == {n \in Nat : \E g : Walk(n, g)}
<1>1. 0 \in T
  <2> DEFINE g == [k \in 0 .. 0 |-> t]
  <2>1. g \in [0 .. 0 -> Ring] /\ g[0] = t
    BY SMT
  <2>2. \A k \in Nat : ~(k < 0)
    BY SMT
  <2>3. Walk(0, g)
    BY <2>1, <2>2
  <2> QED  BY <2>3
<1>2. ASSUME NEW n \in Nat, n \in T
      PROVE  n + 1 \in T
  <2>1. PICK g : Walk(n, g)
    BY <1>2
  <2> DEFINE h == [k \in 0 .. n + 1 |-> IF k <= n THEN g[k] ELSE next[g[n]]]
  <2>2. g \in [0 .. n -> Ring] /\ g[0] = t /\ \A k \in Nat : k < n => g[k + 1] = next[g[k]]
    BY <2>1
  <2>3. /\ n + 1 \in Nat /\ n \in 0 .. n /\ n <= n /\ ~(n + 1 <= n) /\ n + 1 \in 0 .. n + 1
        /\ 0 \in 0 .. n + 1 /\ 0 <= n
        /\ \A k \in 0 .. n + 1 : k <= n => k \in 0 .. n
        /\ \A k \in Nat : k < n + 1 =>
              /\ k \in 0 .. n + 1 /\ k + 1 \in 0 .. n + 1 /\ k <= n
              /\ k = n \/ (k < n /\ k + 1 <= n)
    BY SMT
  <2>4. g[n] \in Ring /\ next[g[n]] \in Ring
    BY <2>2, <2>3, RingNext
  <2>5. h \in [0 .. n + 1 -> Ring]
    BY <2>2, <2>3, <2>4
  <2>6. h[0] = t
    BY <2>2, <2>3
  <2>7. ASSUME NEW k \in Nat, k < n + 1
        PROVE  h[k + 1] = next[h[k]]
    <3>1. h[k] = g[k]
      BY <2>3, <2>7
    <3>2. CASE k = n
      BY <2>3, <3>1, <3>2
    <3>3. CASE k < n /\ k + 1 <= n
      <4>1. h[k + 1] = g[k + 1]
        BY <2>3, <2>7, <3>3
      <4> QED  BY <2>2, <3>1, <3>3, <4>1
    <3> QED  BY <2>3, <2>7, <3>2, <3>3
  <2> HIDE DEF h
  <2>8. Walk(n + 1, h)
    BY <2>5, <2>6, <2>7
  <2> QED  BY <2>3, <2>8
<1>3. N \in T
  <2>1. N \in 0 .. N
    BY SMT
  <2> HIDE DEF T
  <2> QED  BY <1>1, <1>2, <2>1, UpTo
<1>4. PICK g : Walk(N, g)
  BY <1>3
<1>5. \A k \in 0 .. N : k # 0 => k - 1 \in Nat /\ k - 1 < N /\ (k - 1) + 1 = k
  BY SMT
<1>6. ASSUME NEW k \in 0 .. N
      PROVE  g[k] = IF k = 0 THEN t ELSE next[g[k - 1]]
  BY <1>4, <1>5
<1>7. g = HopStep(t, N, g)
  BY <1>4, <1>6 DEF HopStep
<1> QED  BY <1>4, <1>7

\* The tasks that schedule() passes from a task of the ring on.
LEMMA HopIs ==
    ASSUME RingInv, NEW t \in Ring
    PROVE  /\ Hop(t) \in [0 .. MAX_TASKS + 2 -> Ring] /\ Hop(t)[0] = t
           /\ \A k \in Nat : k < MAX_TASKS + 2 => Hop(t)[k + 1] = next[Hop(t)[k]]
<1> DEFINE N == MAX_TASKS + 2
           w == Hop(t)
<1>1. N \in Nat
  BY TasksAssumption, SMT
<1>2. \A u \in Ring : next[u] \in Ring
  BY RingNext
<1>3. \E g \in [0 .. N -> Ring] : g = HopStep(t, N, g)
  <2> HIDE DEF N
  <2> QED  BY <1>1, <1>2, HopsExist
<1>4. w = [k \in 0 .. N |-> IF k = 0 THEN t ELSE next[w[k - 1]]]
  BY <1>3 DEF Hop, HopStep
<1> HIDE DEF N, w
<1>5. /\ 0 \in 0 .. N /\ \A k \in 0 .. N : k \in Nat /\ k <= N
      /\ \A k \in Nat : k < N => k + 1 \in 0 .. N /\ k + 1 # 0 /\ (k + 1) - 1 = k
  BY <1>1, SMT
<1>6. w[0] = t
  BY <1>4, <1>5
<1>7. ASSUME NEW k \in Nat, k < N
      PROVE  w[k + 1] = next[w[k]]
  <2>1. k + 1 \in 0 .. N /\ k + 1 # 0 /\ (k + 1) - 1 = k
    BY <1>5, <1>7
  <2>2. w[k + 1] = IF k + 1 = 0 THEN t ELSE next[w[(k + 1) - 1]]
    BY <1>4, <2>1
  <2> QED  BY <2>1, <2>2
<1>8. \A k \in 0 .. N : w[k] \in Ring
  <2> DEFINE T == {k \in Nat : w[k] \in Ring}
  <2>1. 0 \in T
    BY <1>6
  <2>2. \A k \in Nat : k < N /\ k \in T => k + 1 \in T
    BY <1>2, <1>5, <1>7
  <2>3. \A k \in 0 .. N : k \in T
    <3> HIDE DEF T
    <3> QED  BY <1>1, <2>1, <2>2, UpTo
  <2> QED  BY <2>3
<1>9. w \in [0 .. N -> Ring]
  BY <1>4, <1>8
<1> QED  BY <1>6, <1>7, <1>9 DEF N, w

\* There are MAX_TASKS + 2 tasks, so the walk returns.
LEMMA Returns ==
    ASSUME NEW f \in [0 .. MAX_TASKS + 2 -> Ring]
    PROVE  \E i, j \in 0 .. MAX_TASKS + 2 : i < j /\ f[i] = f[j]
<1> DEFINE N == MAX_TASKS + 2
<1>1. MAX_TASKS \in Nat /\ N \in Nat /\ 1 \in Int /\ 0 \in Int /\ MAX_TASKS \in Int /\ N \in Int
  BY TasksAssumption, SMT
<1>2. IsFiniteSet(Slot) /\ Cardinality(Slot) = MAX_TASKS
  <2>1. /\ IsFiniteSet(1 .. MAX_TASKS)
        /\ Cardinality(1 .. MAX_TASKS) = IF 1 > MAX_TASKS THEN 0 ELSE MAX_TASKS - 1 + 1
    BY <1>1, FS_Interval
  <2>2. Cardinality(1 .. MAX_TASKS) = MAX_TASKS
    BY <1>1, <2>1, SMT
  <2> QED  BY <2>1, <2>2 DEF Slot
<1>3. IsFiniteSet(Task) /\ Cardinality(Task) = MAX_TASKS + 1 + 1
  <2>1. Main \notin Slot /\ Idle \notin Slot \cup {Main}
    BY TasksAssumption
  <2>2. IsFiniteSet(Slot \cup {Main}) /\ Cardinality(Slot \cup {Main}) = MAX_TASKS + 1
    BY <1>2, <2>1, FS_AddElement
  <2>3. /\ IsFiniteSet((Slot \cup {Main}) \cup {Idle})
        /\ Cardinality((Slot \cup {Main}) \cup {Idle}) = MAX_TASKS + 1 + 1
    BY <2>1, <2>2, FS_AddElement
  <2>4. Task = (Slot \cup {Main}) \cup {Idle}
    BY DEF Task
  <2> QED  BY <2>3, <2>4
<1>4. IsFiniteSet(0 .. N) /\ Cardinality(0 .. N) = N - 0 + 1
  <2>1. /\ IsFiniteSet(0 .. N)
        /\ Cardinality(0 .. N) = IF 0 > N THEN 0 ELSE N - 0 + 1
    <3> HIDE DEF N
    <3> QED  BY <1>1, FS_Interval
  <2>2. ~(0 > N)
    BY <1>1, SMT
  <2> QED  BY <2>1, <2>2
<1>5. Cardinality(Task) < Cardinality(0 .. N)
  <2>1. MAX_TASKS + 1 + 1 < N - 0 + 1
    BY <1>1, SMT
  <2> QED  BY <1>3, <1>4, <2>1
<1>6. f \in [0 .. N -> Task]
  BY DEF Ring
<1> HIDE DEF N
<1>7. PICK x, y \in 0 .. N : x # y /\ f[x] = f[y]
  BY <1>3, <1>4, <1>5, <1>6, FS_PigeonHole
<1>8. x < y \/ y < x
  BY <1>1, <1>7, SMT
<1> QED  BY <1>7, <1>8 DEF N

\* Where it returns it has passed main, and what it has passed is closed
\* against the direction of the pointers.
LEMMA Round ==
    ASSUME RingInv, NEW t \in Ring
    PROVE  \E C \in SUBSET {Hop(t)[k] : k \in 0 .. MAX_TASKS + 2} :
              Main \in C /\ \A d \in Ring : next[d] \in C => d \in C
<1> DEFINE N == MAX_TASKS + 2
           f == Hop(t)
<1>1. /\ f \in [0 .. N -> Ring]
      /\ \A k \in Nat : k < N => f[k + 1] = next[f[k]]
  BY HopIs
<1>2. PICK i, j \in 0 .. N : i < j /\ f[i] = f[j]
  BY <1>1, Returns
<1>3. N \in Nat /\ \A x \in Nat : ~(x < x)
  BY TasksAssumption, SMT
<1> HIDE DEF N, f
<1>4. /\ i \in Nat /\ j \in Nat /\ i \in i .. j - 1 /\ i \in i .. j
      /\ \A k \in i .. j : k \in 0 .. N /\ k \in Nat
      /\ \A k \in i .. j - 1 : /\ k \in 0 .. N /\ k + 1 \in 0 .. N /\ k \in Nat /\ k < N
                               /\ k + 1 \in i .. j - 1 \/ k + 1 = j
      /\ \A k \in i .. j - 1 : k = i \/ (k - 1 \in i .. j - 1 /\ (k - 1) + 1 = k)
      /\ j - 1 \in i .. j - 1 /\ (j - 1) + 1 = j
  BY <1>2, <1>3, SMT
<1> DEFINE C == {f[k] : k \in i .. j - 1}
<1>5. C \subseteq {f[k] : k \in 0 .. N}
  BY <1>4
<1>6. Main \in C
  <2> SUFFICES ASSUME Main \notin C PROVE FALSE
    OBVIOUS
  <2>1. \A k \in i .. j - 1 : f[k] # Main
    OBVIOUS
  <2>2. PICK ord \in [Task -> Nat] :
           \A u \in Task : Linked(u) /\ next[u] # Main => ord[u] < ord[next[u]]
    BY DEF RingInv, RingOrdered
  <2> DEFINE o == [k \in 0 .. N |-> ord[f[k]]]
  <2>3. \A k \in i .. j : o[k] \in Nat
    <3>1. \A k \in 0 .. N : f[k] \in Task
      BY <1>1 DEF Ring
    <3> QED  BY <1>4, <2>2, <3>1
  <2>4. ASSUME NEW k \in i .. j - 1
        PROVE  o[k] < o[k + 1]
    <3>1. f[k + 1] = next[f[k]] /\ f[k] \in Task /\ Linked(f[k])
      BY <1>1, <1>4 DEF Ring
    <3>2. f[k + 1] # Main
      BY <1>2, <1>4, <2>1
    <3>3. o[k] = ord[f[k]] /\ o[k + 1] = ord[f[k + 1]]
      BY <1>4
    <3> QED  BY <2>2, <3>1, <3>2, <3>3
  <2> HIDE DEF o
  <2>5. o[i] < o[j]
    BY <1>2, <1>4, <2>3, <2>4, Rising
  <2>6. o[i] = o[j]
    BY <1>2 DEF o
  <2>7. o[i] \in Nat
    BY <1>4, <2>3
  <2> QED  BY <1>3, <2>5, <2>6, <2>7
<1>7. ASSUME NEW d \in Ring, next[d] \in C
      PROVE  d \in C
  <2>1. PICK k \in i .. j - 1 : next[d] = f[k]
    BY <1>7
  <2>2. \E m \in i .. j - 1 : f[k] = f[m + 1]
    BY <1>2, <1>4
  <2>3. PICK m \in i .. j - 1 : f[k] = f[m + 1]
    BY <2>2
  <2>4. f[m + 1] = next[f[m]] /\ f[m] \in Ring
    BY <1>1, <1>4
  <2>5. d = f[m]
    BY <2>1, <2>3, <2>4, RingNext
  <2> QED  BY <2>5
<1> QED  BY <1>5, <1>6, <1>7 DEF N, f

\* The next pointers of RingInv make one ring.
LEMMA OneCycle == RingInv => RingIsOneCycle
<1> SUFFICES ASSUME RingInv, NEW t \in Ring, NEW u \in Ring
             PROVE  \E k \in 0 .. MAX_TASKS + 2 : Hop(t)[k] = u
  BY DEF RingInv, RingIsOneCycle, Ring
<1> DEFINE N == MAX_TASKS + 2
<1>1. PICK C \in SUBSET {Hop(t)[k] : k \in 0 .. N} :
         Main \in C /\ \A d \in Ring : next[d] \in C => d \in C
  BY Round
<1>2. PICK B \in SUBSET {Hop(u)[k] : k \in 0 .. N} : Main \in B
  BY Round
<1>3. PICK m \in 0 .. N : Hop(u)[m] = Main
  BY <1>2
<1> DEFINE f == Hop(u)
<1>4. /\ f \in [0 .. N -> Ring] /\ f[0] = u
      /\ \A k \in Nat : k < N => f[k + 1] = next[f[k]]
  BY HopIs
<1>5. N \in Nat /\ \A k \in Nat : k + 1 \in Nat /\ (k < N => k \in 0 .. N)
  BY TasksAssumption, SMT
<1> HIDE DEF f, N
<1>6. u \in C
  <2> SUFFICES ASSUME u \notin C PROVE FALSE
    OBVIOUS
  <2> DEFINE T == {k \in Nat : f[k] \notin C}
  <2>1. 0 \in T
    BY <1>4
  <2>2. ASSUME NEW k \in Nat, k < N, k \in T
        PROVE  k + 1 \in T
    <3>1. f[k + 1] = next[f[k]] /\ f[k] \in Ring /\ f[k] \notin C
      BY <1>4, <1>5, <2>2
    <3>2. f[k + 1] \notin C
      BY <1>1, <3>1
    <3> QED  BY <1>5, <3>2
  <2>3. \A k \in 0 .. N : k \in T
    <3> HIDE DEF T
    <3> QED  BY <1>5, <2>1, <2>2, UpTo
  <2>4. f[m] \notin C
    BY <2>3
  <2> QED  BY <1>1, <1>3, <2>4 DEF f
<1> QED  BY <1>1, <1>6 DEF N

-----------------------------------------------------------------------------
(* Theorems *)

\* Every behaviour of the scheduler in which schedule() is not interrupted
\* between its choice and the switch satisfies the inductive invariant.
THEOREM InvHolds == ASSUME ScheduleIsMasked PROVE Spec => []Inv
<1>1. Init => Inv
  BY InvInit
<1>2. Inv /\ [Next]_vars => Inv'
  BY InvNext
<1> QED
  BY <1>1, <1>2, PTL DEF Spec

\* The variables of task.c keep their types: in particular the "next"
\* pointers followed by schedule() and task_reap_exited are never null.
THEOREM TypeCorrect == ASSUME ScheduleIsMasked PROVE Spec => []TypeOK
<1>1. Inv => TypeOK
  BY DEF Inv, RingInv
<1> QED
  BY <1>1, InvHolds, PTL

\* spawn_task, task_remove and task_reap_exited keep the ring closed, for any
\* number of slots and wherever kernel code outside schedule() is preempted.
THEOREM RingStaysClosed == ASSUME ScheduleIsMasked PROVE Spec => []RingClosed
<1>1. Inv => RingClosed
  BY DEF Inv, RingInv
<1> QED
  BY <1>1, InvHolds, PTL

\* The ring stays one ring, for any number of slots: a search that schedule()
\* starts at any task of it comes to every other one.
THEOREM RingStaysOne == ASSUME ScheduleIsMasked PROVE Spec => []RingIsOneCycle
<1>1. Inv => RingIsOneCycle
  BY OneCycle DEF Inv
<1> QED
  BY <1>1, InvHolds, PTL

\* The processor, "current" and the RUNNING mark agree on one task.
THEOREM OneTaskRuns == ASSUME ScheduleIsMasked PROVE Spec => []SettledTask
<1>1. Inv => SettledTask
  BY DEF Inv
<1> QED
  BY <1>1, InvHolds, PTL

\* switch_context parks each task in its own esp field.  The run that lets the
\* timer into schedule() shows that the hypothesis cannot be dropped.
THEOREM StacksStayParked == ASSUME ScheduleIsMasked PROVE Spec => []StackParked
<1>1. Inv => StackParked
  BY DEF Inv
<1> QED
  BY <1>1, InvHolds, PTL

\* The step of DeadStaysDead.
LEMMA DeadStep ==
    ASSUME ScheduleIsMasked, Inv, [Next]_vars, NEW t \in Task, state[t] = "EXITED"
    PROVE  state'[t] \in {"EXITED", "UNUSED"}
<1> USE TaskFacts
<1>1. state \in [Task -> TaskState]
  BY DEF Inv, RingInv, TypeOK
<1>2. ASSUME NEW p, NEW n, Commit(p, n), state[n] = "READY"
      PROVE  state'[t] = "EXITED"
  BY <1>1, <1>2 DEF Commit
<1>3. CASE ScheduleMasked
  BY <1>2, <1>3, CpuFacts DEF ScheduleMasked
<1>4. CASE ScheduleCommit
  BY <1>2, <1>4 DEF ScheduleCommit, Inv, ScheduleInv
<1>5. ASSUME NEW s \in Slot, NEW what, SpawnTask(s, what)
      PROVE  state'[t] = "EXITED"
  BY <1>1, <1>5 DEF SpawnTask, CreateTask, FreeSlot
<1>6. ASSUME NEW u, Unlink(u)
      PROVE  state'[t] \in {"EXITED", "UNUSED"}
  BY <1>1, <1>6 DEF Unlink
<1>7. CASE TaskExit \/ \E u \in Slot : TaskKill(u)
  BY <1>1, <1>7 DEF TaskExit, TaskKill
<1>8. CASE TestSpawnA \/ TestSpawnB \/ SpawnUser
  BY <1>5, <1>8 DEF TestSpawnA, TestSpawnB, SpawnUser, ringVars
<1>9. CASE ReapUnlink \/ TestUndo
  BY <1>6, <1>9 DEF ReapUnlink, TestUndo, ringVars
<1>10. CASE UNCHANGED ringVars
  BY <1>10 DEF ringVars
<1> QED
  BY <1>3, <1>4, <1>7, <1>8, <1>9, <1>10
     DEF Next, Timer, KernelStep, UserStep, Yield, ThreadEnd, UserExit, ScheduleSelect,
         ScheduleSwitch, ThreadLoop, ReapStart, ReapSkip, ReapDone, TestTask, TestRecord,
         vars

\* A task that has exited or was killed is never scheduled again.
THEOREM DeadTasksStayDead == ASSUME ScheduleIsMasked PROVE Spec => DeadStaysDead
<1>1. Inv /\ [Next]_vars =>
         [\A t \in Task : state[t] = "EXITED" => state'[t] \in {"EXITED", "UNUSED"}]_vars
  BY DeadStep
<1> QED
  BY <1>1, InvHolds, PTL DEF Spec, DeadStaysDead

\* The step of OnlyDeadAreFreed.
LEMMA FreeStep ==
    ASSUME Inv, [Next]_vars, NEW t \in Task, state[t] # "UNUSED", state'[t] = "UNUSED"
    PROVE  state[t] = "EXITED" \/ (pc[Main] = "record" /\ t = a)
<1> USE TaskFacts
<1>1. state \in [Task -> TaskState]
  BY DEF Inv, RingInv, TypeOK
<1>2. ASSUME NEW p, NEW n, Commit(p, n) PROVE FALSE
  BY <1>1, <1>2 DEF Commit
<1>3. ASSUME NEW s \in Slot, NEW what, SpawnTask(s, what) PROVE FALSE
  BY <1>1, <1>3 DEF SpawnTask, CreateTask
<1>4. ASSUME NEW u, Unlink(u) PROVE t = u
  BY <1>1, <1>4 DEF Unlink
<1>5. CASE ScheduleMasked \/ ScheduleCommit
  BY <1>2, <1>5 DEF ScheduleMasked, ScheduleCommit
<1>6. CASE TaskExit \/ \E u \in Slot : TaskKill(u)
  BY <1>1, <1>6 DEF TaskExit, TaskKill
<1>7. CASE TestSpawnA \/ TestSpawnB \/ SpawnUser
  BY <1>3, <1>7 DEF TestSpawnA, TestSpawnB, SpawnUser, ringVars
<1>8. CASE ReapUnlink \/ TestUndo
  BY <1>4, <1>8 DEF ReapUnlink, TestUndo, ringVars
<1>9. CASE UNCHANGED ringVars
  BY <1>9 DEF ringVars
<1> QED
  BY <1>5, <1>6, <1>7, <1>8, <1>9
     DEF Next, Timer, KernelStep, UserStep, Yield, ThreadEnd, UserExit, ScheduleSelect,
         ScheduleSwitch, ThreadLoop, ReapStart, ReapSkip, ReapDone, TestTask, TestRecord,
         vars

\* Only the slots of dead tasks are recycled, apart from the task_a that
\* TASKTEST removes when there is no slot for task_b.
THEOREM OnlyDeadTasksAreFreed == ASSUME ScheduleIsMasked PROVE Spec => OnlyDeadAreFreed
<1>1. Inv /\ [Next]_vars =>
         [\A t \in Task : state[t] # "UNUSED" /\ state'[t] = "UNUSED" =>
             state[t] = "EXITED" \/ (pc[Main] = "record" /\ t = a)]_vars
  BY FreeStep
<1> QED
  BY <1>1, InvHolds, PTL DEF Spec, OnlyDeadAreFreed


=============================================================================
