-------------------------- MODULE ProcessesProofs --------------------------
(***************************************************************************)
(* Theorems about Processes: the steps of the shell in the scheduler's     *)
(* code keep the invariant too, and what follows from it.                  *)
(***************************************************************************)
EXTENDS ProcessesInvariant

\* A leaf is for Zenon unless it says SMT.
USE ZenonT(30)

-----------------------------------------------------------------------------
(* Steps of the shell in the scheduler's code *)

\* The process side when such a step leaves it alone.
ProcSame == UNCHANGED <<tableVars, globalVars, cr3, i, pp, tt, builtinVars>>
Walking == {"treap", "walk", "refresh", "test", "testing", "prompt"}

\* The main task goes to another point of the scheduler's code.
LEMMA MainStep ==
    ASSUME ProcInv, Inv', ProcSame, NEW x \in PC, pc' = [pc EXCEPT ![Main] = x],
           UNCHANGED <<ringVars, current, cpu>>, UNCHANGED <<linkVars, userVars>>, ShellPoints',
           sh \in Walking, sh' \in Walking, sh \in {"walk", "refresh"} => sh' \in {"walk", "refresh"},
           cmd' \in {cmd, "none"}
    PROVE  ProcInv'
<1>1. ProcTypeOK /\ Bodies /\ BuiltinInv /\ TypeOK
  BY ProcInvParts
<1>2. /\ proc' = proc /\ starts' = starts /\ dirs' = dirs /\ UNCHANGED globalVars /\ cr3' = cr3
      /\ i' = i /\ pp' = pp /\ tt' = tt
      /\ pending' = pending /\ started' = started /\ btask' = btask
  BY DEF ProcSame, tableVars, builtinVars
<1>3. /\ tproc' = tproc /\ tspace' = tspace /\ kind' = kind
      /\ upc' = upc /\ uproc' = uproc /\ ucode' = ucode
      /\ state' = state /\ body' = body /\ current' = current /\ cpu' = cpu
  BY DEF linkVars, userVars, ringVars
<1>4. ProcTypeOK'
  <2>1. sh' \in SH /\ cmd' \in Command \cup {"none"}
    BY <1>1 DEF ProcTypeOK, SH, Walking
  <2> QED  BY <1>1, <1>2, <1>3, <2>1 DEF ProcTypeOK, globalVars
<1>5. Bodies'
  <2>1. \A t \in Slot : pc'[t] = pc[t]
    BY <1>1, ProcFacts DEF TypeOK
  <2> QED  BY <1>1, <1>3, <2>1 DEF Bodies
<1>6. Keeps
  <2>1. \A t \in Slot : CanRun(t)' = CanRun(t)
    BY <1>3 DEF CanRun
  <2>2. \A k \in Builtin :
          /\ started'[k] <=> btask'[k] # NULL
          /\ btask'[k] # NULL => IF state'[btask'[k]] = "UNUSED" THEN sh' \in {"walk", "refresh"}
                                                              ELSE kind'[btask'[k]] = k
    BY <1>1, <1>2, <1>3 DEF BuiltinInv
  <2> QED  BY <1>2, <1>3, <2>1, <2>2 DEF Keeps, Walking
<1> QED  BY <1>4, <1>5, <1>6, KeepsStep

\* A slot that carries no process that could run is freed, or gets a thread.
SlotMove(x) ==
    /\ ProcSame /\ ShellPoints' /\ UNCHANGED <<current, cpu>>
    /\ ~CanRun(x) /\ body'[x] \in {"none", "thread"}
    /\ state'[x] = "UNUSED" => body'[x] = "none"
    /\ \A t \in Task \ {x} :
          /\ state'[t] = state[t] /\ body'[t] = body[t] /\ (pc'[t] = pc[t] \/ t = Main)
          /\ tproc'[t] = tproc[t] /\ tspace'[t] = tspace[t] /\ kind'[t] = kind[t]
          /\ upc'[t] = upc[t] /\ uproc'[t] = uproc[t] /\ ucode'[t] = ucode[t]
    /\ kind'[x] = "none"
    /\ sh \in {"walk", "testing"} /\ sh' \in {"walk", "testing", "prompt"}
    /\ sh = "walk" => sh' = "walk"
    /\ \A k \in Builtin : btask[k] = x => state'[x] = "UNUSED" /\ sh' = "walk"

\* A change of a task slot that holds no user task keeps the invariant.
LEMMA SlotMoveStep ==
    ASSUME ProcInv, Inv', ProcTypeOK', NEW x \in Slot, SlotMove(x)
    PROVE  ProcInv'
<1>1. ProcTypeOK /\ Bodies /\ BuiltinInv /\ TypeOK
  BY ProcInvParts
<1>2. /\ proc' = proc /\ starts' = starts /\ dirs' = dirs /\ UNCHANGED globalVars /\ cr3' = cr3
      /\ i' = i /\ pp' = pp /\ tt' = tt /\ current' = current /\ cpu' = cpu
      /\ pending' = pending /\ started' = started /\ btask' = btask
  BY DEF SlotMove, ProcSame, tableVars, builtinVars
<1>3. /\ ~CanRun(x) /\ body'[x] \in {"none", "thread"} /\ kind'[x] = "none"
      /\ state'[x] = "UNUSED" => body'[x] = "none"
  BY DEF SlotMove
<1>4. \A t \in Task \ {x} :
        /\ state'[t] = state[t] /\ body'[t] = body[t] /\ (pc'[t] = pc[t] \/ t = Main)
        /\ tproc'[t] = tproc[t] /\ tspace'[t] = tspace[t] /\ kind'[t] = kind[t]
        /\ upc'[t] = upc[t] /\ uproc'[t] = uproc[t] /\ ucode'[t] = ucode[t]
  BY DEF SlotMove
<1>5. /\ sh \in {"walk", "testing"} /\ sh' \in {"walk", "testing", "prompt"}
      /\ sh = "walk" => sh' = "walk"
      /\ \A k \in Builtin : btask[k] = x => state'[x] = "UNUSED" /\ sh' = "walk"
  BY DEF SlotMove
<1>6. Bodies'
  BY <1>1, <1>3, <1>4, ProcFacts, SMT DEF Bodies
<1>7. ShellPoints'
  BY DEF SlotMove
<1>8. Keeps
  <2>1. \A t \in Slot : CanRun(t)' = CanRun(t)
    BY <1>3, <1>4, ProcFacts DEF CanRun
  <2>2. \A k \in Builtin : btask[k] \in Slot \cup {NULL}
    BY <1>1 DEF ProcTypeOK
  <2>3. \A k \in Builtin :
          /\ started'[k] <=> btask'[k] # NULL
          /\ btask'[k] # NULL => IF state'[btask'[k]] = "UNUSED" THEN sh' \in {"walk", "refresh"}
                                                              ELSE kind'[btask'[k]] = k
    BY <1>1, <1>2, <1>4, <1>5, <2>2, ProcFacts, SMT DEF BuiltinInv
  <2>4. \A t \in Slot : CanRun(t) => t \in Task \ {x}
    BY <1>3, ProcFacts
  <2> QED  BY <1>2, <1>4, <1>5, <2>1, <2>3, <2>4 DEF Keeps
<1> QED  BY <1>6, <1>7, <1>8, KeepsStep

\* task_reap_exited.  A built-in task that it frees is one the shell still
\* points to, until Refresh.
LEMMA ReapTasksStep ==
    ASSUME Guarded, ProcInv, ReapTasks
    PROVE  Next /\ ProcInv'
<1>1. ProcSame
  BY DEF ReapTasks, ProcSame
<1>2. Next
  BY DEF ReapTasks, Next, KernelStep, UserStep
<1>3. Inv'
  BY <1>2, ProcInvParts, InvNext DEF Guarded
<1>4. /\ ProcTypeOK /\ ShellPoints /\ TypeOK /\ pc \in [Task -> PC] /\ Main \in Task
      /\ Main \notin Slot
  BY ProcInvParts, ProcFacts DEF TypeOK
<1>5. CASE sh = "treap" /\ ReapStart /\ ShellAt("walk") /\ UNCHANGED <<linkVars, userVars>>
  <2>1. /\ pc' = [pc EXCEPT ![Main] = "reap"] /\ UNCHANGED <<ringVars, current, cpu>>
        /\ sh' = "walk" /\ cmd' = cmd /\ "reap" \in PC
    BY <1>5 DEF ReapStart, cpuVars, ShellAt, PC
  <2>2. ShellPoints'
    BY <1>4, <2>1 DEF ShellPoints
  <2> QED  BY <1>1, <1>2, <1>3, <1>5, <2>1, <2>2, MainStep DEF Walking
<1>6. CASE sh = "walk" /\ ReapSkip /\ ShellAt("walk") /\ UNCHANGED <<linkVars, userVars>>
  <2>1. /\ pc' = pc /\ pc[Main] = "reap" /\ UNCHANGED <<ringVars, current, cpu>>
        /\ sh' = "walk" /\ cmd' = cmd /\ "reap" \in PC
    BY <1>6 DEF ReapSkip, cpuVars, codeVars, ShellAt, PC
  <2>2. ShellPoints' /\ pc' = [pc EXCEPT ![Main] = "reap"]
    BY <1>4, <2>1 DEF ShellPoints
  <2> QED  BY <1>1, <1>2, <1>3, <1>6, <2>1, <2>2, MainStep DEF Walking
<1>7. CASE sh = "walk" /\ ReapDone /\ ShellAt("refresh") /\ UNCHANGED <<linkVars, userVars>>
  <2>1. /\ pc' = [pc EXCEPT ![Main] = "run"] /\ UNCHANGED <<ringVars, current, cpu>>
        /\ sh' = "refresh" /\ cmd' = cmd /\ "run" \in PC
    BY <1>7 DEF ReapDone, cpuVars, ShellAt, PC
  <2>2. ShellPoints'
    BY <1>4, <2>1 DEF ShellPoints
  <2> QED  BY <1>1, <1>2, <1>3, <1>7, <2>1, <2>2, MainStep DEF Walking
<1>8. CASE /\ sh = "walk" /\ ReapUnlink /\ ShellAt("walk")
           /\ tproc' = [tproc EXCEPT ![at] = NULL] /\ tspace' = [tspace EXCEPT ![at] = NULL]
           /\ kind' = [kind EXCEPT ![at] = "none"] /\ Goto(at, "entry")
           /\ uproc' = [uproc EXCEPT ![at] = NULL] /\ ucode' = [ucode EXCEPT ![at] = "none"]
  <2>1. PICK x \in Slot : x = at /\ state[x] = "EXITED"
    BY <1>4, <1>8 DEF ReapUnlink, TypeOK, Task
  <2>2. /\ state' = [state EXCEPT ![x] = "UNUSED"] /\ body' = [body EXCEPT ![x] = "none"]
        /\ pc' = pc /\ pc[Main] = "reap" /\ UNCHANGED <<current, cpu>> /\ sh' = "walk" /\ cmd' = cmd
    BY <1>8, <2>1 DEF ReapUnlink, Unlink, cpuVars, codeVars, ShellAt
  <2>3. /\ tproc' = [tproc EXCEPT ![x] = NULL] /\ tspace' = [tspace EXCEPT ![x] = NULL]
        /\ kind' = [kind EXCEPT ![x] = "none"] /\ upc' = [upc EXCEPT ![x] = "entry"]
        /\ uproc' = [uproc EXCEPT ![x] = NULL] /\ ucode' = [ucode EXCEPT ![x] = "none"]
    BY <1>8, <2>1 DEF Goto
  <2>4. ShellPoints'
    BY <1>4, <1>8, <2>2 DEF ShellPoints
  <2>5. /\ tproc' \in [Task -> ProcOrNull] /\ tspace' \in [Task -> Space \cup {Kernel, NULL}]
        /\ kind' \in [Task -> Builtin \cup {"none", "file"}] /\ upc' \in [Task -> UPC]
        /\ uproc' \in [Task -> ProcOrNull] /\ ucode' \in [Task -> {"none", "ok", "fault", "zero"}]
    BY <1>4, <2>3 DEF ProcTypeOK, ProcOrNull, UPC
  <2>6. ProcTypeOK'
    <3>1. sh' \in SH
      BY <2>2 DEF SH
    <3> QED  BY <1>1, <1>4, <2>2, <2>5, <3>1
             DEF ProcTypeOK, ProcSame, tableVars, globalVars, builtinVars
  <2>7. /\ \A t \in Task \ {x} :
             /\ state'[t] = state[t] /\ body'[t] = body[t] /\ pc'[t] = pc[t]
             /\ tproc'[t] = tproc[t] /\ tspace'[t] = tspace[t] /\ kind'[t] = kind[t]
             /\ upc'[t] = upc[t] /\ uproc'[t] = uproc[t] /\ ucode'[t] = ucode[t]
        /\ state'[x] = "UNUSED" /\ body'[x] = "none" /\ kind'[x] = "none"
    BY <1>4, <2>2, <2>3, ProcFacts, SMT DEF TypeOK, ProcTypeOK
  <2>8. SlotMove(x)
    BY <1>1, <1>8, <2>1, <2>2, <2>4, <2>7 DEF SlotMove, CanRun
  <2> QED  BY <1>2, <1>3, <2>6, <2>8, SlotMoveStep
<1> QED  BY <1>5, <1>6, <1>7, <1>8 DEF ReapTasks

\* spawn_task from TASKTEST.
LEMMA ThreadStep ==
    ASSUME Guarded, ProcInv, Inv', ProcSame, UNCHANGED <<linkVars, userVars>>,
           NEW x \in Slot, SpawnTask(x, "thread"), UNCHANGED <<current, cpu>>,
           NEW m \in {"spawn_b", "record"}, pc' = [pc EXCEPT ![Main] = m, ![x] = "run"],
           sh = "testing", sh' = "testing", cmd' = cmd,
           a' = x \/ (a' = a /\ (a # NULL => body[a] = "thread"))
    PROVE  ProcInv'
<1>1. ProcTypeOK /\ ShellPoints /\ TypeOK /\ Bodies /\ BuiltinInv
  BY ProcInvParts
<1>2. /\ state[x] = "UNUSED" /\ state' = [state EXCEPT ![x] = "READY"]
      /\ body' = [body EXCEPT ![x] = "thread"]
  BY DEF SpawnTask, FreeSlot, CreateTask
<1>3. body[x] = "none" /\ kind[x] = "none"
  BY <1>1, <1>2 DEF Bodies
<1>4. /\ tproc' = tproc /\ tspace' = tspace /\ kind' = kind
      /\ upc' = upc /\ uproc' = uproc /\ ucode' = ucode
  BY DEF linkVars, userVars
<1>5. /\ \A t \in Task \ {x} :
           /\ state'[t] = state[t] /\ body'[t] = body[t] /\ (pc'[t] = pc[t] \/ t = Main)
      /\ state'[x] = "READY" /\ body'[x] = "thread" /\ pc'[Main] = m
  BY <1>1, <1>2, ProcFacts DEF TypeOK
<1>6. ProcTypeOK'
  BY <1>1, <1>4 DEF ProcTypeOK, ProcSame, tableVars, globalVars, builtinVars
<1>7. ShellPoints'
  <2>1. a' # NULL => body'[a'] = "thread"
    <3>1. a \in Slot \cup {NULL}
      BY <1>1 DEF TypeOK
    <3> QED  BY <1>3, <1>5, <3>1, ProcFacts
  <2> QED  BY <1>5, <2>1 DEF ShellPoints
<1>8. \A k \in Builtin : btask[k] # x
  BY <1>1, <1>2, ProcFacts DEF BuiltinInv
<1>9. SlotMove(x)
  BY <1>2, <1>3, <1>4, <1>5, <1>7, <1>8 DEF SlotMove, CanRun
<1> QED  BY <1>6, <1>9, SlotMoveStep

\* TASKTEST spawns its threads.
LEMMA TestSpawnStep ==
    ASSUME Guarded, ProcInv, ProcSame, UNCHANGED <<linkVars, userVars>>,
           sh = "testing", ShellAt("testing"), TestSpawnA \/ TestSpawnB
    PROVE  ProcInv'
<1>1. Inv'
  BY ProcInvParts, InvNext DEF Guarded, Next, KernelStep
<1>2. /\ ShellPoints /\ pc \in [Task -> PC] /\ Main \in Task /\ sh' = "testing" /\ cmd' = cmd
      /\ TypeOK
  BY ProcInvParts, ProcFacts DEF TypeOK, ShellAt
<1>3. CASE TestSpawnA
  <2>1. UNCHANGED <<current, cpu>>
    BY <1>3 DEF TestSpawnA
  <2>2. CASE \E s \in Slot : SpawnTask(s, "thread") /\ a' = s
                             /\ pc' = [pc EXCEPT ![Main] = "spawn_b", ![s] = "run"]
    BY <1>1, <1>2, <2>1, <2>2, ThreadStep
  <2>3. CASE a' = NULL /\ pc' = [pc EXCEPT ![Main] = "spawn_b"] /\ UNCHANGED ringVars
    <3>1. ShellPoints' /\ "spawn_b" \in PC
      BY <1>2, <2>3 DEF ShellPoints, PC
    <3> QED  BY <1>1, <1>2, <2>1, <2>3, <3>1, MainStep DEF Walking
  <2> QED  BY <1>3, <2>2, <2>3 DEF TestSpawnA
<1>4. CASE TestSpawnB
  <2>1. UNCHANGED <<current, cpu>> /\ a' = a /\ (a # NULL => body[a] = "thread")
    BY <1>2, <1>4 DEF TestSpawnB, ShellPoints
  <2>2. CASE \E s \in Slot : SpawnTask(s, "thread")
                             /\ pc' = [pc EXCEPT ![Main] = "record", ![s] = "run"]
    BY <1>1, <1>2, <2>1, <2>2, ThreadStep
  <2>3. CASE pc' = [pc EXCEPT ![Main] = "record"] /\ UNCHANGED ringVars
    <3>1. ShellPoints' /\ "record" \in PC
      BY <1>2, <2>1, <2>3 DEF ShellPoints, PC, ringVars
    <3> QED  BY <1>1, <1>2, <2>1, <2>3, <3>1, MainStep DEF Walking
  <2> QED  BY <1>4, <2>2, <2>3 DEF TestSpawnB
<1> QED  BY <1>3, <1>4

\* TASKTEST could not spawn the second thread and removes the first.
LEMMA TestUndoStep ==
    ASSUME Guarded, ProcInv, ProcSame, UNCHANGED <<linkVars, userVars>>,
           sh = "testing", ShellAt("prompt"), TestUndo
    PROVE  ProcInv'
<1>1. Inv'
  BY ProcInvParts, InvNext DEF Guarded, Next, KernelStep
<1>2. /\ ProcTypeOK /\ ShellPoints /\ TypeOK /\ Bodies /\ BuiltinInv /\ Main \in Task
      /\ pc \in [Task -> PC]
  BY ProcInvParts, ProcFacts DEF TypeOK
<1>3. /\ sh' = "prompt" /\ cmd' = "none" /\ pc' = [pc EXCEPT ![Main] = "run"]
      /\ UNCHANGED <<current, cpu>> /\ "run" \in PC
  BY DEF TestUndo, cpuVars, ShellAt, PC
<1>4. ShellPoints'
  BY <1>2, <1>3 DEF ShellPoints
<1>5. CASE UNCHANGED ringVars
  BY <1>1, <1>3, <1>4, <1>5, MainStep DEF Walking
<1>6. CASE a # NULL /\ Unlink(a)
  <2>1. PICK x \in Slot : x = a /\ body[x] = "thread"
    BY <1>2, <1>6 DEF TypeOK, TestUndo, ShellPoints
  <2>2. state' = [state EXCEPT ![x] = "UNUSED"] /\ body' = [body EXCEPT ![x] = "none"]
    BY <1>6, <2>1 DEF Unlink
  <2>3. kind[x] = "none" /\ ~CanRun(x)
    BY <1>2, <2>1 DEF Bodies, CanRun
  <2>4. /\ tproc' = tproc /\ tspace' = tspace /\ kind' = kind
        /\ upc' = upc /\ uproc' = uproc /\ ucode' = ucode
    BY DEF linkVars, userVars
  <2>5. /\ \A t \in Task \ {x} :
             /\ state'[t] = state[t] /\ body'[t] = body[t] /\ (pc'[t] = pc[t] \/ t = Main)
        /\ state'[x] = "UNUSED" /\ body'[x] = "none"
    BY <1>2, <1>3, <2>2, ProcFacts DEF TypeOK
  <2>6. ProcTypeOK'
    <3>1. sh' \in SH
      BY <1>3 DEF SH
    <3> QED  BY <1>2, <1>3, <2>4, <3>1 DEF ProcTypeOK, ProcSame, tableVars, globalVars, builtinVars
  <2>7. \A k \in Builtin : btask[k] # x
    BY <1>2, <2>3, ProcFacts DEF BuiltinInv
  <2>8. SlotMove(x)
    BY <1>3, <1>4, <2>3, <2>4, <2>5, <2>7 DEF SlotMove
  <2> QED  BY <1>1, <2>6, <2>8, SlotMoveStep
<1> QED  BY <1>5, <1>6 DEF TestUndo

\* TASKTEST.
LEMMA ShellTestStep ==
    ASSUME Guarded, ProcInv, ShellTest
    PROVE  [Next]_vars /\ ProcInv'
<1>1. ProcSame /\ UNCHANGED <<linkVars, userVars>>
  BY DEF ShellTest, ProcSame
<1>2. [Next]_vars
  BY DEF ShellTest, Next, KernelStep, UserStep
<1>3. Inv' /\ ShellPoints /\ pc \in [Task -> PC] /\ Main \in Task
  BY <1>2, ProcInvParts, InvNext, ProcFacts DEF Guarded, TypeOK
<1>4. CASE sh = "test" /\ TestTask /\ ShellAt("testing")
  <2>1. /\ pc' = [pc EXCEPT ![Main] = "spawn_a"] /\ UNCHANGED <<ringVars, current, cpu>>
        /\ sh' = "testing" /\ cmd' = cmd /\ "spawn_a" \in PC
    BY <1>4 DEF TestTask, cpuVars, ShellAt, PC
  <2>2. ShellPoints'
    BY <1>3, <2>1 DEF ShellPoints
  <2> QED  BY <1>1, <1>2, <1>3, <1>4, <2>1, <2>2, MainStep DEF Walking
<1>5. CASE AtShell("test") /\ ShellAt("prompt") /\ UNCHANGED vars
  BY <1>1, <1>2, <1>5, TestAgainStep DEF ProcSame
<1>6. CASE sh = "testing" /\ (TestSpawnA \/ TestSpawnB) /\ ShellAt("testing")
  BY <1>1, <1>2, <1>6, TestSpawnStep
<1>7. CASE sh = "testing" /\ TestRecord /\ ShellAt("testing")
  <2>1. /\ pc' = [pc EXCEPT ![Main] = "sched"] /\ UNCHANGED <<ringVars, current, cpu>>
        /\ sh' = "testing" /\ cmd' = cmd /\ "sched" \in PC
    BY <1>7 DEF TestRecord, cpuVars, ShellAt, PC
  <2>2. ShellPoints'
    BY <1>3, <2>1 DEF ShellPoints
  <2> QED  BY <1>1, <1>2, <1>3, <1>7, <2>1, <2>2, MainStep DEF Walking
<1>8. CASE sh = "testing" /\ TestUndo /\ ShellAt("prompt")
  BY <1>1, <1>2, <1>8, TestUndoStep
<1> QED  BY <1>4, <1>5, <1>6, <1>7, <1>8 DEF ShellTest

\* spawn_task takes the first free slot: there is only one choice.
LEMMA OneFreeSlot ==
    ASSUME NEW s \in Slot, NEW r \in Slot, FreeSlot(s), FreeSlot(r)
    PROVE  s = r
<1>1. s \in Nat /\ r \in Nat /\ 1 <= s /\ 1 <= r
  BY TasksAssumption, SMT DEF Slot
<1>2. state[s] = "UNUSED" /\ state[r] = "UNUSED"
  BY DEF FreeSlot
<1>3. /\ \A k \in 1 .. s - 1 : state[k] # "UNUSED"
      /\ \A k \in 1 .. r - 1 : state[k] # "UNUSED"
  BY DEF FreeSlot
<1>4. ~(s < r) /\ ~(r < s)
  BY <1>1, <1>2, <1>3, SMT
<1> QED  BY <1>1, <1>4, SMT

\* spawn_task for the program that is being started.
Spawns(x) ==
    /\ ShellReady /\ sh = "spawn" /\ sh' = "link" /\ cmd' = cmd /\ tt' = x /\ pp' = pp
    /\ state[x] = "UNUSED" /\ state' = [state EXCEPT ![x] = "READY"]
    /\ body' = [body EXCEPT ![x] = "user"] /\ pc' = [pc EXCEPT ![x] = "run"]
    /\ UNCHANGED <<current, cpu, a>>
    /\ kind' = [kind EXCEPT ![x] = KindOf(cmd)] /\ tproc' = [tproc EXCEPT ![x] = NULL]
    /\ tspace' = [tspace EXCEPT ![x] = Kernel] /\ upc' = [upc EXCEPT ![x] = "entry"]
    /\ UNCHANGED <<proc, starts, dirs, uproc, ucode, i, globalVars, cr3, builtinVars>>

\* A new user task, piece by piece.
LEMMA SpawnsFacts ==
    ASSUME ProcInv, NEW x \in Slot, Spawns(x)
    PROVE  /\ \A t \in Task \ {x} :
                /\ state'[t] = state[t] /\ body'[t] = body[t] /\ pc'[t] = pc[t]
                /\ kind'[t] = kind[t] /\ tproc'[t] = tproc[t] /\ tspace'[t] = tspace[t]
                /\ upc'[t] = upc[t]
           /\ state'[x] = "READY" /\ body'[x] = "user" /\ pc'[x] = "run"
           /\ kind'[x] = KindOf(cmd) /\ tproc'[x] = NULL /\ tspace'[x] = Kernel
           /\ upc'[x] = "entry"
           /\ state[x] = "UNUSED" /\ body[x] = "none"
           /\ \A t \in Slot : CanRun(t)' <=> CanRun(t) \/ t = x
           /\ ~CanRun(x)
<1>1. ProcTypeOK /\ Bodies /\ TypeOK
  BY ProcInvParts
<1>2. /\ \A t \in Task \ {x} :
           /\ state'[t] = state[t] /\ body'[t] = body[t] /\ pc'[t] = pc[t]
      /\ state'[x] = "READY" /\ body'[x] = "user" /\ pc'[x] = "run" /\ state[x] = "UNUSED"
  BY <1>1, ProcFacts DEF Spawns, TypeOK
<1>3. /\ \A t \in Task \ {x} :
           /\ kind'[t] = kind[t] /\ tproc'[t] = tproc[t] /\ tspace'[t] = tspace[t]
           /\ upc'[t] = upc[t]
      /\ kind'[x] = KindOf(cmd) /\ tproc'[x] = NULL /\ tspace'[x] = Kernel /\ upc'[x] = "entry"
  BY <1>1, ProcFacts DEF Spawns, ProcTypeOK
<1>4. body[x] = "none"
  BY <1>1, <1>2 DEF Bodies
<1>5. (\A t \in Slot : CanRun(t)' <=> CanRun(t) \/ t = x) /\ ~CanRun(x)
  BY <1>2, <1>4, ProcFacts DEF CanRun
<1> QED  BY <1>2, <1>3, <1>4, <1>5

\* Types, address spaces and points of the shell, after a user task is spawned.
LEMMA SpawnsTables ==
    ASSUME ProcInv, NEW x \in Slot, Spawns(x)
    PROVE  ProcTypeOK' /\ Bodies' /\ ShellPoints' /\ Building' /\ Spaces'
<1>1. ProcTypeOK /\ Bodies /\ TypeOK /\ Building /\ Spaces
  BY ProcInvParts
<1>2. /\ sh = "spawn" /\ sh' = "link" /\ cmd' = cmd /\ tt' = x /\ pp' = pp
      /\ current' = current /\ cpu' = cpu /\ a' = a
      /\ proc' = proc /\ starts' = starts /\ dirs' = dirs /\ uproc' = uproc /\ ucode' = ucode
      /\ i' = i /\ UNCHANGED globalVars /\ cr3' = cr3 /\ UNCHANGED builtinVars
      /\ cpu = Main /\ pc[Main] = "run"
  BY DEF Spawns, ShellReady
<1>3. ProcTypeOK'
  <2>1. KindOf(cmd) \in Builtin \cup {"none", "file"}
    BY ProcFacts
  <2>2. kind' \in [Task -> Builtin \cup {"none", "file"}]
    BY <1>1, <2>1 DEF Spawns, ProcTypeOK
  <2>3. /\ tproc' \in [Task -> ProcOrNull] /\ tspace' \in [Task -> Space \cup {Kernel, NULL}]
        /\ upc' \in [Task -> UPC]
    BY <1>1 DEF Spawns, ProcTypeOK, ProcOrNull, UPC
  <2>4. sh' \in SH /\ tt' \in Slot \cup {NULL}
    BY <1>2 DEF SH
  <2> QED  BY <1>1, <1>2, <2>2, <2>3, <2>4 DEF ProcTypeOK, globalVars, builtinVars
<1>4. Bodies'
  <2>1. kind'[x] # "none"
    BY SpawnsFacts, ProcFacts
  <2> QED  BY <1>1, <2>1, SpawnsFacts, ProcFacts, SMT DEF Bodies
<1>5. ShellPoints'
  <2>1. pc'[Main] = pc[Main]
    BY SpawnsFacts, ProcFacts
  <2> QED  BY <1>2, <2>1 DEF ShellPoints
<1>6. Building'
  BY <1>1, <1>2, SpawnsFacts DEF Building
<1>7. Spaces'
  BY <1>1, <1>2 DEF Spaces, Cr3Live
<1> QED  BY <1>3, <1>4, <1>5, <1>6, <1>7

\* No process has the new task yet, because slots are freed only when no
\* process that is active points to them.
LEMMA SpawnsLinks ==
    ASSUME ProcInv, NEW x \in Slot, Spawns(x)
    PROVE  Holds' /\ LinkedInv' /\ Entered' /\ BuiltinInv'
<1>1. ProcTypeOK /\ Building /\ Holds /\ LinkedInv /\ Entered /\ BuiltinInv
  BY ProcInvParts
<1>2. /\ sh = "spawn" /\ sh' = "link" /\ cmd' = cmd /\ tt' = x /\ pp' = pp
      /\ current' = current /\ cpu' = cpu
      /\ proc' = proc /\ uproc' = uproc /\ ucode' = ucode /\ cr3' = cr3
      /\ UNCHANGED globalVars /\ UNCHANGED builtinVars
  BY DEF Spawns
<1>3. \A t \in Slot \ {x} :
        /\ state'[t] = state[t] /\ kind'[t] = kind[t] /\ tproc'[t] = tproc[t]
        /\ tspace'[t] = tspace[t] /\ upc'[t] = upc[t] /\ (CanRun(t)' <=> CanRun(t))
  BY SpawnsFacts, ProcFacts
<1>4. /\ state[x] = "UNUSED" /\ state'[x] # "UNUSED" /\ ~CanRun(x)
      /\ kind'[x] = KindOf(cmd) /\ upc'[x] = "entry"
  BY SpawnsFacts
<1>5. \A t \in Slot : ~Linking(t) /\ (Linking(t)' <=> t = x)
  BY <1>2 DEF Linking
<1>6. Holds'
  <2>1. \A t \in Slot : Active(t)' => t # x /\ Active(t) /\ StateAt(t)' = StateAt(t)
    BY <1>2, <1>3, <1>5, SMT DEF Active, StateAt
  <2> QED  BY <1>1, <1>2, <1>3, <2>1, SMT DEF Holds
<1>7. LinkedInv'
  <2>1. \A p \in Proc : Live(p)' = Live(p)
    BY <1>2 DEF Live
  <2>2. \A p \in Proc : proc[p].task # NULL => proc[p].task \in Slot /\ pp # p
    BY <1>1, <1>2 DEF ProcTypeOK, Building
  <2>3. \A p \in Proc : Live(p) /\ pp # p =>
          /\ proc[p].task \in Slot \ {x} /\ CanRun(proc[p].task) /\ tproc[proc[p].task] = p
          /\ upc[proc[p].task] # "bye"
    BY <1>1, <1>4, <2>2 DEF LinkedInv, LinkedOneToOne
  <2>4. \A p \in Proc : Live(p) /\ pp # p => proc[p].task # NULL
    BY <2>3, ProcFacts
  <2> QED  BY <1>2, <1>3, <2>1, <2>2, <2>3, <2>4 DEF LinkedInv, LinkedOneToOne
<1>8. Entered'
  <2>1. \A t \in Slot : Inside(t)' <=> Inside(t) /\ t # x
    BY <1>3, <1>4 DEF Inside
  <2> QED  BY <1>1, <1>2, <1>3, <2>1 DEF Entered, globalVars
<1>9. BuiltinInv'
  <2>1. pending' = pending /\ started' = started /\ btask' = btask
    BY <1>2 DEF builtinVars
  <2>2. \A k \in Builtin : btask[k] # NULL => btask[k] \in Slot \ {x}
    BY <1>1, <1>2, <1>4, SMT DEF ProcTypeOK, BuiltinInv
  <2>3. \A k \in Builtin :
          /\ started'[k] <=> btask'[k] # NULL
          /\ btask'[k] # NULL => IF state'[btask'[k]] = "UNUSED" THEN sh' \in {"walk", "refresh"}
                                                              ELSE kind'[btask'[k]] = k
    BY <1>1, <1>2, <1>3, <2>1, <2>2, SMT DEF BuiltinInv
  <2>4. ASSUME NEW t \in Slot, CanRun(t)', kind'[t] \in Builtin, upc'[t] = "entry"
        PROVE  pending[kind'[t]] = IF t = x THEN pp ELSE tproc'[t]
    <3>1. CASE t = x
      BY <1>1, <1>2, <1>4, <2>4, <3>1 DEF BuiltinInv
    <3>2. CASE t # x
      BY <1>1, <1>3, <1>5, <2>4, <3>2, SMT DEF BuiltinInv
    <3> QED  BY <3>1, <3>2
  <2> QED  BY <1>2, <1>5, <2>1, <2>3, <2>4 DEF BuiltinInv
<1> QED  BY <1>6, <1>7, <1>8, <1>9

\* The task of a program is spawned, or the attempt fails.
LEMMA ShellSpawnStep ==
    ASSUME Guarded, ProcInv, Spawn
    PROVE  [Next]_vars /\ ProcInv'
<1>1. AtShell("spawn") /\ UNCHANGED <<starts, globalVars, cr3, uproc, ucode, i, started, btask>>
  BY DEF Spawn
<1>2. CASE UNCHANGED vars /\ Clear(pp)
  <2>1. Clear(pp) => proc' # proc
    <3>1. pp \in Proc /\ proc[pp].state = "READY" /\ ProcTypeOK
      BY <1>1, ProcInvParts DEF AtShell, Building
    <3> QED  BY <3>1, SMT DEF Clear, Unused, ProcTypeOK
  <2> QED  BY <1>2, <2>1, SpawnFailsStep DEF Spawn
<1>3. CASE SpawnUser
  <2>1. Next
    BY <1>3 DEF Next, UserStep
  <2>2. Inv'
    BY <2>1, ProcInvParts, InvNext DEF Guarded
  <2>3. PICK r \in Slot : SpawnTask(r, "user") /\ pc' = [pc EXCEPT ![r] = "run"]
    BY <1>3 DEF SpawnUser
  <2>4. state' # state
    <3>1. state' = [state EXCEPT ![r] = "READY"] /\ state[r] = "UNUSED" /\ r \in Task
      BY <2>3, ProcFacts DEF SpawnTask, CreateTask, FreeSlot
    <3> QED  BY <3>1, ProcInvParts DEF TypeOK
  <2>5. ~UNCHANGED vars
    BY <2>4 DEF vars, ringVars
  <2>6. PICK x \in Slot :
           /\ FreeSlot(x) /\ tt' = x /\ kind' = [kind EXCEPT ![x] = KindOf(cmd)]
           /\ tproc' = [tproc EXCEPT ![x] = NULL] /\ tspace' = [tspace EXCEPT ![x] = Kernel]
           /\ Goto(x, "entry")
    BY <2>5 DEF Spawn
  <2>7. ShellAt("link") /\ UNCHANGED <<proc, dirs, pp, pending>>
    BY <2>5 DEF Spawn
  <2>8. x = r
    BY <2>3, <2>6, OneFreeSlot DEF SpawnTask
  <2>9. /\ state[x] = "UNUSED" /\ state' = [state EXCEPT ![x] = "READY"]
        /\ body' = [body EXCEPT ![x] = "user"] /\ pc' = [pc EXCEPT ![x] = "run"]
        /\ UNCHANGED <<current, cpu, a>>
    BY <1>3, <2>3, <2>8 DEF SpawnTask, CreateTask, FreeSlot, SpawnUser, mainVars
  <2>10. Spawns(x)
    BY <1>1, <2>6, <2>7, <2>9 DEF Spawns, AtShell, ShellAt, Goto, builtinVars
  <2> QED  BY <2>1, <2>2, <2>10, SpawnsTables, SpawnsLinks DEF ProcInv
<1> QED  BY <1>2, <1>3 DEF Spawn

-----------------------------------------------------------------------------
(* All steps *)

\* The invariant holds at boot.
LEMMA ProcInvInit == ProcInit => ProcInv
<1> SUFFICES ASSUME ProcInit PROVE ProcInv
  OBVIOUS
<1>1. Inv
  BY InvInit DEF ProcInit
<1>2. ProcTypeOK
  <2>1. 1 \in Proc /\ 0 \in 0 .. MAX_STARTS
    BY ProcessesAssumption, SMT DEF Proc
  <2>2. started \in [Builtin -> BOOLEAN]
    BY DEF ProcInit
  <2> QED  BY <2>1, <2>2 DEF ProcInit, ProcTypeOK, ProcOrNull, Unused, ProcState, UPC, SH
<1>3. \A t \in Task : body[t] = "none" /\ kind[t] = "none" /\ pc[t] = "run"
  BY DEF ProcInit, Init
<1>4. \A t \in Slot : ~CanRun(t)
  BY <1>3, ProcFacts DEF CanRun
<1>5. Bodies
  BY <1>3, ProcFacts DEF ProcInit, Init, Bodies
<1>6. ShellPoints
  BY <1>3, ProcFacts DEF ProcInit, Init, ShellPoints
<1>7. \A p \in Proc : proc[p].state = "UNUSED"
  BY DEF ProcInit, Unused
<1>8. Building /\ Spaces /\ LinkedInv
  BY <1>7 DEF ProcInit, Building, Spaces, Cr3Live, LinkedInv, LinkedOneToOne, Live
<1>9. Holds /\ Entered
  BY <1>4 DEF Holds, Active, Entered, Inside
<1>10. BuiltinInv
  BY <1>4 DEF ProcInit, BuiltinInv
<1> QED  BY <1>1, <1>2, <1>5, <1>6, <1>8, <1>9, <1>10 DEF ProcInv

\* Every step is one of the scheduler's, or leaves its variables alone, and
\* preserves the invariant.
LEMMA UserTaskStep ==
    ASSUME Guarded, ProcInv, NEW t \in Slot, UserTask(t)
    PROVE  [Next]_vars /\ ProcInv'
<1>1. CASE Entry(t)
  BY <1>1, EntryStep DEF Entry
<1>2. CASE Start(t)
  BY <1>2, StartStep DEF Start
<1>3. CASE Enter(t)
  BY <1>3, EnterStep DEF Enter
<1>4. CASE Mark(t)
  BY <1>4, MarkStep DEF Mark
<1>5. CASE Close(t)
  BY <1>5, CloseStep DEF Close
<1>6. CASE Bye(t)
  BY <1>6, ByeStep DEF Bye, Next, UserStep
<1> QED  BY <1>1, <1>2, <1>3, <1>4, <1>5, <1>6 DEF UserTask

\* What a program does keeps the invariant, and is a step of the scheduler.
LEMMA ProgramStep ==
    ASSUME Guarded, ProcInv, NEW t \in Slot, Program(t)
    PROVE  [Next]_vars /\ ProcInv'
<1>1. CASE Exit(t)
  BY <1>1, SysExitStep
<1>2. CASE Fault(t)
  BY <1>2, FaultStep
<1>3. CASE Exception(t)
  BY <1>3, ExceptionStep DEF Exception
<1>4. CASE SysYield(t)
  BY <1>4, YieldStep DEF SysYield, Next, UserStep
<1>5. CASE SysKill(t)
  BY <1>5, SysKillStep
<1> QED  BY <1>1, <1>2, <1>3, <1>4, <1>5 DEF Program

\* The same for the shell.
LEMMA ShellStepStep ==
    ASSUME Guarded, ProcInv, ShellStep
    PROVE  [Next]_vars /\ ProcInv'
<1>1. CASE ReapProcess
  BY <1>1, ReapProcessStep DEF ReapProcess
<1>2. CASE ReapPid
  BY <1>2, ReapPidStep DEF ReapPid
<1>3. CASE ReapTasks
  BY <1>3, ReapTasksStep
<1>4. CASE Refresh
  BY <1>4, RefreshStep DEF Refresh
<1>5. CASE Build
  BY <1>5, BuildStep DEF Build
<1>6. CASE Spawn
  BY <1>6, ShellSpawnStep
<1>7. CASE Link
  BY <1>7, LinkStep DEF Link
<1>8. CASE LinkSpace
  BY <1>8, LinkSpaceStep DEF LinkSpace
<1>9. CASE ShellKillCheck
  BY <1>9, KillCheckStep DEF ShellKillCheck
<1>10. CASE ShellKill
  BY <1>10, ShellKillStep
<1>11. CASE ShellTest
  BY <1>11, ShellTestStep
<1> QED  BY <1>1, <1>2, <1>3, <1>4, <1>5, <1>6, <1>7, <1>8, <1>9, <1>10, <1>11 DEF ShellStep

\* Every step keeps the invariant, and is a step of Tasks or leaves its
\* variables alone.
LEMMA ProcInvNext ==
    ASSUME Guarded, ProcInv, [ProcNext]_allVars
    PROVE  [Next]_vars /\ ProcInv'
<1>1. CASE Tick
  BY <1>1, TickStep DEF Tick, Next
<1>2. CASE Reschedule
  BY <1>2, RescheduleStep DEF Reschedule, Next, KernelStep
<1>3. CASE \E t \in Slot : UserTask(t) \/ Program(t)
  BY <1>3, UserTaskStep, ProgramStep
<1>4. CASE ShellCommand
  BY <1>4, CommandStep DEF ShellCommand
<1>5. CASE ShellStep
  BY <1>5, ShellStepStep
<1>6. CASE UNCHANGED allVars
  <2>1. UNCHANGED vars /\ UNCHANGED procVars
    BY <1>6 DEF allVars
  <2>2. Inv'
    BY <2>1, ProcInvParts, InvNext DEF Guarded
  <2>3. /\ UNCHANGED tableVars /\ UNCHANGED globalVars /\ cr3' = cr3 /\ UNCHANGED linkVars
        /\ UNCHANGED userVars /\ UNCHANGED shellVars /\ UNCHANGED builtinVars
    BY <2>1 DEF procVars
  <2>4. ProcTypeOK'
    BY <2>3, ProcInvParts DEF tableVars, globalVars, linkVars, userVars, shellVars, builtinVars, ProcTypeOK
  <2>5. UNCHANGED <<state, body, pc, cpu, current, a>>
    BY <2>1 DEF vars, ringVars, cpuVars, codeVars, mainVars
  <2>6. Bodies' /\ ShellPoints' /\ Building' /\ Spaces'
    BY <2>3, <2>5, ProcInvParts
       DEF tableVars, linkVars, userVars, shellVars, Bodies, ShellPoints, Building, Spaces, Cr3Live,
           CanRun, Live
  <2>7. Holds' /\ LinkedInv' /\ Entered' /\ BuiltinInv'
    BY <2>3, <2>5, ProcInvParts, SMT
       DEF tableVars, globalVars, linkVars, userVars, shellVars, builtinVars, Holds, Active, StateAt,
           Linking, LinkedInv, LinkedOneToOne, Entered, Inside, BuiltinInv, CanRun, Live
  <2> QED  BY <2>1, <2>2, <2>4, <2>6, <2>7 DEF ProcInv
<1> QED  BY <1>1, <1>2, <1>3, <1>4, <1>5, <1>6 DEF ProcNext

\* The invariant of the process layer holds in every state that the kernel
\* reaches when no time slice ends inside schedule(), between spawn and link or
\* inside KILL, and no program is entered before the one entered earlier ended.
THEOREM ProcInvHolds == ASSUME Guarded PROVE ProcSpec => []ProcInv
<1>1. ProcInv /\ [ProcNext]_allVars => ProcInv'
  BY ProcInvNext
<1> QED  BY <1>1, ProcInvInit, PTL DEF ProcSpec

-----------------------------------------------------------------------------
(* What follows *)

\* With processes on top of it the scheduler still behaves as Tasks says: every
\* step of Processes is a step of Tasks or leaves its variables alone.
THEOREM SchedulerIsRefined == ASSUME Guarded PROVE ProcSpec => SchedulerRefined
<1>1. ProcInit => Init
  BY DEF ProcInit
<1>2. ProcInv /\ [ProcNext]_allVars => [Next]_vars
  BY ProcInvNext
<1> QED  BY <1>1, <1>2, ProcInvHolds, PTL DEF ProcSpec, Spec, SchedulerRefined

\* The globals that exist once for all processes (current_user_process, the
\* saved context, esp0, the keyboard owner, cr3) are about the program that
\* runs, and the kernel stack holds the frame of a program that waits.
THEOREM IdentityHolds == ASSUME Guarded PROVE ProcSpec => []UserIdentity
<1>1. ASSUME ProcInv PROVE UserIdentity
  <2>1. ASSUME InUser(cpu), pc[cpu] = "run"
        PROVE  LET p == uproc[cpu] IN
               /\ current_user_process = p /\ tproc[current] = p
               /\ proc[p].state = "RUNNING" /\ cr3 = proc[p].space
               /\ saved = cpu /\ esp0 = "user" /\ owner = "USER"
    <3>1. PICK t \in Slot : t = cpu
      BY <1>1, <2>1, ProcInvParts DEF TypeOK, Task, InUser, Bodies
    <3>2. AtUser(t, "user")
      BY <2>1, <3>1 DEF AtUser, InUser
    <3>3. /\ current = t /\ tproc[t] \in Proc /\ proc[tproc[t]].state \in StateAt(t)
          /\ uproc[t] = tproc[t] /\ current_user_process = tproc[t] /\ upc[t] = "user"
          /\ saved = t /\ esp0 = "user" /\ owner = "USER"
      BY <1>1, <3>2, AtUserProcess DEF Within
    <3>4. cr3 = proc[tproc[t]].space
      BY <1>1, <3>2, <3>3, AtUserFacts, ProcInvParts DEF Holds
    <3> QED  BY <3>1, <3>3, <3>4 DEF StateAt
  <2>2. ASSUME NEW t \in Slot, CanRun(t), InUser(t), t # cpu PROVE kstack = t
    BY <1>1, <2>2, ProcInvParts DEF Entered, Inside, InUser
  <2> QED  BY <2>1, <2>2 DEF UserIdentity
<1> QED  BY <1>1, ProcInvHolds, PTL

\* The pointer to its process that a user task keeps across preemptions, from
\* its entry function to the closing of descriptors, leads to a process that is
\* in use, is its own and still has its address space: REAP never cleared it.
THEOREM HeldHolds == ASSUME Guarded PROVE ProcSpec => []HeldProcess
<1>1. ASSUME ProcInv PROVE HeldProcess
  <2>1. ProcTypeOK /\ Building /\ Spaces /\ Holds
    BY <1>1, ProcInvParts
  <2>2. ASSUME NEW t \in Slot, CanRun(t), upc[t] \in {"start", "enter", "user", "mark", "close"}
        PROVE  /\ proc[uproc[t]].state # "UNUSED" /\ proc[uproc[t]].task = t
               /\ proc[uproc[t]].space \in dirs
    <3>1. Active(t)
      BY <2>1, <2>2 DEF Active, Linking, Building
    <3>2. /\ tproc[t] \in Proc /\ proc[tproc[t]].task = t /\ proc[tproc[t]].state \in StateAt(t)
          /\ uproc[t] = tproc[t]
      BY <2>1, <2>2, <3>1 DEF Holds
    <3>3. proc[tproc[t]].state # "UNUSED"
      BY <3>2 DEF StateAt
    <3> QED  BY <2>1, <3>2, <3>3 DEF Spaces
  <2> QED  BY <2>1, <2>2 DEF HeldProcess
<1> QED  BY <1>1, ProcInvHolds, PTL

\* Outside the commands that build one, an active process has a task, the task
\* points back to it, and no two processes share a task.
THEOREM LinkHolds == ASSUME Guarded PROVE ProcSpec => []LinkedOneToOne
<1>1. ProcInv => LinkedOneToOne
  BY ProcInvParts DEF LinkedInv
<1> QED  BY <1>1, ProcInvHolds, PTL

\* The page directory in use has not been freed.
THEOREM Cr3Holds == ASSUME Guarded PROVE ProcSpec => []Cr3Live
<1>1. ProcInv => Cr3Live
  BY ProcInvParts DEF Spaces
<1> QED  BY <1>1, ProcInvHolds, PTL

\* user_test_task and user_fault_task never point to a slot that was recycled
\* for another kind of task, in any state in which the shell looks at them.
THEOREM BuiltinHolds == ASSUME Guarded PROVE ProcSpec => []BuiltinTasks
<1>1. ProcInv => BuiltinTasks
  BY ProcInvParts DEF BuiltinInv, BuiltinTasks
<1> QED  BY <1>1, ProcInvHolds, PTL

\* One step in the life of a process.
LifeStep(p) ==
    proc'[p].state # proc[p].state =>
       <<proc[p].state, proc'[p].state>> \in
           {<<"UNUSED", "READY">>, <<"READY", "RUNNING">>,
            <<"READY", "KILLED">>, <<"READY", "UNUSED">>}
           \cup ({"RUNNING"} \X {"EXITED", "FAILED", "KILLED"})
           \cup ({"EXITED", "FAILED", "KILLED"} \X {"UNUSED"})

\* A process changes its state.
LEMMA Moves ==
    ASSUME ProcInv, NEW p \in Proc, NEW st \in ProcState,
           proc' = [proc EXCEPT ![p].state = st],
           \/ proc[p].state = st
           \/ <<proc[p].state, st>> \in
                 {<<"READY", "RUNNING">>, <<"READY", "KILLED">>}
                 \cup ({"RUNNING"} \X {"EXITED", "FAILED", "KILLED"})
    PROVE  \A q \in Proc : LifeStep(q)
<1>1. \A q \in Proc : proc'[q].state = IF q = p THEN st ELSE proc[q].state
  BY ProcInvParts, SetState
<1> QED  BY <1>1 DEF LifeStep

\* What user tasks and programs do to the state of a process.
LEMMA UserLife ==
    ASSUME Guarded, ProcInv, NEW t \in Slot, UserTask(t) \/ Program(t)
    PROVE  \A p \in Proc : LifeStep(p)
<1>1. CASE proc' = proc
  BY <1>1 DEF LifeStep
<1>2. CASE Start(t)
  <2>1. /\ tproc[t] \in Proc /\ uproc[t] = tproc[t] /\ proc[tproc[t]].space # NULL
        /\ proc[tproc[t]].state \in StateAt(t) /\ upc[t] = "start"
    BY <1>2, AtUserProcess, ProcFacts DEF Start
  <2>2. PICK p \in Proc : /\ p = tproc[t] /\ proc' = [proc EXCEPT ![p].state = "RUNNING"]
    BY <1>2, <2>1 DEF Start
  <2>3. proc[p].state = "READY" /\ "RUNNING" \in ProcState
    BY <2>1, <2>2 DEF StateAt, ProcState
  <2> QED  BY <2>2, <2>3, Moves
<1>3. CASE Fault(t)
  <2>1. /\ tproc[t] \in Proc /\ current_user_process = tproc[t] /\ tproc[t] # NULL
        /\ proc[tproc[t]].state \in StateAt(t) /\ upc[t] = "user"
    BY <1>3, AtUserProcess, ProcFacts DEF Fault, Within
  <2>2. PICK p \in Proc : /\ p = tproc[t] /\ proc' = [proc EXCEPT ![p].state = "FAILED"]
    BY <1>3, <2>1 DEF Fault
  <2>3. proc[p].state = "RUNNING" /\ "FAILED" \in ProcState
    BY <2>1, <2>2 DEF StateAt, ProcState
  <2> QED  BY <2>2, <2>3, Moves
<1>4. CASE Mark(t)
  <2>1. /\ tproc[t] \in Proc /\ uproc[t] = tproc[t]
        /\ proc[tproc[t]].state \in StateAt(t) /\ upc[t] = "mark"
    BY <1>4, AtUserProcess DEF Mark
  <2>2. PICK p \in Proc, st \in ProcState :
           /\ p = tproc[t] /\ st = (IF ucode[t] = "fault" THEN "FAILED" ELSE "EXITED")
           /\ proc' = [proc EXCEPT ![p].state = st]
    BY <1>4, <2>1 DEF Mark, ProcState
  <2>3. \/ proc[p].state = "RUNNING" /\ st \in {"EXITED", "FAILED"}
        \/ proc[p].state = st
    BY <2>1, <2>2 DEF StateAt
  <2>4. proc' = [proc EXCEPT ![p].state = st]
    BY <2>2
  <2> QED  BY <2>3, <2>4, Moves
<1>5. CASE SysKill(t)
  <2>1. PICK p \in Proc : Live(p) /\ proc' = [proc EXCEPT ![p].state = "KILLED"]
    BY <1>5 DEF SysKill, KillProcess
  <2> QED  BY <2>1, Moves DEF Live, ProcState
<1> QED  BY <1>1, <1>2, <1>3, <1>4, <1>5
         DEF UserTask, Program, Entry, Enter, Close, Bye, Exit, Exception, SysYield, tableVars, procVars

\* A slot is cleared.
LEMMA ClearLife ==
    ASSUME ProcInv, NEW p \in Proc, Clear(p), user_process_is_dead(p) \/ proc[p].state = "READY"
    PROVE  \A q \in Proc : LifeStep(q)
<1>1. \A q \in Proc : proc'[q].state = IF q = p THEN "UNUSED" ELSE proc[q].state
  BY ProcInvParts DEF Clear, ProcTypeOK, Unused
<1> QED  BY <1>1 DEF LifeStep, user_process_is_dead

\* What the shell does to the state of a process.
LEMMA ShellLife ==
    ASSUME Guarded, ProcInv, ShellStep
    PROVE  \A p \in Proc : LifeStep(p)
<1>1. CASE proc' = proc
  BY <1>1 DEF LifeStep
<1>2. CASE ReapProcess
  <2>1. i \in Proc
    BY ProcInvParts DEF ProcTypeOK
  <2>2. PICK p \in Proc : p = i
    BY <2>1
  <2> QED  BY <1>1, <1>2, <2>2, ClearLife DEF ReapProcess
<1>3. CASE ReapPid
  BY <1>1, <1>3, ClearLife DEF ReapPid
<1>4. CASE Build
  <2>1. CASE \E p \in Proc, s \in Space :
                /\ FreeProc(p)
                /\ proc' = [proc EXCEPT ![p] = [state |-> "READY", task |-> NULL, space |-> s]]
    <3>1. PICK p \in Proc, s \in Space :
             /\ FreeProc(p)
             /\ proc' = [proc EXCEPT ![p] = [state |-> "READY", task |-> NULL, space |-> s]]
      BY <2>1
    <3>2. /\ proc[p].state = "UNUSED"
          /\ \A q \in Proc : proc'[q].state = IF q = p THEN "READY" ELSE proc[q].state
      BY <3>1, ProcInvParts DEF FreeProc, ProcTypeOK
    <3> QED  BY <3>2 DEF LifeStep
  <2> QED  BY <1>1, <1>4, <2>1 DEF Build, tableVars
<1>5. CASE Spawn
  <2>1. PICK p \in Proc : p = pp /\ proc[p].state = "READY"
    BY <1>5, ProcInvParts DEF Spawn, AtShell, Building
  <2> QED  BY <1>1, <1>5, <2>1, ClearLife DEF Spawn
<1>6. CASE Link
  <2>1. \A q \in Proc : proc'[q].state = proc[q].state
    BY <1>6, ProcInvParts DEF Link, ProcTypeOK
  <2> QED  BY <2>1 DEF LifeStep
<1>7. CASE ShellKill
  <2>1. PICK p \in Proc : p = pp /\ Live(p)
    BY <1>7, ProcInvParts DEF ShellKill, AtShell, Building
  <2>2. proc' = proc \/ proc' = [proc EXCEPT ![p].state = "KILLED"]
    BY <1>7, <2>1 DEF ShellKill, KillProcess
  <2> QED  BY <1>1, <2>1, <2>2, Moves DEF Live, ProcState
<1> QED  BY <1>1, <1>2, <1>3, <1>4, <1>5, <1>6, <1>7
         DEF ShellStep, ReapTasks, Refresh, LinkSpace, ShellKillCheck, ShellTest, tableVars

\* An exit status is written once: a process that is EXITED, FAILED or KILLED
\* changes its state only when it is cleared.
THEOREM LifecycleHolds == ASSUME Guarded PROVE ProcSpec => Lifecycle
<1>1. ASSUME ProcInv, [ProcNext]_allVars
      PROVE  \A p \in Proc : LifeStep(p)
  <2>1. CASE proc' = proc
    BY <2>1 DEF LifeStep
  <2>2. CASE \E t \in Slot : UserTask(t) \/ Program(t)
    BY <1>1, <2>2, UserLife
  <2>3. CASE ShellStep
    BY <1>1, <2>3, ShellLife
  <2> QED  BY <1>1, <2>1, <2>2, <2>3
           DEF ProcNext, Tick, Reschedule, ShellCommand, tableVars, allVars, procVars
<1>2. ProcInv /\ [ProcNext]_allVars =>
         [\A p \in Proc : proc'[p].state # proc[p].state =>
            <<proc[p].state, proc'[p].state>> \in
              {<<"UNUSED", "READY">>, <<"READY", "RUNNING">>,
               <<"READY", "KILLED">>, <<"READY", "UNUSED">>}
              \cup ({"RUNNING"} \X {"EXITED", "FAILED", "KILLED"})
              \cup ({"EXITED", "FAILED", "KILLED"} \X {"UNUSED"})]_allVars
  BY <1>1 DEF LifeStep
<1> QED  BY <1>2, ProcInvHolds, PTL DEF ProcSpec, Lifecycle

=============================================================================
