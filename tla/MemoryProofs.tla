---------------------------- MODULE MemoryProofs ----------------------------
(***************************************************************************)
(* Theorems about Memory, for every number of frames, processes, tasks and *)
(* page tables, and for all programs.                                      *)
(***************************************************************************)
EXTENDS Memory, FiniteSetTheorems, SequenceTheorems, WellFoundedInduction, TLAPS

\* A leaf is for Zenon unless it says SMT.
USE ZenonT(30)

-----------------------------------------------------------------------------
(* The inductive invariant. *)

\* A frame is marked exactly if it has a holder, and it has only one.
Owned ==
    \A f \in Frame :
        /\ \A x, y \in Holders(f) : x = y
        /\ f \in used <=> Holders(f) # {}

\* An address space without a directory is empty.  One with a directory belongs
\* to one process, or is the one that address_space_create_user works on.
Empty(s) ==
    /\ low[s] = 0 /\ \A d \in Pde : tables[s][d] = 0
    /\ DOMAIN page[s] = {}
SpaceInv ==
    /\ page = [s \in Space |-> page[s]]
    /\ \A s \in Space : \A v \in DOMAIN page[s] : v[1] \in 0 .. PDES
    /\ \A s \in Space : dir[s] = 0 => Empty(s)
    /\ \A p \in Proc : space[p] # 0 => dir[space[p]] # 0
    /\ \A p, q \in Proc : space[p] # 0 /\ space[p] = space[q] => p = q
    /\ \A s \in Space : dir[s] # 0 =>
          \/ \E p \in Proc : space[p] = s
          \/ At("low") /\ shell.todo[1] = s

\* What a process has before its first frame.
Bare(p) == stack[p] = 0 /\ image[p] = <<>> /\ elf[p] = <<>>

\* The pages still to be mapped.
Todo == IF At("low") THEN shell.todo[2] ELSE shell.todo
Pages == Seq((0 .. PDES) \X Nat)

\* The command under way builds the only process that is ready; how far it
\* has come says what this process has.
Control ==
    /\ shell = [pc |-> shell.pc, p |-> shell.p, kind |-> shell.kind, todo |-> shell.todo]
    /\ shell.pc \in {"idle", "dir", "low", "none", "stack", "pages"}
    /\ At("idle") => shell = Idle
    /\ ~At("idle") => shell.p \in Proc /\ state[shell.p] = "ready"
    /\ \A p \in Proc : state[p] = "ready" => ~At("idle") /\ p = shell.p
    /\ \A p \in Proc : state[p] = "unused" => space[p] = 0 /\ Bare(p)
    /\ shell.pc \in {"dir", "low", "none"} => space[shell.p] = 0
    /\ shell.pc \in {"stack", "pages"} => space[shell.p] # 0
    /\ shell.pc \in {"dir", "low", "none", "stack"} => Bare(shell.p)

\* The address space with a directory and no low table yet is new.
Fresh ==
    At("low") =>
        /\ shell.todo = <<shell.todo[1], shell.todo[2]>>
        /\ shell.todo[1] \in Space /\ dir[shell.todo[1]] # 0
        /\ Empty(shell.todo[1])
        /\ \A p \in Proc : space[p] # shell.todo[1]

\* The pages still to be mapped are pages, and those of a flat program fit.
Remaining ==
    ~At("idle") =>
        /\ Todo \in Pages
        /\ shell.kind = "flat" =>
              /\ Len(image[shell.p]) + Len(Todo) <= MAX_IMAGE
              /\ \A i \in 1 .. Len(Todo) : Todo[i][1] = 0

Inv == TypeOK /\ Owned /\ SpaceInv /\ Control /\ Fresh /\ Remaining /\ Isolation

-----------------------------------------------------------------------------
(* Numbers and sets *)

\* The lowest of a set of numbers is one of them.
LEMMA LowestIsIn ==
    ASSUME NEW S \in SUBSET Nat, S # {}
    PROVE  Lowest(S) \in S
<1> DEFINE R == OpToRel(<, Nat)
<1>1. \A k, n \in Nat : <<k, n>> \in R <=> k < n
  BY DEF OpToRel
<1>2. IsWellFoundedOn(R, Nat)
  BY NatLessThanWellFounded
<1> HIDE DEF R
<1>3. PICK n \in S : \A k \in S : ~(<<k, n>> \in R)
  BY <1>2, WFMin
<1>4. ASSUME NEW k \in S PROVE n <= k
  <2>1. k \in Nat /\ n \in Nat
    OBVIOUS
  <2>2. ~(k < n)
    BY <1>1, <1>3, <2>1
  <2> QED  BY <2>1, <2>2, SMT
<1> QED  BY <1>4 DEF Lowest

\* A set whose members are all the same has at most one.
LEMMA AtMostOne ==
    ASSUME NEW S, \A x, y \in S : x = y
    PROVE  Cardinality(S) <= 1
<1>1. CASE S = {}
  BY <1>1, FS_EmptySet, SMT
<1>2. CASE S # {}
  <2>1. PICK x \in S : S = {x}
    BY <1>2
  <2> QED  BY <2>1, FS_Singleton, SMT
<1> QED  BY <1>1, <1>2

\* The constants, and values that are told apart.
LEMMA Facts ==
    /\ 0 \notin Frame /\ NONE \notin Frame /\ 0 \notin Space /\ 0 \notin Proc
    /\ Frame \subseteq Nat /\ Space \subseteq Nat /\ Proc \subseteq Nat /\ Task \subseteq Nat
    /\ MAX_IMAGE \in Nat /\ MAX_ELF \in Nat /\ PDES \in Nat /\ Images \subseteq Pages
BY MemoryAssumption, SMT DEF Frame, Space, Proc, Task, NONE, Pages

-----------------------------------------------------------------------------
(* Holders *)

\* Frames that were free get one holder each.
LEMMA Gained ==
    ASSUME Owned, NEW F \in SUBSET (Frame \ used), used' = used \cup F,
           \A g \in F : \E x : Holders(g)' = Holders(g) \cup {x},
           \A g \in Frame \ F : Holders(g)' = Holders(g)
    PROVE  Owned'
<1>1. ASSUME NEW g \in F
      PROVE  (\A x, y \in Holders(g)' : x = y) /\ Holders(g)' # {} /\ g \in used'
  <2>1. Holders(g) = {}
    BY DEF Owned
  <2> QED  BY <2>1
<1>2. ASSUME NEW g \in Frame \ F
      PROVE  (\A x, y \in Holders(g)' : x = y) /\ (g \in used' <=> Holders(g)' # {})
  BY SMT DEF Owned
<1> QED  BY <1>1, <1>2 DEF Owned

\* One frame is taken and gets one owner.
LEMMA GainedOne ==
    ASSUME Owned, NEW f \in Frame \ used, used' = used \cup {f}, NEW x,
           \A g \in Frame : Holders(g)' = Holders(g) \cup (IF g = f THEN {x} ELSE {})
    PROVE  Owned'
<1>1. \A g \in {f} : \E y : Holders(g)' = Holders(g) \cup {y}
  OBVIOUS
<1>2. \A g \in Frame \ {f} : Holders(g)' = Holders(g)
  OBVIOUS
<1>3. {f} \in SUBSET (Frame \ used)
  OBVIOUS
<1> QED  BY <1>1, <1>2, <1>3, Gained

\* Holders are removed, and their frames freed.
LEMMA Released ==
    ASSUME Owned, NEW F \in SUBSET Frame, used' = used \ F, NEW R,
           \A g \in Frame : Holders(g)' = Holders(g) \ R,
           \A g \in Frame : g \in F <=> Holders(g) \cap R # {}
    PROVE  Owned'
<1>1. ASSUME NEW g \in Frame
      PROVE  (\A x, y \in Holders(g)' : x = y) /\ (g \in used' <=> Holders(g)' # {})
  <2>1. CASE g \in F
    <3>1. PICK x : x \in Holders(g) /\ x \in R
      BY <2>1
    <3>2. Holders(g)' = {}
      BY <3>1, SMT DEF Owned
    <3> QED  BY <2>1, <3>2
  <2>2. CASE g \notin F
    <3>1. Holders(g)' = Holders(g)
      BY <2>2
    <3> QED  BY <2>2, <3>1, SMT DEF Owned
  <2> QED  BY <2>1, <2>2
<1> QED  BY <1>1 DEF Owned

\* The holders of a frame depend on these fields only.
LEMMA SameHolders ==
    ASSUME UNCHANGED <<dir, low, tables, stack, image, elf, kstacks, kept>>
    PROVE  \A g \in Frame : Holders(g)' = Holders(g)
BY SMT DEF Holders, Dirs, Lows, Tables, Stacks, ImageFrames, ElfFrames, KernelStacks, Kept

\* A field that was empty gets a frame: address_space_create_user,
\* user_process_map_stack, user_process_map_loaded_image and elf_map_segment.
LEMMA SetDir ==
    ASSUME TypeOK, NEW s \in Space, dir[s] = 0, NEW f \in Frame, dir' = [dir EXCEPT ![s] = f],
           UNCHANGED <<low, tables, stack, image, elf, kstacks, kept>>
    PROVE  \A g \in Frame : Holders(g)' = Holders(g) \cup (IF g = f THEN {<<"dir", s>>} ELSE {})
<1>1. \A g \in Frame : Dirs(g)' = Dirs(g) \cup (IF g = f THEN {<<"dir", s>>} ELSE {})
  BY SMT DEF TypeOK, Dirs, Frame
<1> QED  BY <1>1, SMT DEF Holders, Lows, Tables, Stacks, ImageFrames, ElfFrames, KernelStacks, Kept

\* The low table of an address space is filled in: its frame gets an owner.
LEMMA SetLow ==
    ASSUME TypeOK, NEW s \in Space, low[s] = 0, NEW f \in Frame, low' = [low EXCEPT ![s] = f],
           UNCHANGED <<dir, tables, stack, image, elf, kstacks, kept>>
    PROVE  \A g \in Frame : Holders(g)' = Holders(g) \cup (IF g = f THEN {<<"low", s>>} ELSE {})
<1>1. \A g \in Frame : Lows(g)' = Lows(g) \cup (IF g = f THEN {<<"low", s>>} ELSE {})
  BY SMT DEF TypeOK, Lows, Frame
<1> QED  BY <1>1, SMT DEF Holders, Dirs, Tables, Stacks, ImageFrames, ElfFrames, KernelStacks, Kept

\* The same for the stack of a process.
LEMMA SetStack ==
    ASSUME TypeOK, NEW p \in Proc, stack[p] = 0, NEW f \in Frame, stack' = [stack EXCEPT ![p] = f],
           UNCHANGED <<dir, low, tables, image, elf, kstacks, kept>>
    PROVE  \A g \in Frame : Holders(g)' = Holders(g) \cup (IF g = f THEN {<<"stack", p>>} ELSE {})
<1>1. \A g \in Frame : Stacks(g)' = Stacks(g) \cup (IF g = f THEN {<<"stack", p>>} ELSE {})
  BY SMT DEF TypeOK, Stacks, Frame
<1> QED  BY <1>1, SMT DEF Holders, Dirs, Lows, Tables, ImageFrames, ElfFrames, KernelStacks, Kept

\* The same for one more frame of a flat image.
LEMMA AddImage ==
    ASSUME TypeOK, NEW p \in Proc, NEW f \in Frame, image' = [image EXCEPT ![p] = Append(@, f)],
           UNCHANGED <<dir, low, tables, stack, elf, kstacks, kept>>
    PROVE  \A g \in Frame : Holders(g)' = Holders(g)
                \cup (IF g = f THEN {<<"image", p, Len(image[p]) + 1>>} ELSE {})
<1>1. \A g \in Frame : ImageFrames(g)' = ImageFrames(g)
                \cup (IF g = f THEN {<<"image", p, Len(image[p]) + 1>>} ELSE {})
  BY SMT DEF TypeOK, ImageFrames, Frame
<1> QED  BY <1>1, SMT DEF Holders, Dirs, Lows, Tables, Stacks, ElfFrames, KernelStacks, Kept

\* The same for one more page of an ELF program, which may bring a new page
\* table with it.
LEMMA AddElf ==
    ASSUME TypeOK, NEW p \in Proc, NEW f \in Frame, elf' = [elf EXCEPT ![p] = Append(@, f)],
           UNCHANGED <<dir, low, stack, image, kstacks, kept>>,
           \A g \in Frame : Tables(g) \subseteq Tables(g)'
    PROVE  \A g \in Frame : Holders(g)' = Holders(g) \cup Tables(g)'
                \cup (IF g = f THEN {<<"elf", p, Len(elf[p]) + 1>>} ELSE {})
<1>1. \A g \in Frame : ElfFrames(g)' = ElfFrames(g)
                \cup (IF g = f THEN {<<"elf", p, Len(elf[p]) + 1>>} ELSE {})
  BY SMT DEF TypeOK, ElfFrames, Frame
<1>2. \A g \in Frame : /\ Dirs(g)' = Dirs(g) /\ Lows(g)' = Lows(g) /\ Stacks(g)' = Stacks(g)
                       /\ ImageFrames(g)' = ImageFrames(g)
                       /\ KernelStacks(g)' = KernelStacks(g) /\ Kept(g)' = Kept(g)
  BY SMT DEF Dirs, Lows, Stacks, ImageFrames, KernelStacks, Kept
<1> QED  BY <1>1, <1>2, SMT DEF Holders

\* A new page table has one owner, its directory entry.
LEMMA SetTable ==
    ASSUME NEW s \in Space, NEW d, NEW f, NEW missing \in BOOLEAN,
           missing => d \in Pde /\ tables[s][d] = 0,
           \A t \in Space, e \in Pde :
              tables'[t][e] = IF missing /\ t = s /\ e = d THEN f ELSE tables[t][e]
    PROVE  \A g \in Frame : Tables(g)' = Tables(g)
                \cup (IF missing /\ g = f THEN {<<"table", <<s, d>>>>} ELSE {})
<1> SUFFICES ASSUME NEW g \in Frame
             PROVE  Tables(g)' = Tables(g)
                      \cup (IF missing /\ g = f THEN {<<"table", <<s, d>>>>} ELSE {})
  OBVIOUS
<1>1. \A t \in Space, e \in Pde : tables'[t][e] = g <=>
         \/ tables[t][e] = g
         \/ missing /\ t = s /\ e = d /\ g = f
  BY Facts
<1>2. \A x \in Space \X Pde : tables'[x[1]][x[2]] = g <=>
         \/ tables[x[1]][x[2]] = g
         \/ missing /\ x = <<s, d>> /\ g = f
  BY <1>1, SMT
<1>3. missing => <<s, d>> \in Space \X Pde
  OBVIOUS
<1> QED  BY <1>2, <1>3, SMT DEF Tables

-----------------------------------------------------------------------------
(* The steps of a command *)

\* The first free slot is taken.
LEMMA BeginStep ==
    ASSUME Inv, NEW kind, NEW todo \in Pages, Begin(kind, todo),
           kind = "flat" => Len(todo) <= MAX_IMAGE /\ \A i \in 1 .. Len(todo) : todo[i][1] = 0
    PROVE  Inv'
<1> DEFINE free == {p \in Proc : state[p] = "unused"}
           p == Lowest(free)
<1>1. p \in free
  BY LowestIsIn, Facts DEF Begin
<1> HIDE DEF p
<1>2. /\ At("idle") /\ p \in Proc /\ state[p] = "unused" /\ state' = [state EXCEPT ![p] = "ready"]
      /\ shell' = [pc |-> "dir", p |-> p, kind |-> kind, todo |-> todo]
      /\ UNCHANGED <<used, dir, low, tables, page, space, stack, image, elf, runs, task,
                     kstacks, kept>>
  BY <1>1 DEF Begin, p, spaces
<1>3. TypeOK'
  BY <1>2 DEF Inv, TypeOK
<1>4. Owned'
  BY <1>2, SameHolders, SMT DEF Inv, Owned
<1>5. SpaceInv'
  BY <1>2, SMT DEF Inv, SpaceInv, Empty, At
<1>6. Control' /\ Fresh' /\ Remaining'
  <2>1. Bare(p) /\ space[p] = 0 /\ Len(image[p]) = 0
    BY <1>2 DEF Inv, Control, Fresh, Remaining, Bare
  <2>2. Todo' = todo
    BY <1>2 DEF Todo, At
  <2>3. \A q \in Proc : state[q] # "ready"
    BY <1>2 DEF Inv, Control, Fresh, Remaining
  <2>4. \A q \in Proc : Bare(q)' = Bare(q)
    BY <1>2 DEF Bare
  <2>5. \A q \in Proc : state'[q] = IF q = p THEN "ready" ELSE state[q]
    BY <1>2 DEF Inv, TypeOK
  <2>6. Len(todo) \in Nat /\ Len(image'[p]) + Len(todo) = Len(todo)
    BY <1>2, <2>1, SMT DEF Pages
  <2> QED  BY <1>2, <2>1, <2>2, <2>3, <2>4, <2>5, <2>6, SMT DEF Inv, Control, Fresh, Remaining, At
<1>7. Isolation'
  BY <1>2 DEF Inv, Isolation, OfProcess
<1> QED  BY <1>3, <1>4, <1>5, <1>6, <1>7 DEF Inv

\* user_process_clear.
LEMMA ClearStep ==
    ASSUME Inv, NEW p \in Proc, Clear(p), ~At("low"), shell' = Idle,
           \A q \in Proc : state[q] = "ready" => q = p
    PROVE  Inv'
<1> DEFINE s == space[p]
           F == OfProcess(p) \cup (IF s = 0 THEN {} ELSE OfSpace(s))
           R == {<<"dir", s>>, <<"low", s>>, <<"stack", p>>}
                \cup {<<"table", <<s, d>>>> : d \in Pde}
                \cup {<<"image", p, i>> : i \in DOMAIN image[p]}
                \cup {<<"elf", p, i>> : i \in DOMAIN elf[p]}
<1>1. TypeOK /\ Owned /\ SpaceInv /\ Control /\ Fresh /\ Remaining /\ Isolation
  BY DEF Inv
<1>2. F \in SUBSET Frame
  BY <1>1, SMT DEF TypeOK, OfProcess, OfSpace, Frames
<1>3. /\ used' = used \ F
      /\ state' = [state EXCEPT ![p] = "unused"] /\ space' = [space EXCEPT ![p] = 0]
      /\ stack' = [stack EXCEPT ![p] = 0]
      /\ image' = [image EXCEPT ![p] = <<>>] /\ elf' = [elf EXCEPT ![p] = <<>>]
      /\ runs' = [runs EXCEPT ![p] = 0] /\ UNCHANGED <<task, kstacks, kept>>
  BY DEF Clear
<1>4. /\ dir' \in [Space -> Frame \cup {0}] /\ low' \in [Space -> Frame \cup {0}]
      /\ tables' \in [Space -> [Pde -> Frame \cup {0}]] /\ page' = [t \in Space |-> page'[t]]
  <2>1. CASE s = 0
    BY <1>1, <2>1, SMT DEF TypeOK, SpaceInv, Clear, spaces
  <2>2. CASE s # 0
    <3>1. /\ dir' = [dir EXCEPT ![s] = 0] /\ low' = [low EXCEPT ![s] = 0]
          /\ tables' = [tables EXCEPT ![s] = [d \in Pde |-> 0]]
          /\ page' = [page EXCEPT ![s] = [v \in {} |-> 0]]
      BY <2>2 DEF Clear
    <3>2. page' = [t \in Space |-> page'[t]]
      BY <1>1, <3>1 DEF SpaceInv
    <3> QED  BY <1>1, <3>1, <3>2 DEF TypeOK
  <2> QED  BY <2>1, <2>2
<1>5. ASSUME NEW t \in Space
      PROVE  /\ dir'[t] = IF t = s THEN 0 ELSE dir[t]
             /\ low'[t] = IF t = s THEN 0 ELSE low[t]
             /\ \A d \in Pde : tables'[t][d] = IF t = s THEN 0 ELSE tables[t][d]
             /\ page'[t] = IF t = s THEN [v \in {} |-> 0] ELSE page[t]
  BY <1>1, Facts, SMT DEF TypeOK, SpaceInv, Clear, spaces
<1> HIDE DEF F
<1>6. TypeOK'
  <2>1. ASSUME NEW t \in Space, NEW v \in DOMAIN page'[t]
        PROVE  page'[t][v] \in Frame
    <3>1. CASE t = s
      BY <1>5, <3>1
    <3>2. CASE t # s
      BY <1>1, <1>5, <3>2 DEF TypeOK
    <3> QED  BY <3>1, <3>2
  <2>2. /\ image' \in [Proc -> Seq(Frame)] /\ elf' \in [Proc -> Seq(Frame)]
        /\ \A q \in Proc : Len(image'[q]) <= MAX_IMAGE /\ Len(elf'[q]) <= MAX_ELF
    BY <1>1, <1>3, Facts, SMT DEF TypeOK
  <2> QED  BY <1>1, <1>2, <1>3, <1>4, <2>1, <2>2 DEF TypeOK
<1>7. Owned'
  <2>0. /\ stack'[p] = 0 /\ image'[p] = <<>> /\ elf'[p] = <<>>
        /\ \A q \in Proc \ {p} : /\ stack'[q] = stack[q]
                               /\ image'[q] = image[q] /\ elf'[q] = elf[q]
    BY <1>1, <1>3 DEF TypeOK
  <2>1. ASSUME NEW g \in Frame
        PROVE  Dirs(g)' = Dirs(g) \ R
    BY <1>5, SMT DEF Dirs, Frame
  <2>2. ASSUME NEW g \in Frame
        PROVE  Lows(g)' = Lows(g) \ R
    BY <1>5, SMT DEF Lows, Frame
  <2>3. ASSUME NEW g \in Frame
        PROVE  Tables(g)' = Tables(g) \ R
    BY <1>5, SMT DEF Tables, Frame
  <2>4. ASSUME NEW g \in Frame
        PROVE  Stacks(g)' = Stacks(g) \ R
    BY <2>0, Facts, SMT DEF Stacks
  <2>5. ASSUME NEW g \in Frame
        PROVE  ImageFrames(g)' = ImageFrames(g) \ R
    <3>1. ASSUME NEW q \in Proc, NEW i
          PROVE  (i \in DOMAIN image'[q] /\ image'[q][i] = g)
                    <=> (i \in DOMAIN image[q] /\ image[q][i] = g /\ q # p)
      BY <2>0, SMT
    <3>2. ASSUME NEW q \in Proc, NEW i \in DOMAIN image[q]
          PROVE  <<"image", q, i>> \in R <=> q = p
      BY SMT
    <3> HIDE DEF R
    <3> QED  BY <3>1, <3>2, SMT DEF ImageFrames
  <2>6. ASSUME NEW g \in Frame
        PROVE  ElfFrames(g)' = ElfFrames(g) \ R
    <3>1. ASSUME NEW q \in Proc, NEW i
          PROVE  (i \in DOMAIN elf'[q] /\ elf'[q][i] = g)
                    <=> (i \in DOMAIN elf[q] /\ elf[q][i] = g /\ q # p)
      BY <2>0, SMT
    <3>2. ASSUME NEW q \in Proc, NEW i \in DOMAIN elf[q]
          PROVE  <<"elf", q, i>> \in R <=> q = p
      BY SMT
    <3> HIDE DEF R
    <3> QED  BY <3>1, <3>2, SMT DEF ElfFrames
  <2>7. ASSUME NEW g \in Frame
        PROVE  KernelStacks(g)' = KernelStacks(g) \ R /\ Kept(g)' = Kept(g) \ R
    BY <1>3, SMT DEF KernelStacks, Kept
  <2>8. \A g \in Frame : Holders(g)' = Holders(g) \ R
    <3> HIDE DEF R
    <3> QED  BY <2>1, <2>2, <2>3, <2>4, <2>5, <2>6, <2>7, SMT DEF Holders
  <2>9. ASSUME NEW g \in F PROVE Holders(g) \cap R # {}
    <3>1. CASE g \in OfProcess(p)
      <4>1. CASE g = stack[p]
        BY <4>1 DEF Holders, Stacks
      <4>2. CASE \E i \in DOMAIN image[p] : g = image[p][i]
        <5>1. PICK i \in DOMAIN image[p] : g = image[p][i]
          BY <4>2
        <5>2. <<"image", p, i>> \in ImageFrames(g)
          BY <5>1, SMT DEF ImageFrames
        <5> QED  BY <5>2 DEF Holders
      <4>3. CASE \E i \in DOMAIN elf[p] : g = elf[p][i]
        <5>1. PICK i \in DOMAIN elf[p] : g = elf[p][i]
          BY <4>3
        <5>2. <<"elf", p, i>> \in ElfFrames(g)
          BY <5>1, SMT DEF ElfFrames
        <5> QED  BY <5>2 DEF Holders
      <4> QED  BY <3>1, <4>1, <4>2, <4>3 DEF OfProcess, Frames
    <3>2. CASE s # 0 /\ g \in OfSpace(s)
      <4>0. s \in Space
        BY <1>1, <3>2 DEF TypeOK
      <4>1. CASE g = dir[s]
        <5>1. <<"dir", s>> \in Dirs(g)
          BY <4>0, <4>1 DEF Dirs
        <5> QED  BY <5>1 DEF Holders
      <4>2. CASE g = low[s]
        <5>1. <<"low", s>> \in Lows(g)
          BY <4>0, <4>2 DEF Lows
        <5> QED  BY <5>1 DEF Holders
      <4>3. CASE \E d \in Pde : g = tables[s][d]
        <5>1. PICK d \in Pde : g = tables[s][d]
          BY <4>3
        <5>2. <<"table", <<s, d>>>> \in Tables(g)
          BY <4>0, <5>1 DEF Tables
        <5> QED  BY <5>2 DEF Holders
      <4> QED  BY <3>2, <4>1, <4>2, <4>3 DEF OfSpace
    <3> QED  BY <3>1, <3>2 DEF F
  <2>10. ASSUME NEW g \in Frame, NEW x \in Holders(g), x \in R PROVE g \in F
    <3>1. CASE x \in Dirs(g) \cup Lows(g)
      BY <2>10, <3>1, Facts, SMT DEF Dirs, Lows, F, OfSpace
    <3>2. CASE x \in Tables(g)
      BY <2>10, <3>2, Facts, SMT DEF Tables, F, OfSpace
    <3>3. CASE x \in Stacks(g)
      BY <2>10, <3>3, Facts, SMT DEF Stacks, F, OfProcess
    <3>4. CASE x \in ImageFrames(g)
      BY <2>10, <3>4, Facts, SMT DEF ImageFrames, F, OfProcess, Frames
    <3>5. CASE x \in ElfFrames(g)
      BY <2>10, <3>5, Facts, SMT DEF ElfFrames, F, OfProcess, Frames
    <3>6. CASE x \in KernelStacks(g) \cup Kept(g)
      BY <2>10, <3>6, SMT DEF KernelStacks, Kept
    <3> QED  BY <2>10, <3>1, <3>2, <3>3, <3>4, <3>5, <3>6 DEF Holders
  <2> HIDE DEF R
  <2>11. \A g \in Frame : g \in F <=> Holders(g) \cap R # {}
    BY <1>2, <2>9, <2>10
  <2> QED  BY <1>1, <1>2, <1>3, <2>8, <2>11, Released
<1> HIDE DEF R
<1>8. \A q \in Proc : space'[q] = IF q = p THEN 0 ELSE space[q]
  BY <1>1, <1>3 DEF TypeOK
<1>9. \A t \in Space : t = s => \A q \in Proc : space'[q] # t
  BY <1>1, <1>8, Facts, SMT DEF SpaceInv
<1>10. SpaceInv'
  <2>1. \A t \in Space : dir'[t] = 0 => Empty(t)'
    BY <1>1, <1>5, SMT DEF SpaceInv, Empty
  <2>2. \A q \in Proc : space'[q] # 0 => dir'[space'[q]] # 0
    BY <1>1, <1>5, <1>8, <1>9, SMT DEF SpaceInv, TypeOK
  <2>3. \A q, r \in Proc : space'[q] # 0 /\ space'[q] = space'[r] => q = r
    BY <1>1, <1>8 DEF SpaceInv
  <2>4. \A t \in Space : dir'[t] # 0 => \E q \in Proc : space'[q] = t
    BY <1>1, <1>5, <1>8, SMT DEF SpaceInv
  <2>5. ASSUME NEW t \in Space, NEW v \in DOMAIN page'[t]
        PROVE  v[1] \in 0 .. PDES
    <3>1. CASE t = s
      BY <1>5, <3>1
    <3>2. CASE t # s
      BY <1>1, <1>5, <3>2 DEF SpaceInv
    <3> QED  BY <3>1, <3>2
  <2> QED  BY <1>4, <2>1, <2>2, <2>3, <2>4, <2>5 DEF SpaceInv
<1>11. Control' /\ Fresh' /\ Remaining'
  <2>1. \A q \in Proc : state'[q] = IF q = p THEN "unused" ELSE state[q]
    BY <1>1, <1>3 DEF TypeOK
  <2>2. \A q \in Proc : Bare(q)' = (q = p \/ Bare(q))
    BY <1>1, <1>3 DEF TypeOK, Bare
  <2>3. \A q \in Proc : state'[q] = "unused" => space'[q] = 0 /\ Bare(q)'
    BY <1>1, <1>8, <2>1, <2>2 DEF Control, Fresh, Remaining
  <2>4. \A q \in Proc : state'[q] # "ready"
    BY <2>1
  <2> QED  BY <2>3, <2>4 DEF Control, Fresh, Remaining, Idle, At, Todo
<1>12. Isolation'
  <2> SUFFICES ASSUME NEW q \in Proc, space'[q] # 0
               PROVE  /\ \A r \in Proc \ {q} : space'[r] # space'[q]
                      /\ \A v \in DOMAIN page'[space'[q]] :
                            /\ page'[space'[q]][v] \in OfProcess(q)'
                            /\ v[1] = 0 \/ tables'[space'[q]][v[1]] # 0
    BY DEF Isolation
  <2>1. q # p /\ space'[q] = space[q] /\ space[q] \in Space /\ space[q] # s
    BY <1>1, <1>8, <1>9 DEF TypeOK
  <2>2. page'[space[q]] = page[space[q]] /\ tables'[space[q]] = tables[space[q]]
    BY <1>1, <1>4, <1>5, <2>1, SMT DEF TypeOK
  <2>3. OfProcess(q)' = OfProcess(q)
    BY <1>1, <1>3, <2>1, SMT DEF TypeOK, OfProcess, Frames
  <2>4. \A r \in Proc \ {q} : space'[r] # space'[q]
    BY <1>10 DEF SpaceInv
  <2> QED  BY <1>1, <2>1, <2>2, <2>3, <2>4 DEF Isolation
<1> QED  BY <1>6, <1>7, <1>10, <1>11, <1>12 DEF Inv

\* A loader fails: everything its process had is given back.
LEMMA FailStep ==
    ASSUME Inv, shell.pc \in {"dir", "none", "stack", "pages"}, Fail
    PROVE  Inv'
<1>1. shell.p \in Proc /\ ~At("low") /\ \A q \in Proc : state[q] = "ready" => q = shell.p
  BY DEF Inv, Control, Fresh, Remaining, At
<1> QED  BY <1>1, ClearStep DEF Fail

\* alloc_frame returns a frame that was free, and marks it.
LEMMA AllocFrame ==
    ASSUME TypeOK, NEW f \in Frame \cup {0}, alloc_frame(f)
    PROVE  IF f = 0 THEN used' = used ELSE f \in Frame \ used /\ used' = used \cup {f}
<1>1. CASE used = Frame
  BY <1>1 DEF alloc_frame
<1>2. CASE used # Frame
  <2>1. Frame \ used # {} /\ Frame \ used \in SUBSET Nat
    BY <1>2, Facts DEF TypeOK
  <2>2. f = Lowest(Frame \ used)
    BY <1>2 DEF alloc_frame
  <2>3. f \in Frame \ used
    BY <2>1, <2>2, LowestIsIn
  <2> QED  BY <2>3, Facts DEF alloc_frame
<1> QED  BY <1>1, <1>2

\* address_space_map_page puts a page of the process itself into its own
\* address space.
LEMMA Mapped ==
    ASSUME Inv, ~At("low"), NEW p \in Proc, space[p] # 0, NEW v, v[1] \in 0 .. PDES,
           NEW f \in Frame, Map(space[p], v, f), UNCHANGED <<dir, low, space>>,
           tables' \in [Space -> [Pde -> Frame \cup {0}]],
           \A t \in Space, d \in Pde : tables[t][d] # 0 => tables'[t][d] # 0,
           \A t \in Space, d \in Pde : t # space[p] => tables'[t][d] = tables[t][d],
           v[1] = 0 \/ tables'[space[p]][v[1]] # 0,
           f \in OfProcess(p)', \A q \in Proc : OfProcess(q) \subseteq OfProcess(q)'
    PROVE  /\ \A t \in Space : \A w \in DOMAIN page'[t] : page'[t][w] \in Frame
           /\ SpaceInv' /\ Isolation'
<1> DEFINE s == space[p]
<1>1. TypeOK /\ SpaceInv /\ Isolation /\ s \in Space
  BY DEF Inv, TypeOK
<1>2. page' = [t \in Space |-> page'[t]]
  BY <1>1 DEF SpaceInv, Map
<1>3. \A t \in Space : t # s => page'[t] = page[t]
  BY <1>1 DEF SpaceInv, Map
<1>4. page'[s] = [w \in DOMAIN page[s] \cup {v} |-> IF w = v THEN f ELSE page[s][w]]
  BY <1>1 DEF SpaceInv, Map
<1>5. /\ DOMAIN page'[s] = DOMAIN page[s] \cup {v}
      /\ \A w \in DOMAIN page'[s] : page'[s][w] = IF w = v THEN f ELSE page[s][w]
  BY <1>4
<1> HIDE DEF s
<1>6. ASSUME NEW t \in Space, NEW w \in DOMAIN page'[t]
      PROVE  page'[t][w] \in Frame /\ w[1] \in 0 .. PDES
  <2>1. CASE t = s /\ w = v
    BY <1>5, <2>1
  <2>2. CASE t = s /\ w # v
    <3>1. w \in DOMAIN page[s] /\ page'[s][w] = page[s][w]
      BY <1>5, <2>2
    <3> QED  BY <1>1, <2>2, <3>1 DEF TypeOK, SpaceInv
  <2>3. CASE t # s
    BY <1>1, <1>3, <2>3 DEF TypeOK, SpaceInv
  <2> QED  BY <2>1, <2>2, <2>3
<1>7. SpaceInv'
  <2>1. dir[s] # 0
    BY <1>1 DEF SpaceInv, s
  <2>2. ASSUME NEW t \in Space, dir'[t] = 0 PROVE Empty(t)'
    <3>1. t # s /\ dir[t] = 0
      BY <2>1, <2>2
    <3>2. Empty(t) /\ page'[t] = page[t]
      BY <1>1, <1>3, <3>1 DEF SpaceInv
    <3>3. \A d \in Pde : tables'[t][d] = tables[t][d]
      BY <3>1 DEF s
    <3> QED  BY <3>2, <3>3 DEF Empty
  <2> QED  BY <1>1, <1>2, <1>6, <2>2 DEF SpaceInv
<1>8. Isolation'
  <2> SUFFICES ASSUME NEW q \in Proc, space[q] # 0, NEW w \in DOMAIN page'[space[q]]
               PROVE  /\ page'[space[q]][w] \in OfProcess(q)'
                      /\ w[1] = 0 \/ tables'[space[q]][w[1]] # 0
    BY <1>1 DEF Isolation
  <2>1. space[q] \in Space /\ (w[1] = 0 \/ w[1] \in Pde)
    <3>1. space[q] \in Space
      BY <1>1, SMT DEF TypeOK
    <3>2. w[1] \in 0 .. PDES
      BY <1>6, <3>1
    <3> QED  BY <3>1, <3>2, Facts, SMT DEF Pde
  <2>2. CASE q = p /\ w = v
    BY <1>5, <2>2 DEF s
  <2>3. CASE q = p /\ w # v
    <3>1. w \in DOMAIN page[s] /\ page'[s][w] = page[s][w]
      BY <1>5, <2>3 DEF s
    <3>2. page[s][w] \in OfProcess(p) /\ (w[1] = 0 \/ tables[s][w[1]] # 0)
      BY <1>1, <3>1 DEF Isolation, s
    <3> QED  BY <2>1, <2>3, <3>1, <3>2 DEF s
  <2>4. CASE q # p
    <3>1. space[q] # s /\ page'[space[q]] = page[space[q]]
      BY <1>1, <1>3, <2>1, <2>4 DEF SpaceInv, s
    <3>2. page[space[q]][w] \in OfProcess(q) /\ (w[1] = 0 \/ tables[space[q]][w[1]] # 0)
      BY <1>1, <3>1 DEF Isolation
    <3> QED  BY <2>1, <3>1, <3>2
  <2> QED  BY <2>2, <2>3, <2>4
<1> QED  BY <1>6, <1>7, <1>8

\* paging_create_user_space takes the page directory.
LEMMA CreateDirStep ==
    ASSUME Inv, CreateDir
    PROVE  Inv'
<1>1. CASE Fail
  BY <1>1, FailStep DEF CreateDir, At
<1>2. CASE ~Fail
  <2>1. FreeSpaces # {} /\ FreeSpaces \in SUBSET Nat
    BY <1>2, Facts DEF CreateDir, FreeSpaces
  <2>2. PICK s \in Space : s = Lowest(FreeSpaces) /\ dir[s] = 0
    BY <2>1, LowestIsIn DEF FreeSpaces
  <2>3. PICK f \in Frame :
          /\ alloc_frame(f) /\ dir' = [dir EXCEPT ![s] = f]
          /\ shell' = [shell EXCEPT !.pc = "low", !.todo = <<s, @>>]
          /\ UNCHANGED <<low, tables, page, procs, task, kstacks, kept>>
    BY <1>2, <2>2 DEF CreateDir
  <2>4. UNCHANGED <<low, tables, page, state, space, stack, image, elf, runs, task, kstacks, kept>>
    BY <2>3 DEF procs
  <2>5. TypeOK /\ Owned /\ SpaceInv /\ Control /\ Fresh /\ Remaining /\ Isolation /\ shell.pc = "dir"
    BY DEF Inv, CreateDir, At
  <2>6. f \in Frame \ used /\ used' = used \cup {f}
    BY <2>3, <2>5, AllocFrame, Facts
  <2>7. shell' = [pc |-> "low", p |-> shell.p, kind |-> shell.kind, todo |-> <<s, shell.todo>>]
    BY <2>3, <2>5 DEF Control, Fresh, Remaining
  <2>8. \A t \in Space : dir'[t] = IF t = s THEN f ELSE dir[t]
    BY <2>2, <2>3, <2>5 DEF TypeOK
  <2>9. TypeOK'
    BY <2>2, <2>3, <2>4, <2>5, <2>6 DEF TypeOK
  <2>10. Owned'
    <3>1. \A g \in Frame : Holders(g)' = Holders(g) \cup (IF g = f THEN {<<"dir", s>>} ELSE {})
      BY <2>2, <2>3, <2>4, <2>5, SetDir
    <3> QED  BY <2>5, <2>6, <3>1, GainedOne
  <2>11. SpaceInv'
    BY <2>2, <2>4, <2>5, <2>7, <2>8, Facts, SMT DEF SpaceInv, Empty, At, TypeOK
  <2>12. Control' /\ Fresh' /\ Remaining'
    <3>1. Todo' = shell.todo /\ Todo = shell.todo
      BY <2>5, <2>7 DEF Todo, At
    <3>2. Empty(s)' /\ dir'[s] # 0
      <4>1. Empty(s)
        BY <2>2, <2>5 DEF SpaceInv
      <4>2. Empty(s)' = Empty(s)
        BY <2>4 DEF Empty
      <4> QED  BY <2>2, <2>8, <4>1, <4>2, Facts
    <3>3. \A q \in Proc : space'[q] # s
      BY <2>2, <2>4, <2>5, Facts DEF SpaceInv
    <3>4. \A q \in Proc : Bare(q)' = Bare(q)
      BY <2>4 DEF Bare
    <3>10. Control'
      BY <2>4, <2>5, <2>7, <3>4 DEF Control, At
    <3>11. Fresh'
      BY <2>2, <2>7, <3>2, <3>3 DEF Fresh, At
    <3>12. Remaining'
      BY <2>4, <2>5, <2>7, <3>1 DEF Remaining, At
    <3> QED  BY <3>10, <3>11, <3>12
  <2>13. Isolation'
    BY <2>4, <2>5 DEF Isolation, OfProcess
  <2> QED  BY <2>9, <2>10, <2>11, <2>12, <2>13 DEF Inv
<1> QED  BY <1>1, <1>2

\* address_space_create_user gives the directory back when there is no
\* frame for the low table; otherwise the process gets the address space.
LEMMA CreateLowStep ==
    ASSUME Inv, CreateLow
    PROVE  Inv'
<1> DEFINE s == shell.todo[1]
           p == shell.p
<1>1. /\ TypeOK /\ Owned /\ SpaceInv /\ Control /\ Fresh /\ Remaining /\ Isolation /\ shell.pc = "low"
      /\ s \in Space /\ dir[s] # 0 /\ Empty(s) /\ p \in Proc /\ space[p] = 0 /\ Bare(p)
      /\ state[p] = "ready" /\ \A q \in Proc : space[q] # s
  BY DEF Inv, CreateLow, At, Control, Fresh, Remaining
<1> HIDE DEF s, p
<1>2. ASSUME /\ used = Frame /\ used' = used \ {dir[s]} /\ dir' = [dir EXCEPT ![s] = 0]
             /\ shell' = [shell EXCEPT !.pc = "none", !.todo = <<>>]
             /\ UNCHANGED <<low, tables, page, state, space, stack, image, elf, runs, task,
                            kstacks, kept>>
      PROVE  Inv'
  <2>1. shell' = [pc |-> "none", p |-> shell.p, kind |-> shell.kind, todo |-> <<>>]
    BY <1>1, <1>2 DEF Control, Fresh, Remaining
  <2>2. \A t \in Space : dir'[t] = IF t = s THEN 0 ELSE dir[t]
    BY <1>1, <1>2 DEF TypeOK
  <2>3. TypeOK'
    BY <1>1, <1>2 DEF TypeOK
  <2>4. Owned'
    <3> DEFINE R == {<<"dir", s>>}
    <3>1. ASSUME NEW g \in Frame PROVE Dirs(g)' = Dirs(g) \ R
      BY <2>2, SMT DEF Dirs, Frame
    <3>2. ASSUME NEW g \in Frame
          PROVE  /\ Lows(g)' = Lows(g) \ R /\ Tables(g)' = Tables(g) \ R
                 /\ Stacks(g)' = Stacks(g) \ R /\ KernelStacks(g)' = KernelStacks(g) \ R
                 /\ Kept(g)' = Kept(g) \ R
      BY <1>2, SMT DEF Lows, Tables, Stacks, KernelStacks, Kept
    <3>3. ASSUME NEW g \in Frame
          PROVE  ImageFrames(g)' = ImageFrames(g) \ R /\ ElfFrames(g)' = ElfFrames(g) \ R
      BY <1>2, SMT DEF ImageFrames, ElfFrames
    <3>4. ASSUME NEW g \in Frame
          PROVE  g \in {dir[s]} <=> Holders(g) \cap R # {}
      <4>1. <<"dir", s>> \in Holders(g) <=> <<"dir", s>> \in Dirs(g)
        BY SMT DEF Holders, Lows, Tables, Stacks, ImageFrames, ElfFrames, KernelStacks, Kept
      <4> QED  BY <1>1, <4>1 DEF Dirs
    <3> HIDE DEF R
    <3>5. \A g \in Frame : Holders(g)' = Holders(g) \ R
      BY <3>1, <3>2, <3>3, SMT DEF Holders
    <3>6. {dir[s]} \in SUBSET Frame
      BY <1>1 DEF TypeOK
    <3> QED  BY <1>1, <1>2, <3>4, <3>5, <3>6, Released
  <2>5. SpaceInv'
    <3>1. \A t \in Space : dir'[t] = 0 => Empty(t)'
      BY <1>1, <1>2, <2>2, SMT DEF SpaceInv, Empty
    <3>2. \A q \in Proc : space'[q] # 0 => dir'[space'[q]] # 0
      BY <1>1, <1>2, <2>2, SMT DEF SpaceInv, TypeOK
    <3>3. \A t \in Space : dir'[t] # 0 => \E q \in Proc : space'[q] = t
      BY <1>1, <1>2, <2>2 DEF SpaceInv, s
    <3> QED  BY <1>1, <1>2, <3>1, <3>2, <3>3, SMT DEF SpaceInv
  <2>6. Control' /\ Fresh' /\ Remaining'
    <3>1. Todo' = <<>> /\ <<>> \in Pages /\ Len(<<>>) = 0
      BY <2>1, SMT DEF Todo, At, Pages
    <3>2. Len(image'[p]) <= MAX_IMAGE /\ Len(image'[p]) \in Nat
      BY <1>1, <1>2, SMT DEF TypeOK
    <3>3. \A q \in Proc : Bare(q)' = Bare(q)
      BY <1>2 DEF Bare
    <3>10. Control'
      BY <1>1, <1>2, <2>1, <3>3 DEF Control, At, p
    <3>11. Fresh'
      BY <2>1 DEF Fresh, At
    <3>12. Remaining'
      BY <2>1, <3>1, <3>2, SMT DEF Remaining, At, p
    <3> QED  BY <3>10, <3>11, <3>12
  <2>7. Isolation'
    BY <1>1, <1>2, SMT DEF Isolation, OfProcess
  <2> QED  BY <2>3, <2>4, <2>5, <2>6, <2>7 DEF Inv
<1>3. ASSUME NEW f \in Frame, alloc_frame(f), low' = [low EXCEPT ![s] = f],
             space' = [space EXCEPT ![p] = s],
             shell' = [shell EXCEPT !.pc = IF shell.kind = "check" THEN "pages" ELSE "stack",
                                    !.todo = @[2]],
             UNCHANGED <<dir, tables, page, state, stack, image, elf, runs, task, kstacks, kept>>
      PROVE  Inv'
  <2>1. shell' = [pc |-> IF shell.kind = "check" THEN "pages" ELSE "stack",
                  p |-> shell.p, kind |-> shell.kind, todo |-> shell.todo[2]]
    BY <1>1, <1>3 DEF Control, Fresh, Remaining
  <2>2. f \in Frame \ used /\ used' = used \cup {f}
    BY <1>1, <1>3, AllocFrame, Facts
  <2>3. low[s] = 0 /\ \A t \in Space : low'[t] = IF t = s THEN f ELSE low[t]
    BY <1>1, <1>3 DEF TypeOK, Empty
  <2>4. \A q \in Proc : space'[q] = IF q = p THEN s ELSE space[q]
    BY <1>1, <1>3 DEF TypeOK
  <2>5. TypeOK'
    BY <1>1, <1>3, <2>2 DEF TypeOK
  <2>6. Owned'
    <3>1. \A g \in Frame : Holders(g)' = Holders(g) \cup (IF g = f THEN {<<"low", s>>} ELSE {})
      BY <1>1, <1>3, <2>3, SetLow
    <3> QED  BY <1>1, <2>2, <3>1, GainedOne
  <2>7. SpaceInv'
    BY <1>1, <1>3, <2>3, <2>4, Facts, SMT DEF SpaceInv, Empty, s
  <2>8. Control' /\ Fresh' /\ Remaining'
    <3>1. Todo' = shell.todo[2] /\ Todo = shell.todo[2]
      BY <1>1, <2>1 DEF Todo, At
    <3>2. \A q \in Proc : Bare(q)' = Bare(q)
      BY <1>3 DEF Bare
    <3>3. /\ shell'.pc \in {"pages", "stack"} /\ shell'.p = shell.p
          /\ shell' = [pc |-> shell'.pc, p |-> shell'.p, kind |-> shell'.kind, todo |-> shell'.todo]
      BY <2>1
    <3>4. /\ shell.p \in Proc /\ state[shell.p] = "ready" /\ Bare(shell.p) /\ s # 0
          /\ \A q \in Proc : state[q] = "ready" => q = shell.p
          /\ \A q \in Proc : state[q] = "unused" => space[q] = 0 /\ Bare(q)
      BY <1>1, Facts DEF Control, At
    <3>5. state' = state /\ \A q \in Proc : q # shell.p => space'[q] = space[q]
      BY <1>3, <2>4 DEF p
    <3>6. space'[shell.p] = s
      BY <2>4, <3>4 DEF p
    <3>10. Control'
      BY <3>2, <3>3, <3>4, <3>5, <3>6 DEF Control, At
    <3>11. Fresh'
      BY <2>1 DEF Fresh, At
    <3>12. Remaining'
      BY <1>1, <1>3, <2>1, <3>1 DEF Remaining, At
    <3> QED  BY <3>10, <3>11, <3>12
  <2>9. Isolation'
    BY <1>1, <1>3, <2>4, SMT DEF Isolation, OfProcess, Empty
  <2> QED  BY <2>5, <2>6, <2>7, <2>8, <2>9 DEF Inv
<1> QED  BY <1>2, <1>3 DEF CreateLow, Undo, procs, s, p

\* Where a command is before it maps a page.
LEMMA AtPages ==
    ASSUME Inv, shell.pc \in {"stack", "pages"}
    PROVE  /\ TypeOK /\ Owned /\ SpaceInv /\ Control /\ Remaining /\ Isolation
           /\ ~At("low") /\ ~At("idle") /\ shell.p \in Proc
           /\ space[shell.p] # 0 /\ space[shell.p] \in Space
           /\ shell = [pc |-> shell.pc, p |-> shell.p, kind |-> shell.kind, todo |-> shell.todo]
           /\ shell.todo \in Pages /\ Todo = shell.todo
BY DEF Inv, Control, Remaining, At, TypeOK, Todo

\* The rest of the pages after the first.
LEMMA TailPages ==
    ASSUME NEW todo \in Pages, todo # <<>>
    PROVE  /\ Head(todo) = todo[1] /\ Head(todo)[1] \in 0 .. PDES
           /\ Len(todo) \in Nat \ {0} /\ Tail(todo) \in Pages /\ Len(Tail(todo)) = Len(todo) - 1
           /\ \A i \in 1 .. Len(Tail(todo)) : i + 1 \in 1 .. Len(todo) /\ Tail(todo)[i] = todo[i + 1]
BY SMT DEF Pages

\* One frame more.
LEMMA AppendFrame ==
    ASSUME NEW seq \in Seq(Frame), NEW f \in Frame
    PROVE  /\ Append(seq, f) \in Seq(Frame) /\ Len(seq) \in Nat
           /\ Len(Append(seq, f)) = Len(seq) + 1
           /\ Frames(Append(seq, f)) = Frames(seq) \cup {f}
<1>1. /\ Append(seq, f) \in Seq(Frame) /\ Len(seq) \in Nat
      /\ Len(Append(seq, f)) = Len(seq) + 1
      /\ DOMAIN seq = 1 .. Len(seq) /\ DOMAIN Append(seq, f) = 1 .. Len(seq) + 1
      /\ Append(seq, f)[Len(seq) + 1] = f
      /\ \A i \in 1 .. Len(seq) : Append(seq, f)[i] = seq[i]
  BY SMT
<1>2. Frames(Append(seq, f)) \subseteq Frames(seq) \cup {f}
  <2>1. ASSUME NEW i \in 1 .. Len(seq) + 1 PROVE Append(seq, f)[i] \in Frames(seq) \cup {f}
    <3>1. CASE i = Len(seq) + 1
      BY <1>1, <3>1
    <3>2. CASE i # Len(seq) + 1
      BY <1>1, <3>2, SMT DEF Frames
    <3> QED  BY <3>1, <3>2
  <2> QED  BY <1>1, <2>1 DEF Frames
<1>3. Frames(seq) \subseteq Frames(Append(seq, f))
  BY <1>1, SMT DEF Frames
<1>4. f \in Frames(Append(seq, f))
  BY <1>1, SMT DEF Frames
<1> QED  BY <1>1, <1>2, <1>3, <1>4

\* The stack of a flat program is mapped.
LEMMA MapStackStep ==
    ASSUME Inv, MapStack
    PROVE  Inv'
<1>1. CASE Fail
  BY <1>1, FailStep DEF MapStack, At
<1>2. CASE ~Fail
  <2>0. shell.pc = "stack"
    BY DEF MapStack, At
  <2>1. PICK p \in Proc : p = shell.p
    BY <2>0, AtPages
  <2>2. PICK f \in Frame :
          /\ alloc_frame(f) /\ Map(space[p], StackPage, f)
          /\ stack' = [stack EXCEPT ![p] = f]
          /\ shell' = [shell EXCEPT !.pc = "pages"]
          /\ UNCHANGED <<dir, low, tables, state, space, image, elf, runs, task, kstacks, kept>>
    BY <1>2, <2>1 DEF MapStack, Go
  <2>3. /\ TypeOK /\ Owned /\ SpaceInv /\ Control /\ Remaining /\ Isolation /\ ~At("low")
        /\ space[p] # 0 /\ Bare(p) /\ Todo = shell.todo
    BY <2>0, <2>1, AtPages DEF Control
  <2>4. f \in Frame \ used /\ used' = used \cup {f}
    BY <2>2, <2>3, AllocFrame, Facts
  <2>5. shell' = [pc |-> "pages", p |-> p, kind |-> shell.kind, todo |-> shell.todo]
    BY <2>0, <2>1, <2>2, AtPages
  <2>6. \A q \in Proc : stack'[q] = IF q = p THEN f ELSE stack[q]
    BY <2>2, <2>3 DEF TypeOK
  <2>7. f \in OfProcess(p)' /\ \A q \in Proc : OfProcess(q) \subseteq OfProcess(q)'
    BY <2>2, <2>3, <2>6, Facts DEF OfProcess, Bare
  <2>8. /\ \A t \in Space : \A w \in DOMAIN page'[t] : page'[t][w] \in Frame
        /\ SpaceInv' /\ Isolation'
    <3>1. StackPage[1] = 0 /\ StackPage[1] \in 0 .. PDES
      BY Facts, SMT DEF StackPage
    <3>2. tables' \in [Space -> [Pde -> Frame \cup {0}]]
      BY <2>2, <2>3 DEF TypeOK
    <3> QED  BY <2>2, <2>3, <2>7, <3>1, <3>2, Mapped
  <2>9. TypeOK'
    BY <2>2, <2>3, <2>4, <2>8 DEF TypeOK
  <2>10. Owned'
    <3>1. \A g \in Frame : Holders(g)' = Holders(g) \cup (IF g = f THEN {<<"stack", p>>} ELSE {})
      BY <2>2, <2>3, SetStack DEF Bare
    <3> QED  BY <2>3, <2>4, <3>1, GainedOne
  <2>11. Control'
    <3>1. \A q \in Proc : q # p => Bare(q)' = Bare(q)
      BY <2>2, <2>6 DEF Bare
    <3>2. state[p] = "ready"
      BY <2>0, <2>1, <2>3 DEF Control, At
    <3> QED  BY <2>0, <2>1, <2>2, <2>3, <2>5, <3>1, <3>2 DEF Control, At
  <2>12. Fresh'
    BY <2>5 DEF Fresh, At
  <2>13. Remaining'
    <3>1. Todo' = shell.todo
      BY <2>5 DEF Todo, At
    <3> QED  BY <2>0, <2>1, <2>2, <2>3, <2>5, <3>1 DEF Remaining, At
  <2> QED  BY <2>8, <2>9, <2>10, <2>11, <2>12, <2>13 DEF Inv
<1> QED  BY <1>1, <1>2

\* A page of a flat image is mapped.
LEMMA MapImageStep ==
    ASSUME Inv, MapImage
    PROVE  Inv'
<1>1. CASE Fail
  BY <1>1, FailStep DEF MapImage, At
<1>2. CASE ~Fail
  <2>0. shell.pc = "pages" /\ shell.kind = "flat" /\ shell.todo # <<>>
    BY DEF MapImage, At
  <2>1. PICK p \in Proc : p = shell.p
    BY <2>0, AtPages
  <2>2. PICK f \in Frame :
          /\ alloc_frame(f) /\ Map(space[p], Head(shell.todo), f)
          /\ image' = [image EXCEPT ![p] = Append(@, f)]
          /\ shell' = [shell EXCEPT !.todo = Tail(@)]
          /\ UNCHANGED <<dir, low, tables, state, space, stack, elf, runs, task, kstacks, kept>>
    BY <1>2, <2>1 DEF MapImage
  <2>3. /\ TypeOK /\ Owned /\ SpaceInv /\ Control /\ Remaining /\ Isolation /\ ~At("low")
        /\ space[p] # 0 /\ Todo = shell.todo /\ shell.todo \in Pages
    BY <2>0, <2>1, AtPages
  <2>4. f \in Frame \ used /\ used' = used \cup {f}
    BY <2>2, <2>3, AllocFrame, Facts
  <2>5. shell' = [pc |-> "pages", p |-> p, kind |-> "flat", todo |-> Tail(shell.todo)]
    BY <2>0, <2>1, <2>2, AtPages
  <2>6. /\ Head(shell.todo) = shell.todo[1] /\ Len(shell.todo) \in Nat \ {0}
        /\ Tail(shell.todo) \in Pages /\ Len(Tail(shell.todo)) = Len(shell.todo) - 1
        /\ \A i \in 1 .. Len(Tail(shell.todo)) :
              i + 1 \in 1 .. Len(shell.todo) /\ Tail(shell.todo)[i] = shell.todo[i + 1]
    BY <2>0, <2>3, TailPages
  <2>7. /\ Len(image[p]) + Len(shell.todo) <= MAX_IMAGE
        /\ \A i \in 1 .. Len(shell.todo) : shell.todo[i][1] = 0
    BY <2>0, <2>1, <2>3 DEF Remaining, At
  <2>8. /\ image' \in [Proc -> Seq(Frame)] /\ Len(image[p]) \in Nat
        /\ Len(image'[p]) = Len(image[p]) + 1
        /\ \A q \in Proc : q # p => image'[q] = image[q]
        /\ Frames(image'[p]) = Frames(image[p]) \cup {f}
    <3>1. image[p] \in Seq(Frame) /\ image'[p] = Append(image[p], f)
      BY <2>2, <2>3 DEF TypeOK
    <3>2. Append(image[p], f) \in Seq(Frame)
      BY <3>1, AppendFrame
    <3>3. image' \in [Proc -> Seq(Frame)] /\ \A q \in Proc : q # p => image'[q] = image[q]
      BY <2>2, <2>3, <3>2 DEF TypeOK
    <3> QED  BY <3>1, <3>3, AppendFrame
  <2>9. f \in OfProcess(p)' /\ \A q \in Proc : OfProcess(q) \subseteq OfProcess(q)'
    <3>1. ASSUME NEW q \in Proc PROVE Frames(image[q]) \subseteq Frames(image'[q])
      BY <2>8
    <3>2. f \in Frames(image'[p])
      BY <2>8
    <3> QED  BY <2>2, <3>1, <3>2, Facts DEF OfProcess
  <2>10. /\ \A t \in Space : \A w \in DOMAIN page'[t] : page'[t][w] \in Frame
         /\ SpaceInv' /\ Isolation'
    <3>1. Head(shell.todo)[1] = 0 /\ Head(shell.todo)[1] \in 0 .. PDES
      BY <2>6, <2>7, Facts, SMT
    <3>2. tables' \in [Space -> [Pde -> Frame \cup {0}]]
      BY <2>2, <2>3 DEF TypeOK
    <3> QED  BY <2>2, <2>3, <2>9, <3>1, <3>2, Mapped
  <2>11. TypeOK'
    <3>1. \A q \in Proc : Len(image'[q]) <= MAX_IMAGE
      BY <2>3, <2>6, <2>7, <2>8, Facts, SMT DEF TypeOK
    <3> QED  BY <2>2, <2>3, <2>4, <2>8, <2>10, <3>1 DEF TypeOK
  <2>12. Owned'
    <3>1. \A g \in Frame : Holders(g)' = Holders(g)
             \cup (IF g = f THEN {<<"image", p, Len(image[p]) + 1>>} ELSE {})
      BY <2>2, <2>3, <2>10, AddImage
    <3> QED  BY <2>3, <2>4, <3>1, GainedOne
  <2>13. Control'
    <3>1. \A q \in Proc : q # p => Bare(q)' = Bare(q)
      BY <2>2, <2>8 DEF Bare
    <3>2. state[p] = "ready"
      BY <2>0, <2>1, <2>3 DEF Control, At
    <3> QED  BY <2>0, <2>1, <2>2, <2>3, <2>5, <3>1, <3>2 DEF Control, At
  <2>14. Fresh'
    BY <2>5 DEF Fresh, At
  <2>15. Remaining'
    <3>1. Todo' = Tail(shell.todo)
      BY <2>5 DEF Todo, At
    <3>2. Len(image'[p]) + Len(Tail(shell.todo)) <= MAX_IMAGE
      <4> DEFINE a == Len(image[p])
                 b == Len(shell.todo)
                 c == Len(image'[p])
                 d == Len(Tail(shell.todo))
      <4>1. /\ a \in Nat /\ b \in Nat /\ a + b <= MAX_IMAGE /\ MAX_IMAGE \in Nat
            /\ c = a + 1 /\ d = b - 1
        BY <2>6, <2>7, <2>8, Facts
      <4> HIDE DEF a, b, c, d
      <4>2. c + d <= MAX_IMAGE
        BY <4>1, SMT
      <4> QED  BY <4>2 DEF c, d
    <3>3. \A i \in 1 .. Len(Tail(shell.todo)) : Tail(shell.todo)[i][1] = 0
      BY <2>6, <2>7
    <3> QED  BY <2>5, <2>6, <3>1, <3>2, <3>3 DEF Remaining
  <2> QED  BY <2>10, <2>11, <2>12, <2>13, <2>14, <2>15 DEF Inv
<1> QED  BY <1>1, <1>2

\* Two free frames: one for the page, another for its table.
LEMMA TwoFree ==
    ASSUME TypeOK, NEW free, free = Frame \ used, Cardinality(free) >= 1
    PROVE  /\ Lowest(free) \in free
           /\ Cardinality(free) >= 2 => Lowest(free \ {Lowest(free)}) \in free \ {Lowest(free)}
<1>1. IsFiniteSet(Frame)
  BY MemoryAssumption, FS_Interval, SMT DEF Frame
<1>2. IsFiniteSet(free) /\ free \in SUBSET Nat
  BY <1>1, FS_Subset, Facts
<1>3. free # {}
  BY FS_EmptySet, SMT
<1>4. Lowest(free) \in free
  BY <1>2, <1>3, LowestIsIn
<1>5. ASSUME Cardinality(free) >= 2
      PROVE  Lowest(free \ {Lowest(free)}) \in free \ {Lowest(free)}
  <2>1. Cardinality(free \ {Lowest(free)}) = Cardinality(free) - 1
    BY <1>2, <1>4, FS_RemoveElement
  <2>2. Cardinality(free) \in Nat
    BY <1>2, FS_CardinalityType
  <2>3. free \ {Lowest(free)} # {}
    BY <1>5, <2>1, <2>2, FS_EmptySet, SMT
  <2> QED  BY <1>2, <2>3, LowestIsIn
<1> QED  BY <1>4, <1>5

\* A page of an ELF program is mapped.
LEMMA MapElfStep ==
    ASSUME Inv, MapElf
    PROVE  Inv'
<1>1. CASE Fail
  BY <1>1, FailStep DEF MapElf, At
<1>2. CASE ~Fail
  <2>0. shell.pc = "pages" /\ shell.kind # "flat" /\ shell.todo # <<>>
    BY DEF MapElf, At
  <2>1. PICK p \in Proc, s \in Space : p = shell.p /\ s = space[p]
    BY <2>0, AtPages
  <2>2. PICK v : v = Head(shell.todo)
    OBVIOUS
  <2>3. /\ TypeOK /\ Owned /\ SpaceInv /\ Control /\ Remaining /\ Isolation /\ ~At("low")
        /\ space[p] # 0 /\ Todo = shell.todo /\ shell.todo \in Pages
    BY <2>0, <2>1, AtPages
  <2>4. v[1] \in 0 .. PDES /\ Tail(shell.todo) \in Pages /\ (v[1] # 0 => v[1] \in Pde)
    BY <2>0, <2>2, <2>3, TailPages, Facts, SMT DEF Pde
  <2> DEFINE missing == v[1] # 0 /\ tables[s][v[1]] = 0
  <2> DEFINE Taken(m, n) ==
                /\ ~TooMany(p) /\ Map(s, v, m)
                /\ missing => n \in Frame \ used /\ m # n
                /\ used' = used \cup (IF missing THEN {m, n} ELSE {m})
                /\ tables' = IF missing THEN [tables EXCEPT ![s][v[1]] = n] ELSE tables
                /\ elf' = [elf EXCEPT ![p] = Append(@, m)]
                /\ shell' = [shell EXCEPT !.todo = Tail(@)]
                /\ UNCHANGED <<dir, low, state, space, stack, image, runs, task, kstacks, kept>>
  <2>41. PICK f \in Frame \ used : \E g : Taken(f, g)
    <3> DEFINE free == Frame \ used
               f == Lowest(free)
               g == Lowest(free \ {f})
    <3>1. /\ ~TooMany(p) /\ Map(s, v, f)
          /\ Cardinality(free) >= (IF missing THEN 2 ELSE 1)
          /\ used' = used \cup (IF missing THEN {f, g} ELSE {f})
          /\ tables' = IF missing THEN [tables EXCEPT ![s][v[1]] = g] ELSE tables
          /\ elf' = [elf EXCEPT ![p] = Append(@, f)]
          /\ shell' = [shell EXCEPT !.todo = Tail(@)]
          /\ UNCHANGED <<dir, low, state, space, stack, image, runs, task, kstacks, kept>>
      BY <1>2, <2>1, <2>2 DEF MapElf
    <3>2. Cardinality(free) \in Nat
      <4>1. IsFiniteSet(Frame)
        BY MemoryAssumption, FS_Interval, SMT DEF Frame
      <4> QED  BY <4>1, FS_Subset, FS_CardinalityType
    <3>3. f \in free /\ (missing => g \in free \ {f})
      <4>1. Cardinality(free) >= 1 /\ (missing => Cardinality(free) >= 2)
        <5>1. Cardinality(free) >= (IF missing THEN 2 ELSE 1)
          BY <3>1
        <5> HIDE DEF free, missing
        <5> QED  BY <3>2, <5>1, SMT
      <4> QED  BY <2>3, <4>1, TwoFree
    <3> HIDE DEF f, g, missing
    <3> QED  BY <3>1, <3>3
  <2>5. PICK g : Taken(f, g)
    BY <2>41
  <2> HIDE DEF missing
  <2>6. shell' = [pc |-> "pages", p |-> p, kind |-> shell.kind, todo |-> Tail(shell.todo)]
    BY <2>0, <2>1, <2>5, AtPages
  <2>7. /\ elf' \in [Proc -> Seq(Frame)] /\ Len(elf[p]) \in Nat
        /\ Len(elf'[p]) = Len(elf[p]) + 1
        /\ \A q \in Proc : q # p => elf'[q] = elf[q]
        /\ Frames(elf'[p]) = Frames(elf[p]) \cup {f}
    <3>1. elf[p] \in Seq(Frame) /\ elf'[p] = Append(elf[p], f)
      BY <2>3, <2>5 DEF TypeOK
    <3>2. Append(elf[p], f) \in Seq(Frame)
      BY <3>1, AppendFrame
    <3>3. elf' \in [Proc -> Seq(Frame)] /\ \A q \in Proc : q # p => elf'[q] = elf[q]
      BY <2>3, <2>5, <3>2 DEF TypeOK
    <3> QED  BY <3>1, <3>3, AppendFrame
  <2>8. f \in OfProcess(p)' /\ \A q \in Proc : OfProcess(q) \subseteq OfProcess(q)'
    <3>1. ASSUME NEW q \in Proc PROVE Frames(elf[q]) \subseteq Frames(elf'[q])
      BY <2>7
    <3>2. f \in Frames(elf'[p])
      BY <2>7
    <3> QED  BY <2>5, <3>1, <3>2, Facts DEF OfProcess
  <2>9. /\ tables' \in [Space -> [Pde -> Frame \cup {0}]]
        /\ \A t \in Space, d \in Pde :
              tables'[t][d] = IF missing /\ t = s /\ d = v[1] THEN g ELSE tables[t][d]
    BY <2>3, <2>4, <2>5 DEF TypeOK, missing
  <2>10. /\ \A t \in Space : \A w \in DOMAIN page'[t] : page'[t][w] \in Frame
         /\ SpaceInv' /\ Isolation'
    <3>1. \A t \in Space, d \in Pde : tables[t][d] # 0 => tables'[t][d] # 0
      BY <2>5, <2>9, Facts
    <3>2. v[1] = 0 \/ tables'[s][v[1]] # 0
      BY <2>4, <2>5, <2>9, Facts DEF missing
    <3>3. \A t \in Space, d \in Pde : t # space[p] => tables'[t][d] = tables[t][d]
      BY <2>1, <2>9
    <3> QED  BY <2>1, <2>3, <2>4, <2>5, <2>8, <2>9, <3>1, <3>2, <3>3, Mapped
  <2>11. TypeOK'
    <3>1. \A q \in Proc : Len(elf'[q]) <= MAX_ELF
      BY <2>3, <2>5, <2>7, Facts, SMT DEF TypeOK, TooMany
    <3>2. used' \subseteq Frame
      BY <2>3, <2>5 DEF TypeOK
    <3> QED  BY <2>3, <2>5, <2>7, <2>9, <2>10, <3>1, <3>2 DEF TypeOK
  <2>12. Owned'
    <3> DEFINE x == <<"elf", p, Len(elf[p]) + 1>>
               y == <<"table", <<s, v[1]>>>>
               F == IF missing THEN {f, g} ELSE {f}
    <3>1. \A h \in Frame : Tables(h)' = Tables(h) \cup (IF missing /\ h = g THEN {y} ELSE {})
      <4>1. PICK m \in BOOLEAN : m <=> missing
        BY DEF missing
      <4>2. m => v[1] \in Pde /\ tables[s][v[1]] = 0
        BY <2>4, <4>1 DEF missing
      <4>3. \A t \in Space, d \in Pde :
               tables'[t][d] = IF m /\ t = s /\ d = v[1] THEN g ELSE tables[t][d]
        BY <2>9, <4>1
      <4>4. \A h \in Frame : Tables(h)' = Tables(h) \cup (IF m /\ h = g THEN {y} ELSE {})
        BY <4>2, <4>3, SetTable, SMT
      <4> QED  BY <4>1, <4>4
    <3>2. \A h \in Frame : Holders(h)' = Holders(h) \cup Tables(h)'
             \cup (IF h = f THEN {x} ELSE {})
      <4>1. \A h \in Frame : Tables(h) \subseteq Tables(h)'
        BY <3>1
      <4> QED  BY <2>3, <2>5, <4>1, AddElf
    <3>3. \A h \in Frame : Tables(h) \subseteq Holders(h)
      BY DEF Holders
    <3> HIDE DEF x, y
    <3>4. \A h \in Frame : Holders(h)' = Holders(h)
             \cup (IF missing /\ h = g THEN {y} ELSE {}) \cup (IF h = f THEN {x} ELSE {})
      BY <3>1, <3>2, <3>3
    <3>5. F \in SUBSET (Frame \ used) /\ used' = used \cup F
      BY <2>5
    <3>6. \A h \in F : \E z : Holders(h)' = Holders(h) \cup {z}
      <4>1. Holders(f)' = Holders(f) \cup {x}
        BY <2>5, <3>4
      <4>2. missing => Holders(g)' = Holders(g) \cup {y}
        BY <2>5, <3>4
      <4> QED  BY <4>1, <4>2
    <3>7. \A h \in Frame \ F : Holders(h)' = Holders(h)
      BY <3>4
    <3> HIDE DEF F
    <3> QED  BY <2>3, <3>5, <3>6, <3>7, Gained
  <2>13. Control'
    <3>1. \A q \in Proc : q # p => Bare(q)' = Bare(q)
      BY <2>5, <2>7 DEF Bare
    <3>2. state[p] = "ready"
      BY <2>0, <2>1, <2>3 DEF Control, At
    <3> QED  BY <2>0, <2>1, <2>3, <2>5, <2>6, <3>1, <3>2 DEF Control, At
  <2>14. Fresh'
    BY <2>6 DEF Fresh, At
  <2>15. Remaining'
    <3>1. Todo' = Tail(shell.todo)
      BY <2>6 DEF Todo, At
    <3> QED  BY <2>0, <2>4, <2>6, <3>1 DEF Remaining
  <2> QED  BY <2>10, <2>11, <2>12, <2>13, <2>14, <2>15 DEF Inv
<1> QED  BY <1>1, <1>2

\* create_task takes a frame, or none; nobody gives it back.
LEMMA CreateTaskStep ==
    ASSUME TypeOK, Owned, NEW t \in Task, CreateTask(t),
           UNCHANGED <<dir, low, tables, stack, image, elf, kept>>
    PROVE  /\ used' \subseteq Frame /\ kstacks' \subseteq Frame
           /\ task' \in [Task -> Frame \cup {0, NONE}] /\ Owned'
<1>1. PICK f \in Frame \cup {0} : /\ alloc_frame(f) /\ task' = [task EXCEPT ![t] = f]
                                  /\ kstacks' = kstacks \cup ({f} \ {0})
  BY DEF CreateTask
<1>2. CASE f = 0
  <2>1. used' = used /\ kstacks' = kstacks
    BY <1>1, <1>2, AllocFrame
  <2>2. \A g \in Frame : Holders(g)' = Holders(g)
    BY <2>1, SameHolders
  <2> QED  BY <1>1, <1>2, <2>1, <2>2, SMT DEF TypeOK, Owned
<1>3. CASE f # 0
  <2>1. f \in Frame \ used /\ used' = used \cup {f} /\ kstacks' = kstacks \cup {f}
    BY <1>1, <1>3, AllocFrame
  <2>2. \A g \in Frame : KernelStacks(g)' = KernelStacks(g)
           \cup (IF g = f THEN {<<"kstack", f>>} ELSE {})
    BY <2>1 DEF KernelStacks
  <2>3. \A g \in Frame : /\ Dirs(g)' = Dirs(g) /\ Lows(g)' = Lows(g) /\ Tables(g)' = Tables(g)
                         /\ Stacks(g)' = Stacks(g) /\ ImageFrames(g)' = ImageFrames(g)
                         /\ ElfFrames(g)' = ElfFrames(g) /\ Kept(g)' = Kept(g)
    BY SMT DEF Dirs, Lows, Tables, Stacks, ImageFrames, ElfFrames, Kept
  <2>4. \A g \in Frame : Holders(g)' = Holders(g) \cup (IF g = f THEN {<<"kstack", f>>} ELSE {})
    BY <2>2, <2>3 DEF Holders
  <2>5. Owned'
    BY <2>1, <2>4, GainedOne
  <2> QED  BY <1>1, <2>1, <2>5 DEF TypeOK
<1> QED  BY <1>2, <1>3

\* spawn_task takes a slot that is a slot.
LEMMA FreeTask ==
    ASSUME FreeTasks # {}
    PROVE  Lowest(FreeTasks) \in Task
<1>1. FreeTasks \in SUBSET Nat
  BY Facts DEF FreeTasks
<1> QED  BY <1>1, LowestIsIn DEF FreeTasks

\* The states of processes change, and nothing that is theirs.
LEMMA StateStep ==
    ASSUME Inv, state' \in [Proc -> {"unused", "ready", "live", "dead"}],
           runs' \in [Proc -> Task \cup {0}], task' \in [Task -> Frame \cup {0, NONE}],
           used' \subseteq Frame, kstacks' \subseteq Frame, kept' \subseteq Frame, Owned',
           dir' = dir, low' = low, tables' = tables, page' = page, space' = space,
           stack' = stack, image' = image, elf' = elf, ~At("low") \/ shell' = shell
    PROVE  /\ TypeOK' /\ Owned' /\ SpaceInv' /\ Isolation'
           /\ \A p \in Proc : Bare(p)' = Bare(p) /\ Empty(p)' = Empty(p)
<1>1. TypeOK'
  BY DEF Inv, TypeOK
<1>2. SpaceInv' /\ Isolation'
  BY SMT DEF Inv, SpaceInv, Isolation, Empty, OfProcess, At
<1>3. \A p \in Proc : Bare(p)' = Bare(p) /\ Empty(p)' = Empty(p)
  BY DEF Bare, Empty
<1> QED  BY <1>1, <1>2, <1>3

\* The shell's command goes on as before.
LEMMA SameShell ==
    ASSUME Inv, TypeOK', Owned', SpaceInv', Isolation', shell' = shell,
           \A p \in Proc : Bare(p)' = Bare(p) /\ Empty(p)' = Empty(p),
           \A p \in Proc : state'[p] = "unused" => state[p] = "unused",
           \A p \in Proc : state'[p] = "ready" <=> state[p] = "ready",
           dir' = dir, space' = space, image' = image
    PROVE  Inv'
<1>1. Control'
  BY DEF Inv, Control, At
<1>2. Fresh'
  BY DEF Inv, Fresh, At, Space, Proc
<1>3. Remaining'
  BY DEF Inv, Remaining, At, Todo
<1> QED  BY <1>1, <1>2, <1>3 DEF Inv

\* The task of a program is created, with its kernel stack.
LEMMA SpawnStep ==
    ASSUME Inv, Spawn
    PROVE  Inv'
<1>1. CASE Fail
  BY <1>1, FailStep DEF Spawn, At
<1>2. CASE ~Fail
  <2>1. PICK p \in Proc, t \in Task :
           /\ p = shell.p /\ CreateTask(t) /\ shell.pc = "pages"
           /\ state' = [state EXCEPT ![p] = "live"] /\ runs' = [runs EXCEPT ![p] = t]
           /\ shell' = Idle
           /\ UNCHANGED <<dir, low, tables, page, space, stack, image, elf, kept>>
    BY <1>2, FreeTask DEF Spawn, spaces, Inv, Control, At
  <2>2. TypeOK /\ Owned /\ Control
    BY DEF Inv
  <2>3. /\ used' \subseteq Frame /\ kstacks' \subseteq Frame
        /\ task' \in [Task -> Frame \cup {0, NONE}] /\ Owned'
    BY <2>1, <2>2, CreateTaskStep
  <2>4. ~At("low")
    BY <2>1 DEF Idle, At
  <2>5. \A q \in Proc : state'[q] = IF q = p THEN "live" ELSE state[q]
    BY <2>1, <2>2 DEF TypeOK
  <2>6. \A q \in Proc : state'[q] # "ready"
    BY <2>1, <2>2, <2>5, SMT DEF Control
  <2>7. \A q \in Proc : state'[q] = "unused" => state[q] = "unused"
    BY <2>5
  <2>8. /\ state' \in [Proc -> {"unused", "ready", "live", "dead"}]
        /\ runs' \in [Proc -> Task \cup {0}] /\ kept' \subseteq Frame
    BY <2>1, <2>2 DEF TypeOK
  <2>9. /\ TypeOK' /\ SpaceInv' /\ Isolation'
        /\ \A q \in Proc : Bare(q)' = Bare(q) /\ Empty(q)' = Empty(q)
    BY <2>1, <2>3, <2>4, <2>8, StateStep
  <2>10. Control'
    BY <2>1, <2>2, <2>6, <2>7, <2>9 DEF Control, At, Idle
  <2>11. Fresh' /\ Remaining'
    BY <2>1 DEF Fresh, Remaining, At, Idle
  <2> QED  BY <2>3, <2>9, <2>10, <2>11 DEF Inv
<1> QED  BY <1>1, <1>2

\* A program ends.
LEMMA DieStep ==
    ASSUME Inv, NEW p \in Proc, Die(p)
    PROVE  Inv'
<1>1. /\ state[p] = "live" /\ state' = [state EXCEPT ![p] = "dead"]
      /\ UNCHANGED <<used, dir, low, tables, page, space, stack, image, elf, runs, task,
                     kstacks, kept, shell>>
  BY DEF Die, spaces
<1>2. TypeOK /\ Owned
  BY DEF Inv
<1>3. Owned'
  BY <1>1, <1>2, SameHolders, SMT DEF Owned
<1>4. \A q \in Proc : state'[q] = IF q = p THEN "dead" ELSE state[q]
  BY <1>1, <1>2 DEF TypeOK
<1>5. /\ \A q \in Proc : state'[q] = "unused" => state[q] = "unused"
      /\ \A q \in Proc : state'[q] = "ready" <=> state[q] = "ready"
  BY <1>1, <1>4, SMT
<1>6. /\ state' \in [Proc -> {"unused", "ready", "live", "dead"}]
      /\ runs' \in [Proc -> Task \cup {0}] /\ task' \in [Task -> Frame \cup {0, NONE}]
      /\ used' \subseteq Frame /\ kstacks' \subseteq Frame /\ kept' \subseteq Frame
  BY <1>1, <1>2 DEF TypeOK
<1>7. /\ TypeOK' /\ SpaceInv' /\ Isolation'
      /\ \A q \in Proc : Bare(q)' = Bare(q) /\ Empty(q)' = Empty(q)
  BY <1>1, <1>3, <1>6, StateStep
<1> QED  BY <1>1, <1>3, <1>5, <1>7, SameShell

\* REAP gives back what a process had.
LEMMA ReapStep ==
    ASSUME Inv, NEW p \in Proc, Reap(p)
    PROVE  Inv'
<1>1. ~At("low") /\ shell' = Idle /\ \A q \in Proc : state[q] = "ready" => q = p
  BY DEF Inv, Control, Reap, At
<1> QED  BY <1>1, ClearStep DEF Reap

\* TASKTEST creates a task.
LEMMA SpawnThreadStep ==
    ASSUME Inv, SpawnThread
    PROVE  Inv'
<1>1. PICK t \in Task :
         /\ CreateTask(t)
         /\ UNCHANGED <<dir, low, tables, page, state, space, stack, image, elf, runs, kept, shell>>
  BY FreeTask DEF SpawnThread, spaces, procs
<1>2. TypeOK /\ Owned
  BY DEF Inv
<1>3. /\ used' \subseteq Frame /\ kstacks' \subseteq Frame
      /\ task' \in [Task -> Frame \cup {0, NONE}] /\ Owned'
  BY <1>1, <1>2, CreateTaskStep
<1>4. /\ state' \in [Proc -> {"unused", "ready", "live", "dead"}]
      /\ runs' \in [Proc -> Task \cup {0}] /\ kept' \subseteq Frame
  BY <1>1, <1>2 DEF TypeOK
<1>5. /\ \A q \in Proc : state'[q] = "unused" => state[q] = "unused"
      /\ \A q \in Proc : state'[q] = "ready" <=> state[q] = "ready"
  BY <1>1
<1>6. /\ TypeOK' /\ SpaceInv' /\ Isolation'
      /\ \A q \in Proc : Bare(q)' = Bare(q) /\ Empty(q)' = Empty(q)
  BY <1>1, <1>3, <1>4, StateStep
<1> QED  BY <1>1, <1>3, <1>5, <1>6, SameShell

\* A task slot is freed; its kernel stack stays taken.
LEMMA ReapTaskStep ==
    ASSUME Inv, NEW t \in Task, ReapTask(t)
    PROVE  Inv'
<1>1. /\ task' = [task EXCEPT ![t] = NONE]
      /\ UNCHANGED <<used, dir, low, tables, page, state, space, stack, image, elf, runs,
                     kstacks, kept, shell>>
  BY DEF ReapTask, spaces, procs
<1>2. TypeOK /\ Owned
  BY DEF Inv
<1>3. Owned'
  BY <1>1, <1>2, SameHolders, SMT DEF Owned
<1>4. /\ state' \in [Proc -> {"unused", "ready", "live", "dead"}]
      /\ runs' \in [Proc -> Task \cup {0}] /\ task' \in [Task -> Frame \cup {0, NONE}]
      /\ used' \subseteq Frame /\ kstacks' \subseteq Frame /\ kept' \subseteq Frame
  BY <1>1, <1>2 DEF TypeOK
<1>5. /\ \A q \in Proc : state'[q] = "unused" => state[q] = "unused"
      /\ \A q \in Proc : state'[q] = "ready" <=> state[q] = "ready"
  BY <1>1
<1>6. /\ TypeOK' /\ SpaceInv' /\ Isolation'
      /\ \A q \in Proc : Bare(q)' = Bare(q) /\ Empty(q)' = Empty(q)
  BY <1>1, <1>3, <1>4, StateStep
<1> QED  BY <1>1, <1>3, <1>5, <1>6, SameShell

\* FALLOC takes frames for good.
LEMMA FallocStep ==
    ASSUME Inv, Falloc
    PROVE  Inv'
<1>1. PICK F \in SUBSET (Frame \ used) :
         /\ used' = used \cup F /\ kept' = kept \cup F
         /\ UNCHANGED <<dir, low, tables, page, state, space, stack, image, elf, runs, task,
                        kstacks, shell>>
  <2> DEFINE free == Frame \ used
             keep == {f \in free : Cardinality({g \in free : g < f}) < 3}
  <2>1. /\ used' = used \cup keep /\ kept' = kept \cup keep
        /\ UNCHANGED <<dir, low, tables, page, state, space, stack, image, elf, runs, task,
                       kstacks, shell>>
    BY DEF Falloc, spaces, procs
  <2>2. keep \in SUBSET (Frame \ used)
    OBVIOUS
  <2> HIDE DEF keep
  <2> QED  BY <2>1, <2>2
<1>2. TypeOK /\ Owned
  BY DEF Inv
<1>3. Owned'
  <2>1. \A g \in Frame : /\ Dirs(g)' = Dirs(g) /\ Lows(g)' = Lows(g) /\ Tables(g)' = Tables(g)
                         /\ Stacks(g)' = Stacks(g) /\ ImageFrames(g)' = ImageFrames(g)
                         /\ ElfFrames(g)' = ElfFrames(g) /\ KernelStacks(g)' = KernelStacks(g)
    BY <1>1, SMT DEF Dirs, Lows, Tables, Stacks, ImageFrames, ElfFrames, KernelStacks
  <2>2. \A g \in Frame : Kept(g)' = Kept(g) \cup (IF g \in F THEN {<<"kept", g>>} ELSE {})
    BY <1>1 DEF Kept
  <2>3. \A g \in Frame : Holders(g)' = Holders(g) \cup (IF g \in F THEN {<<"kept", g>>} ELSE {})
    BY <2>1, <2>2 DEF Holders
  <2>4. \A g \in F : \E x : Holders(g)' = Holders(g) \cup {x}
    BY <2>3
  <2>5. \A g \in Frame \ F : Holders(g)' = Holders(g)
    BY <2>3
  <2> QED  BY <1>1, <1>2, <2>4, <2>5, Gained
<1>4. /\ state' \in [Proc -> {"unused", "ready", "live", "dead"}]
      /\ runs' \in [Proc -> Task \cup {0}] /\ task' \in [Task -> Frame \cup {0, NONE}]
      /\ used' \subseteq Frame /\ kstacks' \subseteq Frame /\ kept' \subseteq Frame
  BY <1>1, <1>2 DEF TypeOK
<1>5. /\ \A q \in Proc : state'[q] = "unused" => state[q] = "unused"
      /\ \A q \in Proc : state'[q] = "ready" <=> state[q] = "ready"
  BY <1>1
<1>6. /\ TypeOK' /\ SpaceInv' /\ Isolation'
      /\ \A q \in Proc : Bare(q)' = Bare(q) /\ Empty(q)' = Empty(q)
  BY <1>1, <1>3, <1>4, StateStep
<1> QED  BY <1>1, <1>3, <1>5, <1>6, SameShell

-----------------------------------------------------------------------------
(* The theorems *)

\* The invariant holds at boot.
LEMMA InvInit ==
    ASSUME Init
    PROVE  Inv
<1>1. TypeOK
  BY Facts, SMT DEF Init, TypeOK
<1>2. Owned
  <2>1. \A g \in Frame : Dirs(g) = {} /\ Lows(g) = {} /\ Tables(g) = {} /\ Stacks(g) = {}
    BY Facts DEF Init, Dirs, Lows, Tables, Stacks
  <2>2. \A g \in Frame : ImageFrames(g) = {} /\ ElfFrames(g) = {}
    BY SMT DEF Init, ImageFrames, ElfFrames
  <2>3. \A g \in Frame : KernelStacks(g) = {} /\ Kept(g) = {}
    BY DEF Init, KernelStacks, Kept
  <2> QED  BY <2>1, <2>2, <2>3 DEF Init, Owned, Holders
<1>3. SpaceInv
  BY DEF Init, SpaceInv, Empty
<1>4. Control /\ Fresh /\ Remaining
  BY DEF Init, Control, Fresh, Remaining, Idle, At, Bare
<1>5. Isolation
  BY DEF Init, Isolation
<1> QED  BY <1>1, <1>2, <1>3, <1>4, <1>5 DEF Inv

\* Every step keeps the invariant.
LEMMA InvNext ==
    ASSUME Inv, [Next]_vars
    PROVE  Inv'
<1>1. ASSUME NEW n \in 1 .. MAX_IMAGE, Begin("flat", [i \in 1 .. n |-> ImagePage(i)])
      PROVE  Inv'
  <2> DEFINE todo == [i \in 1 .. n |-> ImagePage(i)]
  <2>1. /\ todo \in Pages /\ Len(todo) = n /\ \A i \in 1 .. n : todo[i][1] = 0
    BY Facts, SMT DEF Pages, ImagePage
  <2> HIDE DEF todo
  <2>2. Len(todo) <= MAX_IMAGE /\ \A i \in 1 .. Len(todo) : todo[i][1] = 0
    BY <2>1, Facts, SMT
  <2> QED  BY <1>1, <2>1, <2>2, BeginStep DEF todo
<1>2. ASSUME NEW todo \in Pages, NEW kind \in {"elf", "check", "builtin"}, Begin(kind, todo)
      PROVE  Inv'
  BY <1>2, BeginStep
<1>3. CASE RunFlat
  BY <1>1, <1>3 DEF RunFlat
<1>4. CASE RunElf \/ CheckElf
  BY <1>2, <1>4, Facts DEF RunElf, CheckElf
<1>5. CASE StartBuiltin
  <2>1. <<>> \in Pages
    BY SMT DEF Pages
  <2> QED  BY <1>2, <1>5, <2>1 DEF StartBuiltin
<1>6. CASE NoSpace \/ Checked
  BY <1>6, FailStep DEF NoSpace, Checked, At
<1>7. CASE UNCHANGED vars
  <2>1. UNCHANGED <<used, dir, low, tables, page, state, space, stack, image, elf, runs, task,
                    kstacks, kept, shell>>
    BY <1>7 DEF vars
  <2>2. Owned'
    BY <2>1, SameHolders, SMT DEF Inv, Owned
  <2>3. /\ state' \in [Proc -> {"unused", "ready", "live", "dead"}]
        /\ runs' \in [Proc -> Task \cup {0}] /\ task' \in [Task -> Frame \cup {0, NONE}]
        /\ used' \subseteq Frame /\ kstacks' \subseteq Frame /\ kept' \subseteq Frame
    BY <2>1 DEF Inv, TypeOK
  <2>4. /\ \A q \in Proc : state'[q] = "unused" => state[q] = "unused"
        /\ \A q \in Proc : state'[q] = "ready" <=> state[q] = "ready"
    BY <2>1
  <2>5. /\ TypeOK' /\ SpaceInv' /\ Isolation'
        /\ \A q \in Proc : Bare(q)' = Bare(q) /\ Empty(q)' = Empty(q)
    BY <2>1, <2>2, <2>3, StateStep
  <2> QED  BY <2>1, <2>2, <2>4, <2>5, SameShell
<1> QED  BY <1>3, <1>4, <1>5, <1>6, <1>7, CreateDirStep, CreateLowStep, MapStackStep,
            MapImageStep, MapElfStep, SpawnStep, DieStep, ReapStep, SpawnThreadStep,
            ReapTaskStep, FallocStep DEF Next

\* The invariant holds in every reachable state.
THEOREM Invariant == Spec => []Inv
<1>1. Init => Inv
  BY InvInit
<1>2. Inv /\ [Next]_vars => Inv'
  BY InvNext
<1> QED  BY <1>1, <1>2, PTL DEF Spec

\* alloc_frame and free_frame: whatever fails, no frame is freed twice or
\* handed out while it is in use.
THEOREM OwnedOnceAlways == Spec => []FramesOwnedOnce
<1>1. ASSUME Inv PROVE FramesOwnedOnce
  BY <1>1, AtMostOne DEF Inv, Owned, FramesOwnedOnce
<1> QED  BY <1>1, Invariant, PTL

\* The error paths of the loaders and user_process_clear: no frame is
\* forgotten, and no half-built process stays.
THEOREM NothingLostAlways == Spec => []NothingLost
<1>1. ASSUME Inv PROVE NothingLost
  <2>1. \A f \in used : Holders(f) # {}
    BY <1>1 DEF Inv, Owned, TypeOK
  <2>2. ASSUME At("idle"), NEW s \in Space, dir[s] # 0 PROVE \E p \in Proc : space[p] = s
    BY <1>1, <2>2 DEF Inv, SpaceInv, At
  <2>3. ASSUME At("idle"), NEW p \in Proc PROVE state[p] # "ready"
    BY <1>1, <2>3 DEF Inv, Control
  <2> QED  BY <2>1, <2>2, <2>3 DEF NothingLost
<1> QED  BY <1>1, Invariant, PTL

\* address_space_map_page: a program sees its own frames, through its own
\* tables, and no other process has its address space.
THEOREM IsolationAlways == Spec => []Isolation
<1>1. Inv => Isolation
  BY DEF Inv
<1> QED  BY <1>1, Invariant, PTL

=============================================================================
