---------------------------- MODULE LaunchProofs ----------------------------
(***************************************************************************)
(* Proofs about Launch: what the loaders put into the memory of a program, *)
(* what the kernel reads and writes there for its system calls, and how    *)
(* the arguments reach the program.                                        *)
(***************************************************************************)
EXTENDS Launch, ElfProofs

\* A leaf is for Zenon unless it says SMT.
USE ZenonT(30)

-----------------------------------------------------------------------------
(* Loading *)

\* A flat program is described by one header, which has been checked when its
\* image is to be mapped.
FileInv ==
    /\ format = "YOZ1" => /\ Len(headers) = 1 /\ headers[1].load
                          /\ headers[1].offset = 0 /\ headers[1].filesz = LEN
    /\ pc = "image" => /\ format = "YOZ1"
                       /\ headers[1].vaddr = USER_LOAD_ADDR /\ headers[1].memsz = LEN

LoadInv == ElfInv /\ FileInv

\* The invariant holds when the shell starts.
LEMMA LoadInit == LInit => LoadInv
<1> SUFFICES ASSUME LInit PROVE LoadInv
  OBVIOUS
<1>1. PICK s \in Sessions : headers = s.table /\ format = s.format
  BY DEF LInit
<1>2. Init
  BY DEF LInit, UInit
<1>3. TableOK /\ FileInv
  <2>1. pc = "headers"
    BY <1>2 DEF Init
  <2> QED  BY <1>1, <2>1, LaunchAssumption DEF TableOK, FileInv
<1> QED  BY <1>2, <1>3, ElfInit DEF LoadInv

\* user_process_map_loaded_image.
LEMMA MapImageStep ==
    ASSUME LoadInv, MapImage
    PROVE  LoadInv'
<1>1. /\ pc = "image" /\ UNCHANGED <<headers, e_entry, i, va, frames, format>>
  BY DEF MapImage, file, shellVars
<1>2. ElfInv /\ FileInv
  BY DEF LoadInv
<1>3. FileInv'
  BY <1>1, <1>2 DEF MapImage, FileInv
<1>4. CASE pc' = "failed" /\ UNCHANGED <<pages, regions>>
  BY <1>1, <1>2, <1>3, <1>4, FailStep DEF LoadInv
<1>5. CASE /\ ImageFrames <= USER_MAX_IMAGE_FRAMES
           /\ pages' = [v \in ImagePages |-> [b \in 0 .. PAGE - 1 |->
                LET off == v - USER_LOAD_ADDR + b IN IF off < LEN THEN off + 1 ELSE 0]]
           /\ regions' = 2 /\ pc' = "loaded"
  <2> DEFINE L == USER_LOAD_ADDR
  <2>1. /\ Len(headers) = 1 /\ headers[1].load /\ headers[1].offset = 0
        /\ headers[1].filesz = LEN /\ headers[1].vaddr = L /\ headers[1].memsz = LEN
    BY <1>1, <1>2 DEF FileInv
  <2>2. /\ L \in Nat /\ IsPage(L) /\ USER_MAX_IMAGE_FRAMES \in Nat
        /\ L + USER_MAX_IMAGE_FRAMES * PAGE <= STACK_TOP - PAGE
    BY LaunchAssumption DEF IsPage
  <2>3. ImageFrames \in Nat /\ LEN <= ImageFrames * PAGE
        /\ L + ImageFrames * PAGE <= STACK_TOP - PAGE
    BY <1>5, <2>2, ImageEnds DEF ImageFrames
  <2>4. /\ \A v \in ImagePages : IsPage(v) /\ L <= v /\ v + PAGE <= STACK_TOP - PAGE
        /\ \A a \in L .. L + LEN - 1 : a \in Nat /\ a < WORD /\ page_down(a) \in ImagePages
    BY <2>2, <2>3, ImagePage DEF ImagePages
  <2>5. 2 <= MAX_REGIONS
    BY LaunchAssumption, Sizes, SMT
  <2>6. ElfInv'
    BY <1>1, <1>2, <1>5, <2>1, <2>2, <2>4, <2>5, FlatStep
  <2> QED  BY <1>3, <2>6 DEF LoadInv
<1> QED  BY <1>4, <1>5 DEF MapImage

\* Steps that leave the loader alone.
LEMMA LoaderSame ==
    ASSUME LoadInv, UNCHANGED <<vars, format>>
    PROVE  LoadInv'
<1>1. UNCHANGED <<headers, pc, format>>
  BY DEF vars
<1>2. FileInv'
  BY <1>1 DEF LoadInv, FileInv
<1> QED  BY <1>2, ElfSame DEF LoadInv

\* Every step of the shell, of the loaders and of the program keeps it.
LEMMA LoadNext == LoadInv /\ [LNext]_launchVars => LoadInv'
<1> SUFFICES ASSUME LoadInv, [LNext]_launchVars PROVE LoadInv'
  OBVIOUS
<1>1. CASE UNCHANGED launchVars
  BY <1>1, LoaderSame DEF launchVars, shellVars
<1>2. CASE Cd
  BY <1>2, LoaderSame DEF Cd
<1>3. ASSUME NEW c, ChangeDirs(c) PROVE LoadInv'
  BY <1>3, LoaderSame DEF ChangeDirs
<1>4. CASE Run
  BY <1>4, LoaderSame DEF Run
<1>5. CASE FlatHeader
  <2>1. /\ pc = "headers" /\ format = "YOZ1"
        /\ UNCHANGED <<headers, format, i, va, pages, frames, regions>>
    BY <1>5 DEF FlatHeader, file, shellVars
  <2>2. \/ pc' = "failed"
        \/ pc' = "image" /\ headers[1].vaddr = USER_LOAD_ADDR /\ headers[1].memsz = LEN
    BY <1>5 DEF FlatHeader
  <2>3. ElfInv'
    BY <2>1, <2>2, FailStep, HeadersStep DEF LoadInv
  <2> QED  BY <2>1, <2>2, <2>3 DEF LoadInv, FileInv
<1>6. ASSUME Next, UNCHANGED format PROVE LoadInv'
  <2>1. UNCHANGED headers /\ pc' # "image"
    BY <1>6 DEF Next, CheckHeaders, NextSegment, MapPage, NoFrame, EndSegment, Finish, file
  <2>2. ElfInv'
    BY <1>6, ElfStep DEF LoadInv
  <2> QED  BY <1>6, <2>1, <2>2 DEF LoadInv, FileInv
<1>7. CASE ElfHeader
  BY <1>6, <1>7 DEF ElfHeader, Next, shellVars
<1>8. CASE PrepareStack
  BY <1>8, LoaderSame DEF PrepareStack
<1>9. CASE MapImage
  BY <1>9, MapImageStep
<1>10. CASE Program
  <2>1. UNCHANGED format /\ UNext
    BY <1>10 DEF Program, shellVars
  <2>2. CASE UNCHANGED vars
    BY <2>1, <2>2, LoaderSame
  <2>3. CASE Next
    BY <1>6, <2>1, <2>3
  <2> QED  BY <2>1, <2>2, <2>3 DEF UNext, Call, Buffer, StringCall, CheckChar, CopyChar
<1>11. CASE OpenPath
  BY <1>11, LoaderSame DEF OpenPath
<1> QED
  BY <1>1, <1>2, <1>3, <1>4, <1>5, <1>7, <1>8, <1>9, <1>10, <1>11 DEF LNext

-----------------------------------------------------------------------------
(* The checks of user_memory_ok *)

\* Regions lie inside memory and are mapped.
LEMMA RegionMapped ==
    ASSUME LoadInv, NEW r \in Regions
    PROVE  /\ r.start \in Words32 /\ r.len \in Words32
           /\ pc = "loaded" => \A a \in r.start .. r.start + r.len - 1 :
                 a \in Words32 /\ Present(a)
<1>1. TableOK
  BY DEF LoadInv, ElfInv
<1>2. CASE r = [start |-> STACK_TOP - PAGE, len |-> PAGE, write |-> TRUE]
  <2>1. r.start = STACK_TOP - PAGE /\ r.len = PAGE
    BY <1>2
  <2> QED  BY <2>1, SomeWords DEF Present, StackPage
<1>3. CASE \E k \in Loads : r = [start |-> headers[k].vaddr, len |-> headers[k].memsz,
                                 write |-> headers[k].write]
  <2>9. PICK k \in Loads : r = [start |-> headers[k].vaddr, len |-> headers[k].memsz,
                                write |-> headers[k].write]
    BY <1>3
  <2>1. r.start = headers[k].vaddr /\ r.len = headers[k].memsz
    BY <2>9
  <2>2. r.start \in Words32 /\ r.len \in Words32
    BY <1>1, <2>1, Segment, Fields
  <2>3. ASSUME pc = "loaded", NEW a \in Addresses(headers[k])
        PROVE  a < WORD /\ page_down(a) \in DOMAIN pages
    BY <2>3 DEF LoadInv, ElfInv, LoadedAsLinked
  <2>4. ASSUME NEW a \in r.start .. r.start + r.len - 1, a < WORD PROVE a \in Words32
    BY <2>2, <2>4, RangeBelow
  <2> QED  BY <2>1, <2>2, <2>3, <2>4 DEF Addresses, Present
<1> QED  BY <1>2, <1>3 DEF Regions

\* What user_memory_ok accepts lies in one region, with the permission asked
\* for, and is not wrapped around.
LEMMA Accepted ==
    ASSUME LoadInv, NEW ptr \in Words32, NEW len \in Words32, NEW w,
           user_memory_ok(ptr, len, w), NEW a \in Bytes(ptr, len)
    PROVE  \E r \in Regions : a \in r.start .. r.start + r.len - 1 /\ (w => r.write)
<1>1. PICK k \in 0 .. len - 1 : a = (ptr + k) % WORD
  BY DEF Bytes
<1>2. len # 0
  BY Counting
<1> DEFINE end == (ptr + len - 1) % WORD
<1>3. end >= ptr
  BY <1>2 DEF user_memory_ok
<1>4. PICK r \in Regions : RegionOk(r, ptr, end) /\ (w => r.write)
  BY <1>2 DEF user_memory_ok
<1>5. end = ptr + len - 1 /\ ptr + len - 1 < WORD
  BY <1>2, <1>3, NoWrap
<1>6. r.start \in Words32 /\ r.len \in Words32
  BY RegionMapped
<1> DEFINE region_end == (r.start + r.len - 1) % WORD
<1>7. r.len # 0 /\ region_end >= r.start /\ ptr >= r.start /\ end <= region_end
  BY <1>4 DEF RegionOk
<1>8. region_end = r.start + r.len - 1
  BY <1>6, <1>7, NoWrap
<1> HIDE DEF end, region_end
<1>9. (ptr + k) % WORD = ptr + k /\ ptr + k \in r.start .. r.start + r.len - 1
  BY <1>5, <1>6, <1>7, <1>8, Inside
<1> QED  BY <1>1, <1>4, <1>9

\* A page is present as a whole.
LEMMA PresentPage ==
    ASSUME NEW a \in Nat, Present(a)
    PROVE  Present(page_down(a))
BY StackWhole DEF Present, StackPage

\* address_space_user_pages_ok accepts a range whose addresses are present.
LEMMA RangePages ==
    ASSUME NEW ptr \in Words32, NEW len \in Words32, len # 0, ptr + len - 1 < WORD,
           \A a \in ptr .. ptr + len - 1 : Present(a)
    PROVE  PagesOk(ptr, len)
<1> DEFINE end == (ptr + len - 1) % WORD
           V == {a \in Nat : Present(a)}
           Step(f) == [m \in 0 .. WORD \div PAGE - 1 |->
                         /\ Present(m * PAGE)
                         /\ m = end \div PAGE \/ ((m + 1) * PAGE < WORD /\ f[m + 1])]
           walk == CHOOSE f : f = Step(f)
<1>1. PagesOk(ptr, len) <=> len = 0 \/ (end >= ptr /\ walk[ptr \div PAGE])
  BY DEF PagesOk
<1>2. end = ptr + len - 1
  BY NoWrap
<1>3. /\ ptr \in Nat /\ end \in Nat /\ ptr <= end /\ end >= ptr /\ end < WORD
      /\ \A a \in ptr .. end : a \in Nat
  <2>1. /\ ptr \in Nat /\ ptr + len - 1 \in Nat /\ ptr <= ptr + len - 1
        /\ ptr + len - 1 >= ptr /\ \A a \in ptr .. ptr + len - 1 : a \in Nat
    BY RangeWords
  <2> QED  BY <1>2, <2>1
<1>4. V \in SUBSET Nat /\ \A a \in V : page_down(a) \in V
  BY PageOf, PresentPage DEF IsPage
<1>5. \A a \in ptr .. end : a \in V
  BY <1>2, <1>3
<1>6. \A f : Step(f) = WalkStep(V, end, f)
  <2>1. \A m \in 0 .. WORD \div PAGE - 1 : Present(m * PAGE) <=> m * PAGE \in V
    BY PageNumbers
  <2> HIDE DEF V
  <2> QED  BY <2>1 DEF WalkStep
<1> HIDE DEF V, Step, end
<1>7. \E f : f = Step(f)
  BY <1>3, <1>6, WalkExists
<1>8. walk = Step(walk)
  BY <1>7
<1> HIDE DEF walk
<1>9. walk[ptr \div PAGE]
  <2>1. walk = WalkStep(V, end, walk)
    BY <1>6, <1>8
  <2> QED  BY <1>3, <1>4, <1>5, <2>1, WalkPasses
<1> QED  BY <1>1, <1>3, <1>9

\* user_memory_ok accepts a range inside one region with the permission asked
\* for.
LEMMA Complete ==
    ASSUME LoadInv, pc = "loaded", NEW ptr \in Words32, NEW len \in Words32, len # 0, NEW w,
           NEW r \in Regions, w => r.write,
           \A a \in ptr .. ptr + len - 1 : a \in r.start .. r.start + r.len - 1
    PROVE  user_memory_ok(ptr, len, w)
<1>1. /\ r.start \in Words32 /\ r.len \in Words32
      /\ \A a \in r.start .. r.start + r.len - 1 : a \in Words32 /\ Present(a)
  BY RegionMapped
<1> DEFINE end == ptr + len - 1
           top == r.start + r.len - 1
<1>2. ptr \in ptr .. end /\ end \in ptr .. end /\ end >= ptr
  BY RangeWords
<1>3. ptr \in r.start .. top /\ end \in r.start .. top
  BY <1>2
<1>4. end < WORD
  <2>1. end \in Words32
    BY <1>1, <1>3
  <2> HIDE DEF end
  <2> QED  BY <2>1, SomeWords
<1>5. r.len # 0 /\ top >= r.start /\ ptr >= r.start /\ end <= top /\ top \in r.start .. top
  BY <1>1, <1>3, Bounds
<1>6. top < WORD
  <2>1. top \in Words32
    BY <1>1, <1>5
  <2> HIDE DEF top
  <2> QED  BY <2>1, SomeWords
<1>7. (ptr + len - 1) % WORD = end
  BY <1>4, NoWrap
<1>8. (r.start + r.len - 1) % WORD = top
  BY <1>1, <1>5, <1>6, NoWrap
<1>9. PagesOk(ptr, len)
  BY <1>1, <1>4, RangePages
<1>10. RegionOk(r, ptr, end)
  BY <1>5, <1>8 DEF RegionOk
<1> HIDE DEF end, top
<1> QED  BY <1>2, <1>7, <1>9, <1>10 DEF user_memory_ok

-----------------------------------------------------------------------------
(* The invariant of a system call *)

\* Address a lies in a region with the permission that the call needs.
Touchable(a) ==
    \E r \in Regions : a \in r.start .. r.start + r.len - 1 /\ (call.kind = "out" => r.write)

Char(k) == (call.ptr + k) % WORD

\* Only a loaded program makes calls.  Before its string is copied, all of it
\* has been checked, the zero byte included: copy_user_cstring needs no check.
CallInv ==
    /\ n \in Nat /\ call.ptr \in Words32
    /\ call.kind \in {"in", "out"} => call.len \in Words32
    /\ at = "none" \/ pc = "loaded"
    /\ at \in {"none", "call"} => touched = {} /\ n = 0
    /\ \A a \in touched : Touchable(a)
    /\ at \in {"check", "copy"} => call.kind \in {"string", "arg"}
    /\ at = "check" => \A k \in 0 .. n - 1 : Char(k) \in touched
    /\ at = "copy" => \E z \in Nat : /\ n <= z /\ ZeroAt(Char(z))
                                     /\ \A k \in 0 .. z : Char(k) \in touched
    /\ ValidAccepted

\* Nobody has called yet.
LEMMA CallInit == LInit => CallInv
<1> SUFFICES ASSUME LInit PROVE CallInv
  OBVIOUS
<1>1. call = NoCall /\ n = 0 /\ touched = {} /\ at = "none"
  BY DEF LInit, UInit
<1>2. call.ptr = 0 /\ call.kind = "none"
  BY <1>1 DEF NoCall
<1> QED  BY <1>1, <1>2, SomeWords DEF CallInv, ValidAccepted

\* Steps beside the call.
LEMMA CallSame ==
    ASSUME CallInv, UNCHANGED <<calls, headers>>,
           at = "none" \/ UNCHANGED <<pc, pages, stack>>
    PROVE  CallInv'
<1>1. UNCHANGED <<call, n, touched, at>>
  BY DEF calls
<1>2. Regions' = Regions
  BY DEF Regions, Loads
<1>3. \A a \in touched : Touchable(a)'
  BY <1>1, <1>2 DEF CallInv, Touchable
<1>4. \A k : Char(k)' = Char(k)
  BY <1>1 DEF Char
<1>5. ValidAccepted'
  BY <1>1, <1>2 DEF CallInv, ValidAccepted
<1>6. CASE at = "none"
  BY <1>1, <1>3, <1>5, <1>6 DEF CallInv
<1>7. CASE UNCHANGED <<pc, pages, stack>>
  <2>1. \A a : ZeroAt(a)' <=> ZeroAt(a)
    BY <1>1, <1>7 DEF ZeroAt, Present
  <2>2. \A z : ZeroAt(Char(z))' <=> ZeroAt(Char(z))
    BY <1>1, <1>7 DEF ZeroAt, Present, Char
  <2> QED  BY <1>1, <1>3, <1>4, <1>5, <1>7, <2>2 DEF CallInv
<1> QED  BY <1>6, <1>7

\* The program makes its call.
LEMMA CallStep ==
    ASSUME CallInv, Call
    PROVE  CallInv'
<1>1. /\ pc = "loaded" /\ at = "none" /\ at' = "call" /\ call'.ptr \in 0 .. WORD - 1
      /\ UNCHANGED <<pc, n, touched>>
  BY DEF Call, vars
<1>2. touched = {} /\ n = 0 /\ n \in Nat
  BY <1>1 DEF CallInv
<1>3. call'.kind \in {"in", "out"} => call'.len \in Words32
  <2>1. CASE call' \in [kind : {"in", "out"}, ptr : POINTERS, len : LENGTHS, zeros : {{}}]
    <3>1. call'.len \in LENGTHS
      BY <2>1
    <3> QED  BY <3>1, UserMemoryAssumption DEF Words32
  <2>2. CASE call' \in [kind : {"string"}, ptr : POINTERS, len : {0}, zeros : {{}, {STACK_TOP - 1}}]
    BY <2>2
  <2>3. CASE call' \in {[kind |-> "arg", ptr |-> ArgPtr(k), len |-> k, zeros |-> {}] :
                           k \in DOMAIN argv}
    <3>1. PICK k \in DOMAIN argv :
             call' = [kind |-> "arg", ptr |-> ArgPtr(k), len |-> k, zeros |-> {}]
      BY <2>3
    <3>2. call'.kind = "arg"
      BY <3>1
    <3> QED  BY <3>2
  <2> QED  BY <2>1, <2>2, <2>3 DEF Call
<1> QED  BY <1>1, <1>2, <1>3 DEF CallInv, ValidAccepted, Words32

\* A call with a buffer.
LEMMA BufferStep ==
    ASSUME LoadInv, CallInv, Buffer
    PROVE  CallInv'
<1>1. /\ at = "call" /\ call.kind \in {"in", "out"} /\ at' \in {"done", "inval"}
      /\ UNCHANGED <<headers, pc, call, n>>
  BY DEF Buffer, vars
<1>2. /\ pc = "loaded" /\ touched = {} /\ call.ptr \in Words32 /\ call.len \in Words32
      /\ n \in Nat
  BY <1>1 DEF CallInv
<1>3. Regions' = Regions
  BY <1>1 DEF Regions, Loads
<1>4. \A a \in touched' : Touchable(a)'
  <2>1. CASE touched' = touched
    BY <1>2, <2>1
  <2>2. CASE /\ user_memory_ok(call.ptr, call.len, call.kind = "out")
             /\ touched' = Bytes(call.ptr, call.len)
    <3>1. \A a \in touched' : \E r \in Regions :
             a \in r.start .. r.start + r.len - 1 /\ (call.kind = "out" => r.write)
      BY <1>2, <2>2, Accepted
    <3> QED  BY <1>1, <1>3, <3>1 DEF Touchable
  <2> QED  BY <2>1, <2>2 DEF Buffer
<1>5. ValidAccepted'
  <2> SUFFICES ASSUME at' = "inval", call.len \in 1 .. MAX_USER_BUFFER, NEW r \in Regions,
                      call.kind = "out" => r.write,
                      \A a \in call.ptr .. call.ptr + call.len - 1 :
                          a \in r.start .. r.start + r.len - 1
               PROVE  FALSE
    BY <1>1, <1>3 DEF ValidAccepted
  <2>1. call.len # 0 /\ call.len <= MAX_USER_BUFFER
    <3>1. MAX_USER_BUFFER \in Nat
      BY UserMemoryAssumption
    <3> QED  BY <3>1, Counting
  <2>2. user_memory_ok(call.ptr, call.len, call.kind = "out")
    BY <1>2, <2>1, Complete
  <2> QED  BY <2>1, <2>2 DEF Buffer
<1> QED  BY <1>1, <1>2, <1>4, <1>5 DEF CallInv

\* The test of user_cstring_ok before its loop.
LEMMA StringCallStep ==
    ASSUME CallInv, StringCall
    PROVE  CallInv'
<1>1. /\ at = "call" /\ call.kind \in {"string", "arg"} /\ at' \in {"check", "inval"}
      /\ UNCHANGED <<headers, pc, call, n, touched>>
  BY DEF StringCall, vars
<1>2. pc = "loaded" /\ touched = {} /\ n = 0 /\ n \in Nat /\ call.ptr \in Words32
  BY <1>1 DEF CallInv
<1> QED  BY <1>1, <1>2, Counting DEF CallInv, ValidAccepted

\* One character of user_cstring_ok.
LEMMA CheckCharStep ==
    ASSUME LoadInv, CallInv, CheckChar
    PROVE  CallInv'
<1> DEFINE addr == (call.ptr + n) % WORD
<1>1. /\ at = "check" /\ UNCHANGED <<headers, pages, stack, pc, call>>
  BY DEF CheckChar, vars, stackVars
<1>2. /\ pc = "loaded" /\ call.ptr \in Words32 /\ n \in Nat /\ call.kind \in {"string", "arg"}
      /\ \A a \in touched : Touchable(a)
      /\ \A k \in 0 .. n - 1 : Char(k) \in touched
  BY <1>1 DEF CallInv
<1>3. Regions' = Regions
  BY <1>1 DEF Regions, Loads
<1>4. \A k : Char(k)' = Char(k)
  BY <1>1 DEF Char
<1>5. CASE at' = "inval" /\ UNCHANGED <<n, touched>>
  <2>1. \A a \in touched' : Touchable(a)'
    BY <1>1, <1>2, <1>3, <1>5 DEF Touchable
  <2> QED  BY <1>1, <1>2, <1>5, <2>1 DEF CallInv, ValidAccepted
<1>6. CASE /\ user_memory_ok(addr, 1, FALSE) /\ touched' = touched \cup {addr}
           /\ IF ZeroAt(addr) THEN at' = "copy" /\ n' = 0 ELSE n' = n + 1 /\ UNCHANGED at
  <2>1. addr \in Words32 /\ 1 \in Words32
    BY <1>2, Onward, SomeWords
  <2>2. addr \in Bytes(addr, 1)
    <3> HIDE DEF addr
    <3>1. (addr + 0) % WORD = addr
      BY <2>1, SomeWords, WordItself
    <3> QED  BY <3>1, Counting DEF Bytes
  <2>3. \E r \in Regions : addr \in r.start .. r.start + r.len - 1
    BY <1>6, <2>1, <2>2, Accepted
  <2> HIDE DEF addr
  <2>4. \A a \in touched' : Touchable(a)'
    BY <1>1, <1>2, <1>3, <1>6, <2>3 DEF Touchable
  <2>5. \A k \in 0 .. n : Char(k) \in touched'
    <3>1. \A k \in 0 .. n : k = n \/ k \in 0 .. n - 1
      BY <1>2, Counting
    <3> QED  BY <1>2, <1>6, <3>1 DEF Char, addr
  <2>6. CASE ZeroAt(addr) /\ at' = "copy" /\ n' = 0
    <3>1. ZeroAt(Char(n))
      BY <2>6 DEF Char, addr
    <3>2. \A z : ZeroAt(Char(z)) => ZeroAt(Char(z))'
      BY <1>1 DEF ZeroAt, Present, Char
    <3>3. 0 <= n /\ 0 \in Nat
      BY <1>2, Counting, SomeWords
    <3>4. \E z \in Nat : n' <= z /\ ZeroAt(Char(z))' /\ \A k \in 0 .. z : Char(k)' \in touched'
      <4>1. n' <= n /\ ZeroAt(Char(n)) /\ \A k \in 0 .. n : Char(k)' \in touched'
        BY <1>4, <2>5, <2>6, <3>1, <3>3
      <4> QED  BY <1>2, <3>2, <4>1
    <3> QED  BY <1>1, <1>2, <2>4, <2>6, <3>3, <3>4 DEF CallInv, ValidAccepted
  <2>7. CASE ~ZeroAt(addr) /\ n' = n + 1 /\ at' = at
    <3>1. n' \in Nat /\ n' - 1 = n
      BY <1>2, <2>7, Counting
    <3>2. \A k \in 0 .. n' - 1 : Char(k)' \in touched'
      BY <1>4, <2>5, <3>1
    <3> QED  BY <1>1, <1>2, <2>4, <2>7, <3>1, <3>2 DEF CallInv, ValidAccepted
  <2> QED  BY <1>6, <2>6, <2>7
<1> QED  BY <1>5, <1>6 DEF CheckChar

\* One character of copy_user_cstring: it has been checked.
LEMMA CopyCharStep ==
    ASSUME CallInv, CopyChar
    PROVE  CallInv'
<1>1. /\ at = "copy" /\ UNCHANGED <<headers, pages, stack, pc, call>>
  BY DEF CopyChar, vars, stackVars
<1>2. /\ pc = "loaded" /\ call.ptr \in Words32 /\ n \in Nat /\ call.kind \in {"string", "arg"}
      /\ \A a \in touched : Touchable(a)
  BY <1>1 DEF CallInv
<1>3. PICK z \in Nat : n <= z /\ ZeroAt(Char(z)) /\ \A k \in 0 .. z : Char(k) \in touched
  BY <1>1 DEF CallInv
<1>4. Regions' = Regions
  BY <1>1 DEF Regions, Loads
<1>5. \A k : Char(k)' = Char(k)
  BY <1>1 DEF Char
<1>6. touched' = touched
  <2>1. Char(n) \in touched
    <3>1. n \in 0 .. z
      BY <1>2, <1>3, Counting
    <3> QED  BY <1>3, <3>1
  <2> QED  BY <2>1 DEF CopyChar, Char
<1>7. \A a \in touched' : Touchable(a)'
  BY <1>1, <1>2, <1>4, <1>6 DEF Touchable
<1>8. CASE at' = "inval" /\ n' = n
  BY <1>1, <1>2, <1>7, <1>8 DEF CallInv, ValidAccepted
<1>9. CASE n' = n + 1 /\ at' = IF ZeroAt(Char(n)) THEN "done" ELSE "copy"
  <2>1. n' \in Nat
    BY <1>2, <1>9, Counting
  <2>2. CASE ZeroAt(Char(n))
    BY <1>1, <1>2, <1>7, <1>9, <2>1, <2>2 DEF CallInv, ValidAccepted
  <2>3. CASE ~ZeroAt(Char(n))
    <3>1. n # z
      BY <1>3, <2>3
    <3>2. n' <= z
      BY <1>2, <1>3, <1>9, <3>1, Counting
    <3>3. ZeroAt(Char(z))'
      BY <1>1, <1>3 DEF ZeroAt, Present, Char
    <3>4. \A k \in 0 .. z : Char(k)' \in touched'
      BY <1>3, <1>5, <1>6
    <3> QED  BY <1>1, <1>2, <1>7, <1>9, <2>1, <2>3, <3>2, <3>3, <3>4 DEF CallInv, ValidAccepted
  <2> QED  BY <2>2, <2>3
<1> QED  BY <1>8, <1>9 DEF CopyChar, Char

\* Every step keeps the invariant of the call.
LEMMA CallNext == LoadInv /\ CallInv /\ [LNext]_launchVars => CallInv'
<1> SUFFICES ASSUME LoadInv, CallInv, [LNext]_launchVars PROVE CallInv'
  OBVIOUS
<1>1. at = "none" \/ pc = "loaded"
  BY DEF CallInv
<1>2. CASE UNCHANGED launchVars
  BY <1>2, CallSame DEF launchVars, vars, stackVars
<1>3. CASE Cd
  BY <1>3, CallSame DEF Cd, vars, stackVars
<1>4. ASSUME NEW c, ChangeDirs(c) PROVE CallInv'
  BY <1>4, CallSame DEF ChangeDirs, vars, stackVars
<1>5. CASE Run
  BY <1>5, CallSame DEF Run, vars
<1>6. CASE FlatHeader
  BY <1>1, <1>6, CallSame DEF FlatHeader, file
<1>7. CASE ElfHeader
  BY <1>1, <1>7, CallSame DEF ElfHeader, CheckHeaders, file
<1>8. CASE PrepareStack
  BY <1>1, <1>8, CallSame DEF PrepareStack, vars
<1>9. CASE MapImage
  BY <1>1, <1>9, CallSame DEF MapImage, file
<1>10. CASE Program
  <2>1. CASE Next /\ UNCHANGED <<stackVars, calls>>
    <3>1. pc # "loaded" /\ UNCHANGED headers
      BY <2>1 DEF Next, CheckHeaders, NextSegment, MapPage, NoFrame, EndSegment, Finish, file
    <3> QED  BY <1>1, <2>1, <3>1, CallSame
  <2>2. CASE Call
    BY <2>2, CallStep
  <2>3. CASE Buffer
    BY <2>3, BufferStep
  <2>4. CASE StringCall
    BY <2>4, StringCallStep
  <2>5. CASE CheckChar
    BY <2>5, CheckCharStep
  <2>6. CASE CopyChar
    BY <2>6, CopyCharStep
  <2> QED  BY <1>10, <2>1, <2>2, <2>3, <2>4, <2>5, <2>6 DEF Program, UNext
<1>11. CASE OpenPath
  BY <1>11, CallSame DEF OpenPath, vars, stackVars
<1> QED
  BY <1>2, <1>3, <1>4, <1>5, <1>6, <1>7, <1>8, <1>9, <1>10, <1>11 DEF LNext

-----------------------------------------------------------------------------
(* Theorems about loading and system calls *)

\* The loaders and system calls keep LoadInv and CallInv, whatever the file,
\* the lines typed, the sizes of pages and words and the limits are.
THEOREM LaunchInvariant == LSpec => [](LoadInv /\ CallInv)
<1>1. LInit => LoadInv /\ CallInv
  BY LoadInit, CallInit
<1>2. LoadInv /\ CallInv /\ [LNext]_launchVars => LoadInv' /\ CallInv'
  BY LoadNext, CallNext
<1> QED  BY <1>1, <1>2, PTL DEF LSpec

\* A program that is started has every byte of its segments where it was
\* linked to: user_map_elf_segments and user_process_map_loaded_image.
THEOREM LoadedAsLinkedAlways == LSpec => []LoadedAsLinked
<1>1. LoadInv /\ CallInv => LoadedAsLinked
  BY DEF LoadInv, ElfInv
<1> QED  BY <1>1, LaunchInvariant, PTL

\* elf_fill_page_frame and the flat loader leave nothing in a page that is not
\* of the file.
THEOREM NothingElseAlways == LSpec => []NothingElse
<1>1. LoadInv /\ CallInv => NothingElse
  BY DEF LoadInv, ElfInv
<1> QED  BY <1>1, LaunchInvariant, PTL

\* No loader maps the page of the stack, and the arrays of the process are not
\* overrun.
THEOREM StackApartAlways == LSpec => []StackApart
<1>1. LoadInv /\ CallInv => StackApart
  BY DEF LoadInv, ElfInv
<1> QED  BY <1>1, LaunchInvariant, PTL

\* System calls read and write only memory of the program, with the permission
\* needed: user_memory_ok, user_cstring_ok and copy_user_cstring.
THEOREM OnlyOwnMemoryAlways == LSpec => []OnlyOwnMemory
<1>1. LoadInv /\ CallInv => OnlyOwnMemory
  <2> SUFFICES ASSUME LoadInv, CallInv, NEW a \in touched
               PROVE  /\ Present(a)
                      /\ \E r \in Regions : /\ a \in r.start .. r.start + r.len - 1
                                            /\ call.kind = "out" => r.write
    BY DEF OnlyOwnMemory
  <2>1. pc = "loaded" /\ Touchable(a)
    BY DEF CallInv
  <2> QED  BY <2>1, RegionMapped DEF Touchable
<1> QED  BY <1>1, LaunchInvariant, PTL

\* user_memory_ok never refuses a buffer that lies in a region of the program
\* with the permission needed.
THEOREM ValidAcceptedAlways == LSpec => []ValidAccepted
<1>1. LoadInv /\ CallInv => ValidAccepted
  BY DEF CallInv
<1> QED  BY <1>1, LaunchInvariant, PTL

-----------------------------------------------------------------------------
(* The initial stack *)

\* The stack is as it was built while there is a program.
LaidInv == sh \in {"mapping", "opened"} => Laid

\* Steps that leave the arguments and the stack alone.
LEMMA LaidSame ==
    ASSUME LaidInv, UNCHANGED stackVars, sh' = sh \/ sh' = "loading" \/ sh = "mapping"
    PROVE  LaidInv'
<1>1. UNCHANGED argv /\ UNCHANGED stack /\ UNCHANGED stack_entry
  BY DEF stackVars
<1>2. Laid => Laid'
  BY <1>1 DEF Laid, Entry
<1>3. sh' \in {"mapping", "opened"} => sh \in {"mapping", "opened"}
  OBVIOUS
<1> QED  BY <1>2, <1>3 DEF LaidInv

\* Every step keeps it.
LEMMA LaidStep ==
    ASSUME NEW C, ArgvType(C), LaidInv, [LNext]_launchVars
    PROVE  LaidInv'
<1>1. CASE UNCHANGED launchVars
  BY <1>1, LaidSame DEF launchVars, shellVars
<1>2. CASE Cd
  BY <1>2, LaidSame DEF Cd
<1>3. ASSUME NEW c, ChangeDirs(c) PROVE LaidInv'
  BY <1>3, LaidSame DEF ChangeDirs
<1>4. CASE Run
  BY <1>4 DEF Run, Typed, LaidInv
<1>5. CASE FlatHeader
  BY <1>5, LaidSame DEF FlatHeader, shellVars
<1>6. CASE ElfHeader
  BY <1>6, LaidSame DEF ElfHeader, shellVars
<1>7. CASE PrepareStack
  BY <1>7, BuildLays DEF PrepareStack, LaidInv
<1>8. CASE MapImage
  BY <1>8, LaidSame DEF MapImage, shellVars
<1>9. CASE Program
  <2>1. UNext /\ UNCHANGED shellVars
    BY <1>9 DEF Program
  <2>2. UNCHANGED stackVars
    BY <2>1 DEF UNext, Call, Buffer, StringCall, CheckChar, CopyChar
  <2> QED  BY <2>1, <2>2, LaidSame DEF shellVars
<1>10. CASE OpenPath
  BY <1>10, LaidSame DEF OpenPath
<1> QED
  BY <1>1, <1>2, <1>3, <1>4, <1>5, <1>6, <1>7, <1>8, <1>9, <1>10 DEF LNext

\* Arguments that argv can hold are never the reason to refuse a program, and
\* its start-up code finds them on the stack, as user_process_set_args left
\* them: argc, argv and envp with their NULLs, and every string whole.
THEOREM ArgvArrivesAlways ==
    ASSUME CONSTANT C, "" \notin C
    PROVE  LSpec /\ []ArgvType(C) => [](sh \in {"mapping", "opened"} => ArgvArrives)
<1>1. LInit => LaidInv
  BY DEF LInit, LaidInv
<1>2. ArgvType(C) /\ LaidInv /\ [LNext]_launchVars => LaidInv'
  BY LaidStep
<1>3. ArgvType(C) /\ LaidInv => (sh \in {"mapping", "opened"} => ArgvArrives)
  BY LaidFound DEF LaidInv
<1> QED  BY <1>1, <1>2, <1>3, PTL DEF LSpec

=============================================================================
