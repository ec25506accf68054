------------------------------ MODULE VfsProofs -----------------------------
(***************************************************************************)
(* Theorems about Vfs, for every number of processes, descriptors and      *)
(* handles, and all files and payloads: handles in use and their holders   *)
(* correspond, sizes that handles remember are right, appends keep what    *)
(* was there.                                                              *)
(***************************************************************************)
EXTENDS Vfs, SequenceTheorems, WellFoundedInduction, TLAPS

\* A leaf is for Zenon unless it says SMT.
USE ZenonT(30)

-----------------------------------------------------------------------------
(* The inductive invariant. *)

\* Files are no longer than a file may be.
Node(n) == n \in [dir : BOOLEAN, data : Seq(Nat)] /\ Len(n.data) <= MAX_FILE_BYTES
TreeOK == \A p \in DOMAIN tree : p \in Path /\ Node(tree[p])

\* Who closes whom: a task itself, or the shell a process that no longer
\* runs, and never two the same one.  What a process that no longer runs has
\* in its descriptors is still ahead of the loop that closes them.
LoopInv ==
    /\ \A c \in Closer : loop[c] # Idle =>
          /\ loop[c].of \in Proc /\ state[loop[c].of] # "running"
          /\ c # Shell => loop[c].of = c
    /\ \A c, d \in Closer :
          loop[c] # Idle /\ loop[d] # Idle /\ loop[c].of = loop[d].of => c = d
    /\ \A p \in Proc, f \in Fd : state[p] # "running" /\ fds[p][f] # NONE =>
          \E c \in Closer : loop[c] # Idle /\ loop[c].of = p /\ loop[c].fd <= f

\* The handle that VFSTEST has chosen stays free until it is entered.
TestInv ==
    /\ test.at = "none" => test = NoTest
    /\ test.at # "none" => test.h \in Handle
    /\ test.at = "opening" => ~open_files[test.h].used /\ IsFile(test.path)

\* Handles in use and their holders correspond one to one.
Owned ==
    /\ \A h \in Handle, c \in Closer, f \in Fd : Holds(c, f, h) => open_files[h].used
    /\ \A h \in Handle, c, d \in Closer, f, g \in Fd :
          Holds(c, f, h) /\ Holds(d, g, h) => c = d /\ f = g
    /\ \A h \in Handle : open_files[h].used => \E c \in Closer, f \in Fd : Holds(c, f, h)

Inv == TypeOK /\ TreeOK /\ LoopInv /\ TestInv /\ Owned

\* The shell waits for tasks that are closing.
ShellIsPatient == PATIENT = TRUE

\* The constants, and values that are told apart.
LEMMA Facts ==
    /\ Shell \notin Proc /\ Shell \in Closer /\ Proc \subseteq Closer
    /\ NONE \notin Handle /\ 1 \in Fd /\ FDS \in Fd
    /\ \A p \in Proc : Closing(p) # Idle
    /\ MAX_FILE_BYTES \in Nat /\ WORD \in Nat /\ 2 * MAX_FILE_BYTES < WORD
BY VfsAssumption, SMT DEF Shell, Closer, NONE, Handle, Fd, Closing, Idle

\* The invariant holds at boot.
LEMMA InvInit == VInit => Inv
<1> SUFFICES ASSUME VInit PROVE Inv
  OBVIOUS
<1> USE Facts
<1>1. TypeOK
  BY SMT DEF VInit, Init, TypeOK, Unused, Idle, NoTest
<1>2. TreeOK
  BY DEF VInit, Init, TreeOK
<1>3. LoopInv /\ TestInv
  BY DEF VInit, LoopInv, TestInv, NoTest
<1>4. Owned
  BY DEF VInit, Owned, Holds, Unused, NoTest, Closer
<1> QED  BY <1>1, <1>2, <1>3, <1>4 DEF Inv

-----------------------------------------------------------------------------
(* Files *)

\* Writing over the bytes of a file gives bytes, and not too many.
LEMMA OverlayIsData ==
    ASSUME NEW bytes \in Seq(Nat), NEW offset \in Nat, NEW src \in Seq(Nat),
           Len(bytes) <= MAX_FILE_BYTES, offset <= Len(bytes),
           offset + Len(src) <= MAX_FILE_BYTES
    PROVE  Node(File(Overlay(bytes, offset, src)))
<1> DEFINE end == offset + Len(src)
           len == IF end > Len(bytes) THEN end ELSE Len(bytes)
           out == [i \in 1 .. len |->
                      IF offset < i /\ i <= end THEN src[i - offset] ELSE bytes[i]]
<1>1. len \in Nat /\ len <= MAX_FILE_BYTES
  BY LenProperties, VfsAssumption, SMT
<1>2. ASSUME NEW i \in 1 .. len
      PROVE  (IF offset < i /\ i <= end THEN src[i - offset] ELSE bytes[i]) \in Nat
  <2>1. CASE offset < i /\ i <= end
    <3>1. i - offset \in 1 .. Len(src)
      BY <1>2, <2>1, <1>1, LenProperties, SMT
    <3> QED  BY <3>1, <2>1, ElementOfSeq
  <2>2. CASE ~(offset < i /\ i <= end)
    <3>1. i \in 1 .. Len(bytes)
      BY <1>2, <2>2, <1>1, LenProperties, SMT
    <3> QED  BY <3>1, <2>2, ElementOfSeq
  <2> QED  BY <2>1, <2>2
<1>3. out \in [1 .. len -> Nat]
  BY <1>2
<1>4. out \in Seq(Nat) /\ Len(out) = len
  BY <1>1, <1>3, SeqDef, LenProperties, SMT
<1>5. Overlay(bytes, offset, src) = out
  BY DEF Overlay
<1> QED  BY <1>1, <1>4, <1>5 DEF Node, File

\* Entering a node in the tree, and taking one out of it.
LEMMA PutKeeps ==
    ASSUME TreeOK, NEW p \in Path, NEW n, Node(n), tree' = Put(p, n)
    PROVE  TreeOK'
BY DEF TreeOK, Put, Node

\* Taking a node out of the tree keeps the others as they are.
LEMMA WithoutKeeps ==
    ASSUME TreeOK, NEW p, tree' = Without(p)
    PROVE  TreeOK'
BY DEF TreeOK, Without, Node

\* Files and directories that are new.
LEMMA NewNodes ==
    /\ Node(File(<<>>)) /\ Node(Directory)
    /\ \A src \in Payload : Len(src) <= MAX_FILE_BYTES => Node(File(src))
<1>1. <<>> \in Seq(Nat) /\ Len(<<>>) = 0
  BY SMT
<1> QED  BY <1>1, VfsAssumption, SMT DEF Node, File, Directory

\* Every operation of Files keeps the tree in order.
LEMMA FileOperation ==
    ASSUME TreeOK, NEW p \in Path, NEW src \in Payload, NEW offset \in Nat, NEW q \in Path,
           \/ Create(p) \/ Mkdir(p) \/ Delete(p) \/ Rmdir(p) \/ Rename(p, q)
           \/ Write(p, src) \/ Append_(p, src) \/ WriteAt(p, offset, src)
    PROVE  TreeOK'
<1>0. CASE UNCHANGED tree
  BY <1>0 DEF TreeOK
<1>1. CASE Create(p) \/ Mkdir(p)
  BY <1>0, <1>1, PutKeeps, NewNodes DEF Create, Mkdir, Succeed, Fail
<1>2. CASE Delete(p) \/ Rmdir(p)
  BY <1>0, <1>2, WithoutKeeps DEF Delete, Rmdir, Succeed, Fail
<1>3. CASE Rename(p, q)
  BY <1>0, <1>3, SMT DEF Rename, Succeed, Fail, TreeOK, Node, IsFile, Exists
<1>4. CASE Write(p, src)
  BY <1>0, <1>4, PutKeeps, NewNodes DEF Write, Succeed, Fail, NeedsRoom
<1>5. CASE Append_(p, src)
  <2>1. CASE IsFile(p) /\ (src = <<>> \/ Len(tree[p].data) + Len(src) <= MAX_FILE_BYTES)
    <3>1. tree[p].data \in Seq(Nat) /\ src \in Seq(Nat) /\ Len(tree[p].data) <= MAX_FILE_BYTES
      BY <2>1, VfsAssumption DEF TreeOK, Node, IsFile, Exists
    <3>2. /\ tree[p].data \o src \in Seq(Nat)
          /\ Len(tree[p].data \o src) = Len(tree[p].data) + Len(src)
      BY <3>1, ConcatProperties
    <3>3. src = <<>> => Len(src) = 0
      BY SMT
    <3>4. Len(tree[p].data) \in Nat
      BY <3>1, LenProperties
    <3>5. Len(tree[p].data) + Len(src) <= MAX_FILE_BYTES
      BY <2>1, <3>1, <3>3, <3>4, SMTT(30)
    <3>6. Len(tree[p].data \o src) <= MAX_FILE_BYTES
      BY <3>2, <3>5
    <3>7. Node(File(tree[p].data \o src))
      BY <3>2, <3>6 DEF Node, File
    <3> QED  BY <1>0, <1>5, <2>1, <3>7, PutKeeps DEF Append_, Succeed, Fail, NeedsRoom
  <2>2. CASE ~(IsFile(p) /\ (src = <<>> \/ Len(tree[p].data) + Len(src) <= MAX_FILE_BYTES))
    BY <1>0, <1>5, <2>2 DEF Append_, Fail
  <2> QED  BY <2>1, <2>2
<1>6. CASE WriteAt(p, offset, src)
  <2> DEFINE fits == /\ IsFile(p) /\ offset <= Len(tree[p].data)
                     /\ offset + Len(src) <= MAX_FILE_BYTES
  <2>1. CASE src # <<>> /\ fits
    <3>1. tree[p].data \in Seq(Nat) /\ src \in Seq(Nat) /\ Len(tree[p].data) <= MAX_FILE_BYTES
      BY <2>1, VfsAssumption DEF TreeOK, Node, IsFile, Exists
    <3>2. Node(File(Overlay(tree[p].data, offset, src)))
      BY <2>1, <3>1, OverlayIsData
    <3> QED  BY <1>0, <1>6, <2>1, <3>2, PutKeeps DEF WriteAt, Succeed, Fail, NeedsRoom
  <2>2. CASE src = <<>> \/ ~fits
    BY <1>0, <1>6, <2>2 DEF WriteAt, Succeed, Fail
  <2> QED  BY <2>1, <2>2
<1> QED  BY <1>1, <1>2, <1>3, <1>4, <1>5, <1>6

-----------------------------------------------------------------------------
(* Steps that leave descriptors, processes and loops alone. *)

\* Who holds what depends on descriptors, loops and VFSTEST only.
LEMMA SameHolders ==
    ASSUME UNCHANGED <<fds, loop, test>>
    PROVE  \A h \in Handle, c \in Closer, f \in Fd : Holds(c, f, h)' <=> Holds(c, f, h)
BY SMT DEF Holds, Shutting

\* Reading, writing and seeking keep who owns what.
LEMMA SameOwners ==
    ASSUME LoopInv, TestInv, Owned, UNCHANGED <<fds, state, loop, test>>,
           \A h \in Handle : open_files'[h].used = open_files[h].used,
           test.at = "opening" => IsFile(test.path)'
    PROVE  LoopInv' /\ TestInv' /\ Owned'
<1>1. LoopInv'
  BY DEF LoopInv
<1>2. TestInv'
  BY DEF TestInv
<1>3. Owned'
  BY SameHolders, SMT DEF Owned
<1> QED  BY <1>1, <1>2, <1>3

\* What an entry of the table of handles is.
Entry == [used : BOOLEAN, path : Path \cup {<<>>}, size : 0 .. MAX_FILE_BYTES,
          offset : 0 .. WORD - 1, append : BOOLEAN, readable : BOOLEAN, writable : BOOLEAN]

\* Another offset or size in one handle.
LEMMA EntryUpdate ==
    ASSUME open_files \in [Handle -> Entry], NEW h \in Handle, NEW e \in Entry,
           e.used = open_files[h].used, open_files' = [open_files EXCEPT ![h] = e]
    PROVE  /\ open_files' \in [Handle -> Entry]
           /\ \A k \in Handle : open_files'[k].used = open_files[k].used
OBVIOUS

\* The size of a file is within the bound of fat.c.
LEMMA SizeType ==
    ASSUME TreeOK, NEW p \in DOMAIN tree
    PROVE  Size(tree, p) \in 0 .. MAX_FILE_BYTES
<1>1. tree[p].data \in Seq(Nat) /\ Len(tree[p].data) <= MAX_FILE_BYTES
  BY DEF TreeOK, Node
<1> QED  BY <1>1, LenProperties, Facts, SMT DEF Size

\* vfs_read moves the offset of its handle and nothing else.
LEMMA ReadMoves ==
    ASSUME TypeOK, TreeOK, NEW h \in Handle, NEW len \in Length, vfs_read(h, len)
    PROVE  /\ open_files' \in [Handle -> Entry]
           /\ \A k \in Handle : open_files'[k].used = open_files[k].used
<1> DEFINE f == open_files[h]
           step == IF f.offset < f.size THEN ReadLength(f, len) ELSE 0
<1>1. open_files \in [Handle -> Entry] /\ f \in Entry
  BY DEF TypeOK, Entry
<1>2. f.offset \in 0 .. WORD - 1 /\ len \in Nat
  BY <1>1, VfsAssumption DEF Entry
<1>3. f.offset + step \in 0 .. WORD - 1
  <2>1. CASE f.offset < f.size
    <3>1. Size(tree, f.path) \in 0 .. MAX_FILE_BYTES
      BY <2>1, SizeType DEF vfs_read, IsFile, Exists
    <3> QED  BY <1>2, <2>1, <3>1, Facts, SMT DEF ReadLength
  <2>2. CASE ~(f.offset < f.size)
    BY <1>2, <2>2, Facts, SMT
  <2> QED  BY <2>1, <2>2
<1>4. [f EXCEPT !.offset = f.offset + step] \in Entry
  BY <1>1, <1>3 DEF Entry
<1>5. [f EXCEPT !.offset = f.offset + step].used = f.used
  BY <1>1 DEF Entry
<1>6. open_files' = [open_files EXCEPT ![h] = [f EXCEPT !.offset = f.offset + step]]
  BY <1>1 DEF vfs_read
<1> HIDE DEF step
<1> QED  BY <1>1, <1>4, <1>5, <1>6, EntryUpdate

\* vfs_lseek moves the offset of its handle, within a word.
LEMMA LseekMoves ==
    ASSUME TypeOK, NEW h \in Handle, NEW offset \in Offset, NEW whence \in {"SET", "CUR", "END"},
           vfs_lseek(h, offset, whence)
    PROVE  /\ open_files' \in [Handle -> Entry]
           /\ \A k \in Handle : open_files'[k].used = open_files[k].used
<1> DEFINE f == open_files[h]
           base == CASE whence = "SET" -> 0 [] whence = "CUR" -> f.offset [] whence = "END" -> f.size
           new == (base + offset) % WORD
<1>1. open_files \in [Handle -> Entry] /\ f \in Entry
  BY DEF TypeOK, Entry
<1>2. f.offset \in Nat /\ f.size \in Nat /\ offset \in Nat
  BY <1>1, VfsAssumption, Facts, SMT DEF Entry
<1>3. base \in Nat
  BY <1>2
<1>4. new \in 0 .. WORD - 1
  <2> HIDE DEF base
  <2> QED  BY <1>2, <1>3, Facts, SMT
<1>5. [f EXCEPT !.offset = new] \in Entry /\ [f EXCEPT !.offset = new].used = f.used
  BY <1>1, <1>4 DEF Entry
<1>6. open_files' = [open_files EXCEPT ![h] = [f EXCEPT !.offset = new]]
  BY <1>1 DEF vfs_lseek
<1> HIDE DEF new
<1> QED  BY <1>1, <1>5, <1>6, EntryUpdate

\* vfs_write changes file, offset and size, and no handle becomes used or free.
LEMMA WriteMoves ==
    ASSUME TypeOK, TreeOK, NEW h \in Handle, NEW src \in Payload, vfs_write(h, src)
    PROVE  /\ TreeOK'
           /\ open_files' \in [Handle -> Entry]
           /\ \A k \in Handle : open_files'[k].used = open_files[k].used
<1> DEFINE f == open_files[h]
<1>1. open_files \in [Handle -> Entry] /\ f \in Entry
  BY DEF TypeOK, Entry
<1>2. Append_(f.path, src) \/ WriteAt(f.path, f.offset, src)
  BY DEF vfs_write, Backend
<1>3. f.offset \in 0 .. WORD - 1 /\ f.size \in 0 .. MAX_FILE_BYTES /\ src \in Seq(Nat)
  BY <1>1, VfsAssumption DEF Entry
<1>4. TreeOK'
  <2>1. CASE f.path \in DOMAIN tree
    <3>1. f.path \in Path /\ f.offset \in Nat
      BY <1>3, <2>1, Facts, SMT DEF TreeOK
    <3> QED  BY <1>2, <3>1, FileOperation
  <2>2. CASE f.path \notin DOMAIN tree
    <3>1. UNCHANGED tree
      BY <1>2, <2>2 DEF Append_, WriteAt, IsFile, Exists, Succeed, Fail
    <3> QED  BY <3>1 DEF TreeOK
  <2> QED  BY <2>1, <2>2
<1>5. CASE ret' # "ok"
  BY <1>1, <1>4, <1>5 DEF vfs_write
<1>6. CASE ret' = "ok"
  <2> DEFINE size == IF f.path \in DOMAIN tree' THEN Size(tree', f.path) ELSE f.size
             offset == IF f.append THEN size ELSE f.offset + Len(src)
             e == [f EXCEPT !.size = size, !.offset = offset]
  <2>1. \A p \in DOMAIN tree' : Size(tree', p) \in 0 .. MAX_FILE_BYTES
    <3> SUFFICES ASSUME NEW p \in DOMAIN tree' PROVE Size(tree', p) \in 0 .. MAX_FILE_BYTES
      OBVIOUS
    <3>1. tree'[p].data \in Seq(Nat) /\ Len(tree'[p].data) <= MAX_FILE_BYTES
      BY <1>4 DEF TreeOK, Node
    <3> QED  BY <3>1, LenProperties, Facts, SMT DEF Size
  <2>2. size \in 0 .. MAX_FILE_BYTES
    BY <1>3, <2>1
  <2>3. offset \in 0 .. WORD - 1
    <3>1. CASE f.append
      <4> HIDE DEF size
      <4> QED  BY <2>2, <3>1, Facts, SMT
    <3>2. CASE ~f.append
      <4>1. WriteAt(f.path, f.offset, src)
        BY <3>2 DEF vfs_write, Backend
      <4>2. src = <<>> \/ f.offset + Len(src) <= MAX_FILE_BYTES
        BY <1>6, <4>1 DEF WriteAt, Fail
      <4>3. Len(src) \in Nat /\ (src = <<>> => Len(src) = 0)
        BY <1>3, LenProperties, SMT
      <4> QED  BY <1>3, <3>2, <4>2, <4>3, Facts, SMT
    <3> QED  BY <3>1, <3>2
  <2>4. open_files' = [open_files EXCEPT ![h] = e]
    BY <1>6 DEF vfs_write, Refreshed
  <2> HIDE DEF size, offset
  <2>5. e \in Entry /\ e.used = f.used
    BY <1>1, <2>2, <2>3 DEF Entry
  <2> HIDE DEF e
  <2> QED  BY <1>1, <1>4, <2>4, <2>5, EntryUpdate
<1> QED  BY <1>5, <1>6

\* A descriptor that is open has a handle.
LEMMA DescriptorType ==
    ASSUME TypeOK, NEW p \in Proc, NEW f \in Fd, fds[p][f] # NONE
    PROVE  fds[p][f] \in Handle
BY SMT DEF TypeOK

\* While VFSTEST opens its file no program runs.
LEMMA QuietOpening ==
    ASSUME ShellIsPatient, NEW p \in Proc, Calls(p)
    PROVE  test.at # "opening"
BY DEF Calls, ShellIsPatient

\* SYS_READ, SYS_LSEEK and SYS_WRITE leave every handle with its holder.
LEMMA DescriptorStep ==
    ASSUME ShellIsPatient, Inv, NEW p \in Proc, NEW f \in Fd,
           \/ \E len \in Length : Read(p, f, len)
           \/ \E offset \in Offset, whence \in {"SET", "CUR", "END"} : Lseek(p, f, offset, whence)
           \/ \E src \in Payload : WriteFd(p, f, src)
    PROVE  Inv'
<1>1. TypeOK /\ TreeOK /\ LoopInv /\ TestInv /\ Owned
  BY DEF Inv
<1>2. On(p, f) /\ UNCHANGED <<fds, state, current, loop, test>>
  BY DEF Read, Lseek, WriteFd
<1>3. fds[p][f] \in Handle /\ test.at # "opening"
  BY <1>1, <1>2, DescriptorType, QuietOpening DEF On
<1>4. /\ TreeOK' /\ open_files' \in [Handle -> Entry]
      /\ \A k \in Handle : open_files'[k].used = open_files[k].used
  <2>1. CASE \E len \in Length : Read(p, f, len)
    <3>1. TreeOK'
      BY <1>1, <2>1 DEF Read, vfs_read, TreeOK
    <3> QED  BY <1>1, <1>3, <2>1, <3>1, ReadMoves DEF Read
  <2>2. CASE \E offset \in Offset, whence \in {"SET", "CUR", "END"} :
                Lseek(p, f, offset, whence)
    <3>1. TreeOK'
      BY <1>1, <2>2 DEF Lseek, vfs_lseek, TreeOK
    <3> QED  BY <1>1, <1>3, <2>2, <3>1, LseekMoves DEF Lseek
  <2>3. CASE \E src \in Payload : WriteFd(p, f, src)
    BY <1>1, <1>3, <2>3, WriteMoves DEF WriteFd
  <2> QED  BY <2>1, <2>2, <2>3
<1>5. stale' \subseteq Handle
  BY <1>1 DEF Read, Lseek, WriteFd, Touched, TypeOK
<1>6. TypeOK'
  BY <1>1, <1>2, <1>4, <1>5 DEF TypeOK, Entry
<1>7. LoopInv' /\ TestInv' /\ Owned'
  BY <1>1, <1>2, <1>3, <1>4, SameOwners
<1> QED  BY <1>4, <1>6, <1>7 DEF Inv

\* A file command of the shell changes the tree only, and not while VFSTEST is open.
LEMMA CommandStep ==
    ASSUME Inv, Command
    PROVE  Inv'
<1>1. TypeOK /\ TreeOK /\ LoopInv /\ TestInv /\ Owned
  BY DEF Inv
<1>2. test = NoTest /\ UNCHANGED <<open_files, fds, state, current, test, loop>>
  BY DEF Command, ShellIdle
<1>3. TreeOK'
  <2>1. PICK p \in Path :
            \/ Create(p) \/ Mkdir(p) \/ Delete(p) \/ Rmdir(p)
            \/ \E q \in Path : Rename(p, q)
            \/ \E src \in Payload : Write(p, src) \/ Append_(p, src)
    BY DEF Command
  <2>2. CASE Create(p) \/ Mkdir(p)
    BY <1>1, <2>2, PutKeeps, NewNodes DEF Create, Mkdir, Succeed, Fail, TreeOK
  <2>3. CASE Delete(p) \/ Rmdir(p)
    BY <1>1, <2>3, WithoutKeeps DEF Delete, Rmdir, Succeed, Fail, TreeOK
  <2>4. CASE \E q \in Path : Rename(p, q)
    BY <1>1, <2>4, SMT DEF Rename, Succeed, Fail, TreeOK, Node, IsFile, Exists
  <2>5. CASE \E src \in Payload : Write(p, src) \/ Append_(p, src)
    BY <1>1, <2>5, FileOperation, 0 \in Nat
  <2> QED  BY <2>1, <2>2, <2>3, <2>4, <2>5
<1>4. stale' \subseteq Handle
  BY DEF Command, Touched
<1>5. TypeOK'
  BY <1>1, <1>2, <1>4 DEF TypeOK
<1>6. LoopInv' /\ TestInv' /\ Owned'
  BY <1>1, <1>2, SameOwners DEF NoTest
<1> QED  BY <1>3, <1>5, <1>6 DEF Inv

-----------------------------------------------------------------------------
(* Opening and closing *)

\* No loop is at the descriptors of a process that runs.
LEMMA RunningNotShut ==
    ASSUME TypeOK, LoopInv, NEW p \in Proc, state[p] = "running", NEW f \in Fd
    PROVE  ~Shutting(p, f)
BY SMT DEF LoopInv, Shutting, TypeOK

\* The first of a set of numbers is one of them.
LEMMA FirstIsIn ==
    ASSUME NEW S \in SUBSET Nat, S # {}
    PROVE  (CHOOSE n \in S : \A k \in S : n <= k) \in S
<1> DEFINE R == OpToRel(<, Nat)
<1>1. \A k, n \in Nat : <<k, n>> \in R <=> k < n
  BY DEF OpToRel
<1>2. IsWellFoundedOn(R, Nat)
  BY NatLessThanWellFounded
<1> HIDE DEF R
<1>3. PICK n \in S : \A k \in S : ~(<<k, n>> \in R)
  BY <1>2, WFMin
<1>4. ASSUME NEW k \in S PROVE n <= k
  <2>1. k \in Nat /\ n \in Nat
    OBVIOUS
  <2>2. ~(k < n)
    BY <1>1, <1>3, <2>1
  <2> QED  BY <2>1, <2>2, SMT
<1> QED  BY <1>4

\* The handle that find_free_handle returns is free, and so is the descriptor
\* that SYS_OPEN takes.
LEMMA FreeHandle ==
    ASSUME Free # {}
    PROVE  find_free_handle \in Handle /\ ~open_files[find_free_handle].used
<1>1. Free \in SUBSET Nat
  BY VfsAssumption, SMT DEF Free, Handle
<1>2. find_free_handle \in Free
  BY <1>1, FirstIsIn DEF find_free_handle
<1> QED  BY <1>2 DEF Free

\* user_fd_find_free finds a descriptor that is free.
LEMMA FreeDescriptor ==
    ASSUME NEW p \in Proc, FreeFd(p) # {}
    PROVE  (CHOOSE f \in FreeFd(p) : \A k \in FreeFd(p) : f <= k) \in FreeFd(p)
<1>1. FreeFd(p) \in SUBSET Nat
  BY VfsAssumption, SMT DEF FreeFd, Fd
<1> QED  BY <1>1, FirstIsIn

\* A free handle gets its one holder; a handle loses its holder and is free;
\* nothing changes.
LEMMA GainHolder ==
    ASSUME Owned, NEW h \in Handle, ~open_files[h].used, NEW c0 \in Closer, NEW f0 \in Fd,
           \A k \in Handle, c \in Closer, f \in Fd :
               Holds(c, f, k)' <=> Holds(c, f, k) \/ (c = c0 /\ f = f0 /\ k = h),
           \A k \in Handle : open_files'[k].used <=> open_files[k].used \/ k = h
    PROVE  Owned'
BY SMT DEF Owned

\* A handle that is freed together with its holder leaves the others owned.
LEMMA LoseHolder ==
    ASSUME Owned, NEW h \in Handle, NEW c0 \in Closer, NEW f0 \in Fd, Holds(c0, f0, h),
           \A k \in Handle, c \in Closer, f \in Fd :
               Holds(c, f, k)' <=> Holds(c, f, k) /\ ~(c = c0 /\ f = f0),
           \A k \in Handle : open_files'[k].used <=> open_files[k].used /\ k # h
    PROVE  Owned'
<1>1. \A k \in Handle, c \in Closer, f \in Fd :
          Holds(c, f, k) /\ k # h => ~(c = c0 /\ f = f0)
  BY DEF Holds
<1> QED  BY <1>1, SMT DEF Owned

\* A step that changes neither holders nor used handles keeps them owned.
LEMMA KeepHolders ==
    ASSUME Owned, \A k \in Handle, c \in Closer, f \in Fd : Holds(c, f, k)' <=> Holds(c, f, k),
           \A k \in Handle : open_files'[k].used = open_files[k].used
    PROVE  Owned'
BY SMT DEF Owned

\* The entry that vfs_open_at makes.
LEMMA EnterEntry ==
    ASSUME open_files \in [Handle -> Entry], NEW h \in Handle, NEW path \in Path,
           NEW g \in Flags \cup {ReadOnly}, NEW t, Enter(h, path, g, t), TreeOK', path \in DOMAIN t
    PROVE  /\ open_files' \in [Handle -> Entry] /\ open_files'[h].used
           /\ \A k \in Handle : k # h => open_files'[k] = open_files[k]
<1>1. tree' = t /\ Size(t, path) \in 0 .. MAX_FILE_BYTES
  <2>1. tree' = t
    BY DEF Enter
  <2>2. t[path].data \in Seq(Nat) /\ Len(t[path].data) <= MAX_FILE_BYTES
    BY <2>1 DEF TreeOK, Node
  <2> QED  BY <2>1, <2>2, LenProperties, Facts, SMT DEF Size
<1>2. g.append \in BOOLEAN /\ flags_readable(g) \in BOOLEAN /\ flags_writable(g) \in BOOLEAN
  <2>1. g \in [mode : {"RDONLY", "WRONLY", "RDWR"},
                create : BOOLEAN, trunc : BOOLEAN, append : BOOLEAN]
    <3>1. CASE g \in Flags
      BY <3>1, VfsAssumption
    <3>2. CASE g = ReadOnly
      BY <3>2 DEF ReadOnly
    <3> QED  BY <3>1, <3>2
  <2>2. flags_readable(g) \in BOOLEAN
    BY DEF flags_readable
  <2>3. flags_writable(g) \in BOOLEAN
    BY SMT DEF flags_writable
  <2> QED  BY <2>1, <2>2, <2>3
<1> DEFINE e == [used |-> TRUE, path |-> path, size |-> Size(t, path),
                 offset |-> IF g.append THEN Size(t, path) ELSE 0, append |-> g.append,
                 readable |-> flags_readable(g), writable |-> flags_writable(g)]
<1>3. e \in Entry /\ e.used
  BY <1>1, <1>2, Facts, SMT DEF Entry
<1>4. open_files' = [open_files EXCEPT ![h] = e]
  BY DEF Enter
<1> HIDE DEF e
<1> QED  BY <1>3, <1>4

\* SYS_OPEN: the free handle gets one holder, the descriptor it is entered in.
LEMMA OpenStep ==
    ASSUME ShellIsPatient, Inv, NEW p \in Proc, NEW path \in Path, NEW g \in Flags,
           Open(p, path, g)
    PROVE  Inv'
<1>1. TypeOK /\ TreeOK /\ LoopInv /\ TestInv /\ Owned
  BY DEF Inv
<1> DEFINE f0 == CHOOSE f \in FreeFd(p) : \A k \in FreeFd(p) : f <= k
<1>2. PICK h \in Handle :
          /\ vfs_open_at(h, path, g)
          /\ fds' = [fds EXCEPT ![p][f0] = h]
          /\ stale' = Touched(h)
  BY DEF Open
<1>3. f0 \in Fd /\ fds[p][f0] = NONE
  BY FreeDescriptor DEF Open, FreeFd
<1> HIDE DEF f0
<1>4. Calls(p) /\ UNCHANGED <<state, current, test, loop>>
  BY DEF Open
<1>5. ~open_files[h].used
  BY <1>2, FreeHandle DEF vfs_open_at
<1>6. PICK t : Enter(h, path, g, t) /\ path \in DOMAIN t /\ (t = tree \/ t = Put(path, File(<<>>)))
  BY <1>2 DEF vfs_open_at, IsFile, Exists, Put
<1>7. TreeOK'
  BY <1>1, <1>6, PutKeeps, NewNodes DEF Enter, TreeOK
<1>8. /\ open_files' \in [Handle -> Entry] /\ open_files'[h].used
      /\ \A k \in Handle : k # h => open_files'[k] = open_files[k]
  BY <1>1, <1>6, <1>7, EnterEntry DEF TypeOK, Entry
<1>9. fds \in [Proc -> [Fd -> Handle \cup {NONE}]] /\ fds' \in [Proc -> [Fd -> Handle \cup {NONE}]]
  BY <1>1, <1>2, <1>3 DEF TypeOK
<1>10. TypeOK'
  <2>1. stale' \subseteq Handle
    BY <1>2 DEF Touched
  <2> QED  BY <1>1, <1>4, <1>8, <1>9, <2>1 DEF TypeOK, Entry
<1>11. LoopInv'
  BY <1>1, <1>2, <1>4, <1>9 DEF LoopInv, Calls
<1>12. TestInv'
  <2>1. test.at # "opening"
    BY <1>4, QuietOpening
  <2> QED  BY <1>1, <1>4, <2>1 DEF TestInv
<1>13. Owned'
  <2>1. \A c \in Closer, f \in Fd : Shutting(c, f)' <=> Shutting(c, f)
    BY <1>4 DEF Shutting
  <2>2. ~Shutting(p, f0)
    BY <1>1, <1>3, <1>4, RunningNotShut DEF Calls
  <2>3. \A k \in Handle, c \in Closer, f \in Fd :
            Holds(c, f, k)' <=> Holds(c, f, k) \/ (c = p /\ f = f0 /\ k = h)
    BY <1>2, <1>3, <1>4, <1>9, <2>1, <2>2, Facts, SMT DEF Holds, Closer
  <2>4. \A k \in Handle : open_files'[k].used <=> open_files[k].used \/ k = h
    BY <1>8
  <2> QED  BY <1>1, <1>3, <1>5, <2>3, <2>4, Facts, GainHolder, SMT
<1> QED  BY <1>7, <1>10, <1>11, <1>12, <1>13 DEF Inv

\* vfs_close frees the one handle.
LEMMA ClosedEntry ==
    ASSUME TypeOK, NEW h \in Handle, open_files' = vfs_close(open_files, h)
    PROVE  /\ open_files' \in [Handle -> Entry]
           /\ \A k \in Handle : open_files'[k].used <=> open_files[k].used /\ k # h
<1>1. open_files \in [Handle -> Entry] /\ Unused \in Entry /\ ~Unused.used
  BY Facts, SMT DEF TypeOK, Entry, Unused
<1> QED  BY <1>1 DEF vfs_close

\* SYS_CLOSE: handle and descriptor are given up in one step.
LEMMA CloseStep ==
    ASSUME ShellIsPatient, Inv, NEW p \in Proc, NEW f \in Fd, Close(p, f)
    PROVE  Inv'
<1>1. TypeOK /\ TreeOK /\ LoopInv /\ TestInv /\ Owned
  BY DEF Inv
<1> DEFINE h == fds[p][f]
<1>2. /\ Calls(p) /\ open_files' = vfs_close(open_files, h)
      /\ fds' = [fds EXCEPT ![p][f] = NONE] /\ stale' = stale \ {h}
      /\ UNCHANGED <<tree, ret, state, current, test, loop>>
  BY DEF Close, On
<1>3. h \in Handle
  BY <1>1, DescriptorType DEF Close, On
<1>4. /\ open_files' \in [Handle -> Entry]
      /\ \A k \in Handle : open_files'[k].used <=> open_files[k].used /\ k # h
  BY <1>1, <1>2, <1>3, ClosedEntry
<1>5. fds \in [Proc -> [Fd -> Handle \cup {NONE}]] /\ fds' \in [Proc -> [Fd -> Handle \cup {NONE}]]
  BY <1>1, <1>2 DEF TypeOK
<1>6. TypeOK' /\ TreeOK'
  BY <1>1, <1>2, <1>4, <1>5 DEF TypeOK, Entry, TreeOK
<1>7. LoopInv'
  BY <1>1, <1>2, <1>5 DEF LoopInv, Calls
<1>8. TestInv'
  <2>1. test.at # "opening"
    BY <1>2, QuietOpening
  <2> QED  BY <1>1, <1>2, <2>1 DEF TestInv
<1>9. Owned'
  <2>1. \A c \in Closer, g \in Fd : Shutting(c, g)' <=> Shutting(c, g)
    BY <1>2 DEF Shutting
  <2>2. ~Shutting(p, f)
    BY <1>1, <1>2, RunningNotShut DEF Calls
  <2>3. Holds(p, f, h)
    BY <2>2, Facts DEF Holds
  <2>4. \A k \in Handle, c \in Closer, g \in Fd :
            Holds(c, g, k)' <=> Holds(c, g, k) /\ ~(c = p /\ g = f)
    BY <1>2, <1>5, <2>1, Facts DEF Holds, Closer
  <2> QED  BY <1>1, <1>3, <1>4, <2>3, <2>4, Facts, LoseHolder, SMT
<1> QED  BY <1>6, <1>7, <1>8, <1>9 DEF Inv

-----------------------------------------------------------------------------
(* Processes come and go *)

\* When the shell is idle and no task is closing, no loop is under way.
LEMMA NoLoop ==
    ASSUME ShellIsPatient, ShellIdle, Settled, NEW c \in Closer
    PROVE  loop[c] = Idle
BY DEF ShellIsPatient, ShellIdle, Settled, Closer

\* A process starts in a slot whose descriptors are closed, as the patient shell waits.
LEMMA StartStep ==
    ASSUME ShellIsPatient, Inv, NEW p \in Proc, Start(p)
    PROVE  Inv'
<1>1. TypeOK /\ TreeOK /\ LoopInv /\ TestInv /\ Owned
  BY DEF Inv
<1>2. /\ state[p] = "unused" /\ state' = [state EXCEPT ![p] = "running"] /\ current' = p
      /\ fds' = [fds EXCEPT ![p] = [f \in Fd |-> NONE]]
      /\ UNCHANGED <<tree, ret, open_files, test, loop, stale>>
  BY DEF Start
<1>3. \A c \in Closer : loop[c] = Idle
  BY NoLoop DEF Start
<1>4. /\ fds \in [Proc -> [Fd -> Handle \cup {NONE}]]
      /\ state \in [Proc -> {"unused", "running", "dead"}]
  BY <1>1 DEF TypeOK
<1>5. \A f \in Fd : fds[p][f] = NONE
  BY <1>1, <1>2, <1>3 DEF LoopInv
<1>6. fds' = fds
  BY <1>2, <1>4, <1>5
<1>7. TypeOK' /\ TreeOK' /\ TestInv'
  BY <1>1, <1>2, <1>6 DEF TypeOK, TreeOK, TestInv, IsFile, Exists
<1>8. LoopInv'
  BY <1>1, <1>2, <1>3, <1>4, <1>6, SMT DEF LoopInv
<1>9. Owned'
  BY <1>1, <1>2, <1>6, SameHolders, KeepHolders
<1> QED  BY <1>7, <1>8, <1>9 DEF Inv

\* Exit, Kill and Reap: a closing loop begins on a process nobody is closing.
LEMMA BeginClosing ==
    ASSUME Inv, NEW p \in Proc, NEW c0 \in Closer, c0 \in {p, Shell}, loop[c0] = Idle,
           \A c \in Closer : loop[c] # Idle => loop[c].of # p,
           NEW s \in {"unused", "dead"}, state' = [state EXCEPT ![p] = s],
           loop' = [loop EXCEPT ![c0] = Closing(p)],
           UNCHANGED <<tree, ret, open_files, fds, current, test, stale>>
    PROVE  Inv'
<1>1. TypeOK /\ TreeOK /\ LoopInv /\ TestInv /\ Owned
  BY DEF Inv
<1>2. /\ loop \in [Closer -> [of : Closer, fd : Fd, shut : BOOLEAN]]
      /\ state \in [Proc -> {"unused", "running", "dead"}]
      /\ Closing(p) \in [of : Closer, fd : Fd, shut : BOOLEAN]
  BY <1>1, Facts DEF TypeOK, Closing
<1>3. TypeOK' /\ TreeOK' /\ TestInv'
  BY <1>1, <1>2 DEF TypeOK, TreeOK, TestInv, IsFile, Exists
<1>4. /\ Closing(p).of = p /\ Closing(p).fd = 1 /\ ~Closing(p).shut /\ Closing(p) # Idle
      /\ \A f \in Fd : 1 <= f
  BY Facts, VfsAssumption, SMT DEF Closing, Fd
<1>5. /\ loop'[c0] = Closing(p) /\ state'[p] = s
      /\ \A c \in Closer : c # c0 => loop'[c] = loop[c]
      /\ \A q \in Proc : q # p => state'[q] = state[q]
  BY <1>2
<1>6. LoopInv'
  <2>1. \A c \in Closer : loop'[c] # Idle =>
            /\ loop'[c].of \in Proc /\ state'[loop'[c].of] # "running"
            /\ c # Shell => loop'[c].of = c
    BY <1>1, <1>4, <1>5, SMT DEF LoopInv
  <2>2. \A c, d \in Closer :
            loop'[c] # Idle /\ loop'[d] # Idle /\ loop'[c].of = loop'[d].of => c = d
    BY <1>1, <1>4, <1>5, SMT DEF LoopInv
  <2>3. \A q \in Proc, f \in Fd : state'[q] # "running" /\ fds'[q][f] # NONE =>
            \E c \in Closer : loop'[c] # Idle /\ loop'[c].of = q /\ loop'[c].fd <= f
    BY <1>1, <1>4, <1>5, SMT DEF LoopInv
  <2> QED  BY <2>1, <2>2, <2>3 DEF LoopInv
<1>7. Owned'
  <2>1. \A c \in Closer, f \in Fd : Shutting(c, f)' <=> Shutting(c, f)
    <3> SUFFICES ASSUME NEW c \in Closer, NEW f \in Fd PROVE Shutting(c, f)' <=> Shutting(c, f)
      OBVIOUS
    <3>1. ~(f < 1)
      BY <1>4, VfsAssumption, SMT DEF Fd
    <3> QED  BY <1>4, <1>5, <3>1, SMT DEF Shutting
  <2>2. \A k \in Handle, c \in Closer, f \in Fd : Holds(c, f, k)' <=> Holds(c, f, k)
    BY <2>1 DEF Holds
  <2> QED  BY <1>1, <2>2, KeepHolders
<1> QED  BY <1>3, <1>6, <1>7 DEF Inv

\* The end of a process begins a closing loop, the only one over its descriptors.
LEMMA EndStep ==
    ASSUME ShellIsPatient, Inv, NEW p \in Proc, Exit(p) \/ Kill(p) \/ Reap(p)
    PROVE  Inv'
<1>1. TypeOK /\ LoopInv
  BY DEF Inv
<1>2. state[p] = "running" => \A c \in Closer : loop[c] # Idle => loop[c].of # p
  BY <1>1 DEF LoopInv
<1>3. CASE Exit(p)
  BY <1>2, <1>3, BeginClosing, Facts DEF Exit, Calls
<1>4. CASE Kill(p)
  BY <1>2, <1>4, BeginClosing, Facts DEF Kill, ShellIdle
<1>5. CASE Reap(p)
  BY <1>5, NoLoop, BeginClosing, Facts DEF Reap, ShellIdle
<1> QED  BY <1>3, <1>4, <1>5

\* Whose descriptor a loop is at; no other loop is there.
LEMMA AtDescriptor ==
    ASSUME TypeOK, LoopInv, NEW c \in Closer, loop[c] # Idle
    PROVE  /\ loop[c].of \in Proc /\ loop[c].fd \in Fd /\ loop[c].shut \in BOOLEAN
           /\ loop[c].of # Shell
           /\ \A f \in Fd : Shutting(loop[c].of, f) <=>
                  f < loop[c].fd \/ (f = loop[c].fd /\ loop[c].shut)
<1>1. loop[c].of \in Proc /\ loop[c].fd \in Fd /\ loop[c].shut \in BOOLEAN
  BY DEF TypeOK, LoopInv
<1>2. \A d \in Closer : loop[d] # Idle /\ loop[d].of = loop[c].of => d = c
  BY DEF LoopInv
<1> QED  BY <1>1, <1>2, Facts DEF Shutting

\* The loop closes the handle; its descriptor does not count as a holder any more.
LEMMA ShutStep ==
    ASSUME Inv, NEW c \in Closer, Shut(c)
    PROVE  Inv'
<1>1. TypeOK /\ TreeOK /\ LoopInv /\ TestInv /\ Owned
  BY DEF Inv
<1> DEFINE l == loop[c]
           h == fds[l.of][l.fd]
<1>2. /\ l # Idle /\ ~l.shut /\ stale' = stale \ {h}
      /\ open_files' = IF h = NONE THEN open_files ELSE vfs_close(open_files, h)
      /\ loop' = [loop EXCEPT ![c].shut = TRUE]
      /\ UNCHANGED <<tree, ret, fds, state, current, test>>
  BY DEF Shut
<1>3. /\ l.of \in Proc /\ l.fd \in Fd /\ l.of # Shell
      /\ \A f \in Fd : Shutting(l.of, f) <=> f < l.fd
  BY <1>1, <1>2, AtDescriptor DEF Fd
<1>4. loop \in [Closer -> [of : Closer, fd : Fd, shut : BOOLEAN]]
  BY <1>1 DEF TypeOK
<1>5. /\ loop' \in [Closer -> [of : Closer, fd : Fd, shut : BOOLEAN]]
      /\ loop'[c].of = l.of /\ loop'[c].fd = l.fd /\ loop'[c].shut /\ loop'[c] # Idle
      /\ \A d \in Closer : d # c => loop'[d] = loop[d]
  <2> DEFINE n == [l EXCEPT !.shut = TRUE]
  <2>1. l \in [of : Closer, fd : Fd, shut : BOOLEAN]
    BY <1>4
  <2> HIDE DEF l
  <2>2. /\ n \in [of : Closer, fd : Fd, shut : BOOLEAN]
        /\ n.of = l.of /\ n.fd = l.fd /\ n.shut
    BY <2>1
  <2>3. n # Idle
    BY <1>3, <2>2 DEF Idle
  <2>4. loop' = [loop EXCEPT ![c] = n]
    BY <1>2 DEF l
  <2> HIDE DEF n
  <2> QED  BY <1>4, <2>2, <2>3, <2>4
<1>6. \A q \in Closer, f \in Fd :
          Shutting(q, f)' <=> Shutting(q, f) \/ (q = l.of /\ f = l.fd)
  BY <1>2, <1>5, SMT DEF Shutting
<1>7. ~Shutting(l.of, l.fd)
  BY <1>3, VfsAssumption, SMT DEF Fd
<1>8. LoopInv'
  BY <1>1, <1>2, <1>5, SMT DEF LoopInv
<1>9. CASE h = NONE
  <2>1. TypeOK' /\ TreeOK' /\ TestInv'
    BY <1>1, <1>2, <1>5, <1>9 DEF TypeOK, TreeOK, TestInv, IsFile, Exists
  <2>2. \A k \in Handle, q \in Closer, f \in Fd : Holds(q, f, k)' <=> Holds(q, f, k)
    BY <1>2, <1>6, <1>9, Facts DEF Holds
  <2>3. Owned'
    BY <1>1, <1>2, <1>9, <2>2, KeepHolders
  <2> QED  BY <1>8, <2>1, <2>3 DEF Inv
<1>10. CASE h # NONE
  <2>1. h \in Handle
    BY <1>1, <1>3, <1>10, DescriptorType
  <2>2. /\ open_files' \in [Handle -> Entry]
        /\ \A k \in Handle : open_files'[k].used <=> open_files[k].used /\ k # h
    <3>1. open_files' = vfs_close(open_files, h)
      BY <1>2, <1>10
    <3> HIDE DEF h
    <3> QED  BY <1>1, <2>1, <3>1, ClosedEntry
  <2>3. TypeOK' /\ TreeOK' /\ TestInv'
    BY <1>1, <1>2, <1>5, <2>2 DEF TypeOK, Entry, TreeOK, TestInv, IsFile, Exists
  <2>4. Holds(l.of, l.fd, h)
    BY <1>3, <1>7 DEF Holds
  <2>5. \A k \in Handle, q \in Closer, f \in Fd :
            Holds(q, f, k)' <=> Holds(q, f, k) /\ ~(q = l.of /\ f = l.fd)
    BY <1>2, <1>3, <1>6 DEF Holds
  <2>6. Owned'
    BY <1>1, <1>3, <2>1, <2>2, <2>4, <2>5, Facts, LoseHolder
  <2> QED  BY <1>8, <2>3, <2>6 DEF Inv
<1> QED  BY <1>9, <1>10

\* The loop clears the entry and goes on to the next descriptor, or ends.
LEMMA ForgetStep ==
    ASSUME Inv, NEW c \in Closer, Forget(c)
    PROVE  Inv'
<1>1. TypeOK /\ TreeOK /\ LoopInv /\ TestInv /\ Owned
  BY DEF Inv
<1> DEFINE l == loop[c]
           next == IF l.fd = FDS THEN Idle ELSE [l EXCEPT !.fd = @ + 1, !.shut = FALSE]
<1>2. /\ l # Idle /\ l.shut
      /\ fds' = [fds EXCEPT ![l.of][l.fd] = NONE]
      /\ loop' = [loop EXCEPT ![c] = next]
      /\ UNCHANGED <<tree, ret, open_files, state, test, stale>>
  BY DEF Forget
<1>3. /\ l.of \in Proc /\ l.fd \in Fd /\ l.of # Shell
      /\ \A f \in Fd : Shutting(l.of, f) <=> f <= l.fd
  BY <1>1, <1>2, AtDescriptor, VfsAssumption, SMT DEF Fd
<1>4. /\ loop \in [Closer -> [of : Closer, fd : Fd, shut : BOOLEAN]]
      /\ fds \in [Proc -> [Fd -> Handle \cup {NONE}]]
      /\ l \in [of : Closer, fd : Fd, shut : BOOLEAN]
  BY <1>1 DEF TypeOK
<1>5. next \in [of : Closer, fd : Fd, shut : BOOLEAN]
  <2>1. l.fd # FDS => l.fd + 1 \in Fd
    BY <1>3, VfsAssumption, SMT DEF Fd
  <2>2. Idle \in [of : Closer, fd : Fd, shut : BOOLEAN]
    BY Facts DEF Idle
  <2> QED  BY <1>4, <2>1, <2>2
<1>6. l.fd # FDS => next.of = l.of /\ next.fd = l.fd + 1 /\ ~next.shut /\ next # Idle
  BY <1>3, <1>4 DEF Idle
<1>7. l.fd = FDS => next = Idle
  OBVIOUS
<1> HIDE DEF next
<1>8. /\ loop'[c] = next /\ \A d \in Closer : d # c => loop'[d] = loop[d]
      /\ fds' \in [Proc -> [Fd -> Handle \cup {NONE}]] /\ fds'[l.of][l.fd] = NONE
      /\ \A q \in Proc, f \in Fd : ~(q = l.of /\ f = l.fd) => fds'[q][f] = fds[q][f]
  BY <1>2, <1>3, <1>4
<1>9. \A f \in Fd : f < l.fd => fds[l.of][f] = NONE
  <2> SUFFICES ASSUME NEW f \in Fd, f < l.fd, fds[l.of][f] # NONE PROVE FALSE
    OBVIOUS
  <2>1. state[l.of] # "running"
    BY <1>1, <1>2 DEF LoopInv
  <2>2. PICK d \in Closer : loop[d] # Idle /\ loop[d].of = l.of /\ loop[d].fd <= f
    BY <1>1, <1>3, <2>1 DEF LoopInv
  <2>3. d = c
    BY <1>1, <1>2, <2>2 DEF LoopInv
  <2> QED  BY <1>3, <2>2, <2>3, VfsAssumption, SMT DEF Fd
<1>10. TypeOK' /\ TreeOK' /\ TestInv'
  <2>1. current' \in Proc \cup {NONE}
    BY <1>1 DEF Forget, TypeOK
  <2>2. loop' \in [Closer -> [of : Closer, fd : Fd, shut : BOOLEAN]]
    BY <1>2, <1>4, <1>5
  <2> QED  BY <1>1, <1>2, <1>8, <2>1, <2>2 DEF TypeOK, TreeOK, TestInv, IsFile, Exists
<1>11. LoopInv'
  <2>1. \A d \in Closer : loop'[d] # Idle =>
            /\ loop'[d].of \in Proc /\ state'[loop'[d].of] # "running"
            /\ d # Shell => loop'[d].of = d
    BY <1>1, <1>2, <1>6, <1>7, <1>8, SMT DEF LoopInv
  <2>2. \A d, e \in Closer :
            loop'[d] # Idle /\ loop'[e] # Idle /\ loop'[d].of = loop'[e].of => d = e
    BY <1>1, <1>2, <1>6, <1>7, <1>8, SMT DEF LoopInv
  <2>3. ASSUME NEW q \in Proc, NEW f \in Fd, state'[q] # "running", fds'[q][f] # NONE
        PROVE  \E d \in Closer : loop'[d] # Idle /\ loop'[d].of = q /\ loop'[d].fd <= f
    <3>1. state[q] # "running" /\ fds[q][f] # NONE /\ ~(q = l.of /\ f = l.fd)
      BY <1>2, <1>8, <2>3
    <3>2. PICK d \in Closer : loop[d] # Idle /\ loop[d].of = q /\ loop[d].fd <= f
      BY <1>1, <3>1 DEF LoopInv
    <3>3. CASE d # c
      BY <1>8, <3>2, <3>3
    <3>4. CASE d = c
      <4>1. l.fd # FDS /\ l.fd + 1 <= f
        BY <1>3, <3>1, <3>2, <3>4, VfsAssumption, SMT DEF Fd
      <4> QED  BY <1>6, <1>8, <3>2, <3>4, <4>1
    <3> QED  BY <3>3, <3>4
  <2> QED  BY <2>1, <2>2, <2>3 DEF LoopInv
<1>12. Owned'
  <2>1. \A q \in Closer, f \in Fd : q # l.of => (Shutting(q, f)' <=> Shutting(q, f))
    <3>1. \A d \in Closer : loop'[d] # loop[d] =>
              loop[d].of = l.of /\ (loop'[d] = Idle \/ loop'[d].of = l.of)
      BY <1>6, <1>7, <1>8
    <3> QED  BY <3>1, <1>2 DEF Shutting
  <2>2. \A q \in Closer, f \in Fd : q = l.of /\ f # l.fd /\ ~(f < l.fd) =>
            (Shutting(q, f)' <=> Shutting(q, f))
    <3> SUFFICES ASSUME NEW q \in Closer, NEW f \in Fd, q = l.of, f # l.fd, ~(f < l.fd)
                 PROVE  ~Shutting(q, f)'
      BY <1>3, VfsAssumption, SMT DEF Fd
    <3>1. l.fd # FDS /\ ~(f < l.fd + 1) /\ l.fd + 1 \in Int
      BY <1>3, VfsAssumption, SMT DEF Fd
    <3>2. \A d \in Closer : d # c => ~(loop'[d] # Idle /\ loop'[d].of = l.of)
      BY <1>1, <1>2, <1>8, SMT DEF LoopInv
    <3> QED  BY <1>6, <1>8, <3>1, <3>2 DEF Shutting
  <2>3. \A k \in Handle, q \in Closer, f \in Fd : Holds(q, f, k)' <=> Holds(q, f, k)
    <3> SUFFICES ASSUME NEW k \in Handle, NEW q \in Closer, NEW f \in Fd
                 PROVE  Holds(q, f, k)' <=> Holds(q, f, k)
      OBVIOUS
    <3>1. CASE q = Shell
      BY <1>2, <3>1 DEF Holds
    <3>2. CASE q # Shell /\ q # l.of
      BY <1>8, <2>1, <3>2 DEF Holds, Closer
    <3>3. CASE q = l.of /\ (f < l.fd \/ f = l.fd)
      <4>1. fds'[q][f] = NONE
        <5>1. CASE f = l.fd
          BY <1>8, <3>3, <5>1
        <5>2. CASE f # l.fd
          BY <1>3, <1>8, <1>9, <3>3, <5>2
        <5> QED  BY <5>1, <5>2
      <4>2. Shutting(q, f)
        BY <1>3, <3>3, VfsAssumption, SMT DEF Fd
      <4> QED  BY <1>3, <3>3, <4>1, <4>2, Facts DEF Holds
    <3>4. CASE q = l.of /\ ~(f < l.fd \/ f = l.fd)
      <4>1. fds'[q][f] = fds[q][f]
        BY <1>3, <1>8, <3>4
      <4>2. Shutting(q, f)' <=> Shutting(q, f)
        BY <2>2, <3>4
      <4> QED  BY <1>3, <3>4, <4>1, <4>2 DEF Holds
    <3> QED  BY <3>1, <3>2, <3>3, <3>4
  <2> QED  BY <1>1, <1>2, <2>3, KeepHolders
<1> QED  BY <1>10, <1>11, <1>12 DEF Inv

-----------------------------------------------------------------------------
(* VFSTEST *)

\* VFSTEST has chosen a handle that no program can take meanwhile.
LEMMA TestPickStep ==
    ASSUME Inv, NEW path \in Path, TestPick(path)
    PROVE  Inv'
<1>1. TypeOK /\ TreeOK /\ LoopInv /\ TestInv /\ Owned
  BY DEF Inv
<1>2. /\ test.at = "none" /\ IsFile(path)
      /\ test' = [at |-> "opening", h |-> find_free_handle, path |-> path]
      /\ UNCHANGED <<tree, ret, open_files, fds, state, current, loop, stale>>
  BY DEF TestPick, ShellIdle, NoTest
<1>3. find_free_handle \in Handle /\ ~open_files[find_free_handle].used
  BY FreeHandle DEF TestPick
<1>4. /\ test' \in [at : {"none", "opening", "open"}, h : Handle \cup {NONE}, path : Path \cup {<<>>}]
      /\ test'.at = "opening" /\ test'.h = find_free_handle /\ test'.path = path
  BY <1>2, <1>3, SMTT(30)
<1>5. TypeOK' /\ TreeOK' /\ LoopInv'
  BY <1>1, <1>2, <1>4, SMT DEF TypeOK, TreeOK, LoopInv
<1>6. TestInv'
  BY <1>2, <1>3, <1>4 DEF TestInv, IsFile, Exists
<1>7. \A k \in Handle, c \in Closer, f \in Fd : Holds(c, f, k)' <=> Holds(c, f, k)
  BY <1>2, <1>4 DEF Holds, Shutting
<1>8. Owned'
  BY <1>1, <1>2, <1>7, KeepHolders
<1> QED  BY <1>5, <1>6, <1>8 DEF Inv

\* VFSTEST enters its file: the handle was still free.
LEMMA TestEnterStep ==
    ASSUME Inv, TestEnter
    PROVE  Inv'
<1>1. TypeOK /\ TreeOK /\ LoopInv /\ TestInv /\ Owned
  BY DEF Inv
<1>2. /\ test.at = "opening" /\ test' = [test EXCEPT !.at = "open"]
      /\ Enter(test.h, test.path, ReadOnly, tree)
      /\ UNCHANGED <<fds, state, current, loop, stale>>
  BY DEF TestEnter
<1>3. /\ test \in [at : {"none", "opening", "open"}, h : Handle \cup {NONE}, path : Path \cup {<<>>}]
      /\ test.h \in Handle /\ ~open_files[test.h].used /\ test.path \in DOMAIN tree
  BY <1>1, <1>2 DEF TypeOK, TestInv, IsFile, Exists
<1>4. /\ test' \in [at : {"none", "opening", "open"}, h : Handle \cup {NONE}, path : Path \cup {<<>>}]
      /\ test'.at = "open" /\ test'.h = test.h
  BY <1>2, <1>3
<1>5. TreeOK' /\ test.path \in Path
  BY <1>1, <1>2, <1>3 DEF Enter, TreeOK
<1>6. /\ open_files' \in [Handle -> Entry] /\ open_files'[test.h].used
      /\ \A k \in Handle : k # test.h => open_files'[k] = open_files[k]
  BY <1>1, <1>2, <1>3, <1>5, EnterEntry DEF TypeOK, Entry
<1>7. TypeOK' /\ LoopInv' /\ TestInv'
  BY <1>1, <1>2, <1>3, <1>4, <1>6, SMT DEF TypeOK, Entry, LoopInv, TestInv
<1>8. \A k \in Handle, c \in Closer, f \in Fd :
          Holds(c, f, k)' <=> Holds(c, f, k) \/ (c = Shell /\ f = 1 /\ k = test.h)
  BY <1>2, <1>4, SMT DEF Holds, Shutting
<1>9. Owned'
  BY <1>1, <1>3, <1>6, <1>8, Facts, GainHolder, SMT
<1> QED  BY <1>5, <1>7, <1>9 DEF Inv

\* VFSTEST reads on, or closes its handle.
LEMMA TestReadStep ==
    ASSUME Inv, NEW len \in Length, TestRead(len)
    PROVE  Inv'
<1>1. TypeOK /\ TreeOK /\ LoopInv /\ TestInv /\ Owned
  BY DEF Inv
<1>2. test.at = "open" /\ test.h \in Handle /\ UNCHANGED <<fds, state, current, loop>>
  BY <1>1 DEF TestRead, TestInv
<1>3. CASE vfs_read(test.h, len) /\ UNCHANGED <<test, stale>>
  <2>1. /\ open_files' \in [Handle -> Entry]
        /\ \A k \in Handle : open_files'[k].used = open_files[k].used
    BY <1>1, <1>2, <1>3, ReadMoves
  <2>2. TypeOK' /\ TreeOK'
    BY <1>1, <1>2, <1>3, <2>1 DEF vfs_read, TypeOK, Entry, TreeOK
  <2>3. LoopInv' /\ TestInv' /\ Owned'
    BY <1>1, <1>2, <1>3, <2>1, SameOwners
  <2> QED  BY <2>2, <2>3 DEF Inv
<1>4. CASE /\ open_files' = vfs_close(open_files, test.h)
           /\ test' = NoTest /\ stale' = stale \ {test.h}
           /\ UNCHANGED <<tree, ret>>
  <2>1. /\ open_files' \in [Handle -> Entry]
        /\ \A k \in Handle : open_files'[k].used <=> open_files[k].used /\ k # test.h
    BY <1>1, <1>2, <1>4, ClosedEntry
  <2>2. /\ test' \in [at : {"none", "opening", "open"}, h : Handle \cup {NONE}, path : Path \cup {<<>>}]
        /\ test'.at = "none"
    BY <1>4 DEF NoTest
  <2>3. TypeOK' /\ TreeOK' /\ LoopInv' /\ TestInv'
    BY <1>1, <1>2, <1>4, <2>1, <2>2, SMT DEF TypeOK, Entry, TreeOK, LoopInv, TestInv, NoTest
  <2>4. Holds(Shell, 1, test.h)
    BY <1>2 DEF Holds
  <2>5. \A k \in Handle, c \in Closer, f \in Fd :
            Holds(c, f, k)' <=> Holds(c, f, k) /\ ~(c = Shell /\ f = 1)
    BY <1>2, <2>2, SMT DEF Holds, Shutting
  <2>6. Owned'
    BY <1>1, <1>2, <2>1, <2>4, <2>5, Facts, LoseHolder
  <2> QED  BY <2>3, <2>6 DEF Inv
<1> QED  BY <1>3, <1>4 DEF TestRead

-----------------------------------------------------------------------------
(* Theorems *)

\* Every step keeps the invariant.
LEMMA InvNext == ShellIsPatient /\ Inv /\ [VNext]_vars => Inv'
<1> SUFFICES ASSUME ShellIsPatient, Inv, [VNext]_vars PROVE Inv'
  OBVIOUS
<1>1. CASE UNCHANGED vars
  BY <1>1, SMT DEF vars, Inv, TypeOK, TreeOK, LoopInv, TestInv, Owned, Holds, Shutting,
              IsFile, Exists
<1>2. ASSUME NEW p \in Proc, Start(p) PROVE Inv'
  BY <1>2, StartStep
<1>3. ASSUME NEW p \in Proc, Exit(p) \/ Kill(p) \/ Reap(p) PROVE Inv'
  BY <1>3, EndStep
<1>4. ASSUME NEW p \in Proc, NEW path \in Path, NEW g \in Flags, Open(p, path, g) PROVE Inv'
  BY <1>4, OpenStep
<1>5. ASSUME NEW p \in Proc, NEW f \in Fd, Close(p, f) PROVE Inv'
  BY <1>5, CloseStep
<1>6. ASSUME NEW p \in Proc, NEW f \in Fd,
             \/ \E len \in Length : Read(p, f, len)
             \/ \E offset \in Offset, whence \in {"SET", "CUR", "END"} :
                   Lseek(p, f, offset, whence)
             \/ \E src \in Payload : WriteFd(p, f, src)
      PROVE  Inv'
  BY <1>6, DescriptorStep
<1>7. ASSUME NEW c \in Closer, Shut(c) \/ Forget(c) PROVE Inv'
  BY <1>7, ShutStep, ForgetStep
<1>8. CASE Command
  BY <1>8, CommandStep
<1>9. ASSUME NEW path \in Path, TestPick(path) PROVE Inv'
  BY <1>9, TestPickStep
<1>10. CASE TestEnter
  BY <1>10, TestEnterStep
<1>11. ASSUME NEW len \in Length, TestRead(len) PROVE Inv'
  BY <1>11, TestReadStep
<1> QED  BY <1>1, <1>2, <1>3, <1>4, <1>5, <1>6, <1>7, <1>8, <1>9, <1>10, <1>11 DEF VNext

\* The inductive invariant holds when the shell waits for tasks that close.
THEOREM InvHolds == ASSUME ShellIsPatient PROVE VSpec => []Inv
<1>1. VInit => Inv
  BY InvInit
<1>2. Inv /\ [VNext]_vars => Inv'
  BY ShellIsPatient, InvNext
<1> QED  BY <1>1, <1>2, PTL DEF VSpec

\* However many processes, descriptors and handles there are, and however the
\* ends of processes, REAP and VFSTEST come between each other: a handle in
\* use has exactly one holder and a free one has none.
THEOREM HandlesAreOwnedOnce == ASSUME ShellIsPatient PROVE VSpec => []HandleOwnedOnce
<1>1. Inv => HandleOwnedOnce
  <2> SUFFICES ASSUME Inv PROVE HandleOwnedOnce
    OBVIOUS
  <2>1. TypeOK /\ Owned
    BY DEF Inv
  <2>2. ASSUME NEW h \in Handle, open_files[h].used PROVE \E d \in Holders(h) : Holders(h) = {d}
    <3>1. PICK c \in Closer, f \in Fd : Holds(c, f, h)
      BY <2>1, <2>2 DEF Owned
    <3>2. <<c, f>> \in Holders(h)
      BY <3>1 DEF Holders
    <3>3. \A d \in Holders(h) : d = <<c, f>>
      <4> SUFFICES ASSUME NEW d \in Holders(h) PROVE d = <<c, f>>
        OBVIOUS
      <4>1. d \in Closer \X Fd /\ Holds(d[1], d[2], h)
        BY DEF Holders
      <4>2. d[1] \in Closer /\ d[2] \in Fd /\ d = <<d[1], d[2]>>
        BY <4>1, SMT
      <4>3. d[1] = c /\ d[2] = f
        BY <2>1, <3>1, <4>1, <4>2, SMT DEF Owned
      <4> QED  BY <4>2, <4>3
    <3> QED  BY <3>2, <3>3
  <2>3. ASSUME NEW h \in Handle, ~open_files[h].used PROVE Holders(h) = {}
    <3>1. \A c \in Closer, f \in Fd : ~Holds(c, f, h)
      BY <2>1, <2>3 DEF Owned
    <3> QED  BY <3>1 DEF Holders
  <2> QED  BY <2>1, <2>2, <2>3 DEF HandleOwnedOnce
<1> QED  BY <1>1, InvHolds, PTL

-----------------------------------------------------------------------------
(* Remembered sizes *)

\* A handle that a step neither marks stale nor changes is as good as before.
LEMMA OthersFresh ==
    ASSUME SizeFresh, NEW fresh, stale' = Touched(fresh), NEW k \in Handle, k # fresh,
           k \notin stale', open_files[k].used, open_files'[k].used,
           open_files'[k].path = open_files[k].path, open_files'[k].size = open_files[k].size
    PROVE  FileIn(tree', open_files'[k].path) /\ open_files'[k].size = Size(tree', open_files'[k].path)
<1> DEFINE path == open_files[k].path
<1>1. /\ k \notin stale
      /\ (path \in DOMAIN tree) = (path \in DOMAIN tree')
      /\ path \in DOMAIN tree /\ path \in DOMAIN tree' => tree[path] = tree'[path]
  BY DEF Touched
<1>2. path \in DOMAIN tree /\ ~tree[path].dir /\ open_files[k].size = Size(tree, path)
  BY <1>1 DEF SizeFresh, IsFile, Exists
<1>3. path \in DOMAIN tree' /\ tree[path] = tree'[path]
  BY <1>1, <1>2
<1> QED  BY <1>2, <1>3 DEF FileIn, Size

\* Steps that change neither files nor what handles remember of them.
LEMMA SameSizes ==
    ASSUME SizeFresh, UNCHANGED tree,
           \A k \in Handle : open_files'[k].used /\ k \notin stale' =>
               /\ open_files[k].used /\ k \notin stale
               /\ open_files'[k].path = open_files[k].path
               /\ open_files'[k].size = open_files[k].size
    PROVE  SizeFresh'
BY DEF SizeFresh, IsFile, Exists, Size

\* Moving an offset changes no size.
LEMMA MoveKeepsSizes ==
    ASSUME TypeOK, SizeFresh, NEW h \in Handle, UNCHANGED <<tree, stale>>,
           \E offset : open_files' = [open_files EXCEPT ![h].offset = offset]
    PROVE  SizeFresh'
<1>1. open_files \in [Handle -> Entry]
  BY DEF TypeOK, Entry
<1>2. \A k \in Handle : /\ open_files'[k].used = open_files[k].used
                        /\ open_files'[k].path = open_files[k].path
                        /\ open_files'[k].size = open_files[k].size
  BY <1>1, SMT DEF Entry
<1> QED  BY <1>2, SameSizes

\* A closed handle has no size to be fresh.
LEMMA CloseKeepsSizes ==
    ASSUME TypeOK, SizeFresh, NEW h \in Handle, UNCHANGED tree,
           open_files' = vfs_close(open_files, h), stale' = stale \ {h}
    PROVE  SizeFresh'
<1>1. /\ \A k \in Handle : open_files'[k].used => k # h
      /\ \A k \in Handle : k # h => open_files'[k] = open_files[k]
  BY DEF TypeOK, vfs_close, Unused
<1> QED  BY <1>1, SameSizes

\* The handle that vfs_open_at enters has the size it has just read.
LEMMA EnterKeepsSizes ==
    ASSUME TypeOK, SizeFresh, NEW h \in Handle, NEW path, NEW g, NEW t, Enter(h, path, g, t),
           FileIn(t, path),
           \A k \in Handle : k # h /\ k \notin stale' /\ open_files'[k].used =>
               FileIn(tree', open_files'[k].path) /\ open_files'[k].size = Size(tree', open_files'[k].path)
    PROVE  SizeFresh'
<1>1. open_files'[h].path = path /\ open_files'[h].size = Size(t, path) /\ tree' = t
  BY DEF Enter, TypeOK
<1>2. \A k \in Handle : k \notin stale' /\ open_files'[k].used =>
          FileIn(tree', open_files'[k].path) /\ open_files'[k].size = Size(tree', open_files'[k].path)
  BY <1>1
<1> QED  BY <1>2 DEF SizeFresh, IsFile, Exists, FileIn, Size

\* SYS_OPEN that creates or empties a file makes the other handles on it stale.
LEMMA OpenKeepsSizes ==
    ASSUME Inv, SizeFresh, NEW p \in Proc, NEW path \in Path, NEW g \in Flags, Open(p, path, g)
    PROVE  SizeFresh'
<1>1. PICK h \in Handle : vfs_open_at(h, path, g) /\ stale' = Touched(h)
  BY DEF Open
<1>2. PICK t : Enter(h, path, g, t) /\ FileIn(t, path)
  BY <1>1, SMT DEF vfs_open_at, IsFile, Exists, Put, File, FileIn
<1>3. TypeOK
  BY DEF Inv
<1>4. \A k \in Handle : k # h => open_files'[k] = open_files[k]
  BY <1>2, <1>3 DEF Enter, TypeOK
<1>5. \A k \in Handle : k # h /\ k \notin stale' /\ open_files'[k].used =>
          FileIn(tree', open_files'[k].path) /\ open_files'[k].size = Size(tree', open_files'[k].path)
  BY <1>1, <1>4, OthersFresh
<1> QED  BY <1>2, <1>3, <1>5, EnterKeepsSizes

\* SYS_WRITE refreshes its own handle and makes the others on the file stale.
LEMMA WriteKeepsSizes ==
    ASSUME Inv, SizeFresh, NEW p \in Proc, NEW f \in Fd, NEW src \in Payload, WriteFd(p, f, src)
    PROVE  SizeFresh'
<1> DEFINE h == fds[p][f]
           e == open_files[h]
           fresh == IF ret' = "ok" /\ FileIn(tree', e.path) THEN h ELSE NONE
<1>1. TypeOK /\ h \in Handle /\ open_files \in [Handle -> Entry] /\ e \in Entry
  BY DescriptorType DEF Inv, WriteFd, On, TypeOK, Entry
<1>2. stale' = Touched(fresh) /\ vfs_write(h, src)
  BY DEF WriteFd
<1>3. CASE ret' = "ok" /\ FileIn(tree', e.path)
  <2>1. open_files' = [open_files EXCEPT ![h] = Refreshed(e, src)] /\ fresh = h
    BY <1>2, <1>3 DEF vfs_write
  <2>2. open_files'[h].path = e.path /\ open_files'[h].size = Size(tree', e.path)
    BY <1>1, <1>3, <2>1 DEF Refreshed, FileIn, Entry
  <2>3. \A k \in Handle : k # h => open_files'[k] = open_files[k]
    BY <1>1, <2>1
  <2>4. \A k \in Handle : k \notin stale' /\ open_files'[k].used =>
            FileIn(tree', open_files'[k].path) /\ open_files'[k].size = Size(tree', open_files'[k].path)
    BY <1>2, <1>3, <2>1, <2>2, <2>3, OthersFresh
  <2> QED  BY <2>4 DEF SizeFresh, IsFile, Exists, FileIn, Size
<1>4. CASE ret' = "ok" /\ ~FileIn(tree', e.path)
  <2>1. open_files' = [open_files EXCEPT ![h] = Refreshed(e, src)] /\ fresh = NONE
    BY <1>2, <1>4 DEF vfs_write
  <2>2. open_files'[h].path = e.path /\ open_files'[h].used = e.used
    BY <1>1, <2>1 DEF Refreshed, Entry
  <2>3. \A k \in Handle : k # h => open_files'[k] = open_files[k]
    BY <1>1, <2>1
  <2>4. e.used => h \in stale'
    <3> SUFFICES ASSUME e.used, h \notin stale' PROVE FALSE
      OBVIOUS
    <3>1. /\ h \notin stale
          /\ (e.path \in DOMAIN tree) = (e.path \in DOMAIN tree')
          /\ e.path \in DOMAIN tree /\ e.path \in DOMAIN tree' => tree[e.path] = tree'[e.path]
      BY <1>1, <1>2, <2>1, <2>2, Facts DEF Touched
    <3>2. e.path \in DOMAIN tree /\ ~tree[e.path].dir
      BY <1>1, <3>1 DEF SizeFresh, IsFile, Exists
    <3> QED  BY <1>4, <3>1, <3>2 DEF FileIn
  <2>5. \A k \in Handle : k \notin stale' /\ open_files'[k].used =>
            FileIn(tree', open_files'[k].path) /\ open_files'[k].size = Size(tree', open_files'[k].path)
    <3> SUFFICES ASSUME NEW k \in Handle, k \notin stale', open_files'[k].used
                 PROVE  /\ FileIn(tree', open_files'[k].path)
                        /\ open_files'[k].size = Size(tree', open_files'[k].path)
      OBVIOUS
    <3>1. k # h /\ k # fresh
      BY <2>1, <2>2, <2>4, Facts
    <3>2. open_files'[k] = open_files[k] /\ stale' = Touched(fresh)
      BY <1>2, <2>3, <3>1
    <3> QED  BY <3>1, <3>2, OthersFresh
  <2> QED  BY <2>5 DEF SizeFresh, IsFile, Exists, FileIn, Size
<1>5. CASE ret' # "ok"
  <2>1. open_files' = open_files /\ fresh = NONE
    BY <1>2, <1>5 DEF vfs_write
  <2>2. \A k \in Handle : k \notin stale' /\ open_files'[k].used =>
            FileIn(tree', open_files'[k].path) /\ open_files'[k].size = Size(tree', open_files'[k].path)
    BY <1>2, <2>1, Facts, OthersFresh
  <2> QED  BY <2>2 DEF SizeFresh, IsFile, Exists, FileIn, Size
<1> QED  BY <1>3, <1>4, <1>5

\* Every step keeps the sizes fresh.
LEMMA SizesNext == ShellIsPatient /\ Inv /\ SizeFresh /\ [VNext]_vars => SizeFresh'
<1> SUFFICES ASSUME ShellIsPatient, Inv, SizeFresh, [VNext]_vars PROVE SizeFresh'
  OBVIOUS
<1>0. TypeOK /\ TestInv /\ LoopInv
  BY DEF Inv
<1>1. CASE UNCHANGED vars
  BY <1>1, SameSizes DEF vars
<1>2. ASSUME NEW p \in Proc, Start(p) \/ Exit(p) \/ Kill(p) \/ Reap(p) PROVE SizeFresh'
  BY <1>2, SameSizes DEF Start, Exit, Kill, Reap
<1>3. ASSUME NEW p \in Proc, NEW path \in Path, NEW g \in Flags, Open(p, path, g) PROVE SizeFresh'
  BY <1>3, OpenKeepsSizes
<1>4. ASSUME NEW p \in Proc, NEW f \in Fd, Close(p, f) PROVE SizeFresh'
  <2>1. fds[p][f] \in Handle
    BY <1>0, <1>4, DescriptorType DEF Close, On
  <2> QED  BY <1>0, <1>4, <2>1, CloseKeepsSizes DEF Close
<1>5. ASSUME NEW p \in Proc, NEW f \in Fd, NEW len \in Length, Read(p, f, len) PROVE SizeFresh'
  <2>1. fds[p][f] \in Handle
    BY <1>0, <1>5, DescriptorType DEF Read, On
  <2>2. /\ UNCHANGED <<tree, stale>>
        /\ \E offset : open_files' = [open_files EXCEPT ![fds[p][f]].offset = offset]
    BY <1>0, <1>5, <2>1 DEF Read, vfs_read, TypeOK
  <2> QED  BY <1>0, <2>1, <2>2, MoveKeepsSizes
<1>6. ASSUME NEW p \in Proc, NEW f \in Fd, NEW offset \in Offset,
             NEW whence \in {"SET", "CUR", "END"}, Lseek(p, f, offset, whence)
      PROVE  SizeFresh'
  <2>1. fds[p][f] \in Handle
    BY <1>0, <1>6, DescriptorType DEF Lseek, On
  <2>2. /\ UNCHANGED <<tree, stale>>
        /\ \E new : open_files' = [open_files EXCEPT ![fds[p][f]].offset = new]
    BY <1>6 DEF Lseek, vfs_lseek
  <2> QED  BY <1>0, <2>1, <2>2, MoveKeepsSizes
<1>7. ASSUME NEW p \in Proc, NEW f \in Fd, NEW src \in Payload, WriteFd(p, f, src)
      PROVE  SizeFresh'
  BY <1>7, WriteKeepsSizes
<1>8. ASSUME NEW c \in Closer, Shut(c) PROVE SizeFresh'
  <2> DEFINE h == fds[loop[c].of][loop[c].fd]
  <2>1. loop[c].of \in Proc /\ loop[c].fd \in Fd
    BY <1>0, <1>8, AtDescriptor DEF Shut
  <2>2. /\ stale' = stale \ {h} /\ UNCHANGED tree
        /\ open_files' = IF h = NONE THEN open_files ELSE vfs_close(open_files, h)
    BY <1>8 DEF Shut
  <2>3. CASE h = NONE
    BY <2>2, <2>3, Facts, SameSizes
  <2>4. CASE h # NONE
    BY <1>0, <2>1, <2>2, <2>4, DescriptorType, CloseKeepsSizes
  <2> QED  BY <2>3, <2>4
<1>9. ASSUME NEW c \in Closer, Forget(c) PROVE SizeFresh'
  BY <1>9, SameSizes DEF Forget
<1>10. CASE Command
  <2>1. stale' = Touched(NONE) /\ open_files' = open_files
    BY <1>10 DEF Command
  <2>2. \A k \in Handle : k \notin stale' /\ open_files'[k].used =>
            FileIn(tree', open_files'[k].path) /\ open_files'[k].size = Size(tree', open_files'[k].path)
    BY <2>1, Facts, OthersFresh
  <2> QED  BY <2>2 DEF SizeFresh, IsFile, Exists, FileIn, Size
<1>11. ASSUME NEW path \in Path, TestPick(path) PROVE SizeFresh'
  BY <1>11, SameSizes DEF TestPick
<1>12. CASE TestEnter
  <2>1. /\ test.h \in Handle /\ FileIn(tree, test.path) /\ UNCHANGED stale
        /\ Enter(test.h, test.path, ReadOnly, tree)
    BY <1>0, <1>12 DEF TestEnter, TestInv, IsFile, Exists, FileIn
  <2>2. tree' = tree /\ \A k \in Handle : k # test.h => open_files'[k] = open_files[k]
    BY <1>0, <2>1 DEF Enter, TypeOK
  <2>3. \A k \in Handle : k # test.h /\ k \notin stale' /\ open_files'[k].used =>
            FileIn(tree', open_files'[k].path) /\ open_files'[k].size = Size(tree', open_files'[k].path)
    BY <2>1, <2>2 DEF SizeFresh, IsFile, Exists, FileIn, Size
  <2> QED  BY <1>0, <2>1, <2>3, EnterKeepsSizes
<1>13. ASSUME NEW len \in Length, TestRead(len) PROVE SizeFresh'
  <2>1. test.h \in Handle
    BY <1>0, <1>13 DEF TestRead, TestInv
  <2>2. CASE vfs_read(test.h, len) /\ UNCHANGED <<test, stale>>
    <3>1. /\ UNCHANGED <<tree, stale>>
          /\ \E offset : open_files' = [open_files EXCEPT ![test.h].offset = offset]
      BY <1>0, <2>1, <2>2 DEF vfs_read, TypeOK
    <3> QED  BY <1>0, <2>1, <3>1, MoveKeepsSizes
  <2>3. CASE /\ open_files' = vfs_close(open_files, test.h)
             /\ test' = NoTest /\ stale' = stale \ {test.h}
             /\ UNCHANGED <<tree, ret>>
    BY <1>0, <2>1, <2>3, CloseKeepsSizes
  <2> QED  BY <1>13, <2>2, <2>3 DEF TestRead
<1> QED  BY <1>1, <1>2, <1>3, <1>4, <1>5, <1>6, <1>7, <1>8, <1>9, <1>10, <1>11, <1>12, <1>13 DEF VNext

\* What a handle remembers as the size of its file is the size as long as
\* nobody else has changed the file: every write, truncation and append
\* through the handle brings it up to date.
THEOREM SizesStayFresh == ASSUME ShellIsPatient PROVE VSpec => []SizeFresh
<1>1. VInit => SizeFresh
  BY SMT DEF VInit, SizeFresh, Unused
<1>2. Inv /\ SizeFresh /\ [VNext]_vars => SizeFresh'
  BY ShellIsPatient, SizesNext
<1> QED  BY <1>1, <1>2, InvHolds, PTL DEF VSpec

\* Appending through a handle writes behind the last byte of the file.
LEMMA AppendStep ==
    ASSUME Inv, NEW p \in Proc, NEW f \in Fd, NEW src \in Payload, WriteFd(p, f, src),
           open_files[fds[p][f]].append, NEW path \in DOMAIN tree
    PROVE  SubSeq(tree'[path].data, 1, Len(tree[path].data)) = tree[path].data
<1> DEFINE file == open_files[fds[p][f]].path
<1>1. Append_(file, src)
  BY DEF WriteFd, vfs_write, Backend
<1>2. \/ tree' = tree
      \/ IsFile(file) /\ tree' = Put(file, File(tree[file].data \o src))
  BY <1>1 DEF Append_, Succeed, NeedsRoom, Fail
<1>3. tree[path].data \in Seq(Nat) /\ src \in Seq(Nat)
  BY VfsAssumption DEF Inv, TreeOK, Node
<1>4. ASSUME NEW s \in Seq(Nat), NEW t \in Seq(Nat)
      PROVE  SubSeq(s, 1, Len(s)) = s /\ SubSeq(s \o t, 1, Len(s)) = s
  BY SubSeqProperties, ConcatProperties, LenProperties, SMT
<1>5. CASE tree'[path] = tree[path]
  BY <1>3, <1>4, <1>5
<1>6. CASE tree'[path] = File(tree[path].data \o src)
  BY <1>3, <1>4, <1>6, SMT DEF File
<1> QED  BY <1>2, <1>5, <1>6 DEF Put

\* Whoever else has written since the file was opened: a write through a
\* handle opened for appending keeps every byte of every file.
THEOREM AppendsKeep == ASSUME ShellIsPatient PROVE VSpec => AppendKeeps
<1>1. Inv => \A p \in Proc, f \in Fd, src \in Payload :
          WriteFd(p, f, src) /\ open_files[fds[p][f]].append =>
              \A path \in DOMAIN tree :
                  SubSeq(tree'[path].data, 1, Len(tree[path].data)) = tree[path].data
  BY AppendStep
<1> QED  BY <1>1, InvHolds, PTL DEF AppendKeeps

=============================================================================
