----------------------------- MODULE UserMemory -----------------------------
(***************************************************************************)
(* The arguments of a system call that point into the memory of the        *)
(* program: user_memory_ok (cpu/user_mode.c), address_space_user_pages_ok  *)
(* (memory/paging.c), and the string functions of cpu/syscall.c; with the  *)
(* pages and regions that the loader has made, and the initial stack.      *)
(* System calls run with interrupts off; one call of each program is       *)
(* followed.                                                               *)
(***************************************************************************)
EXTENDS InitialStack, Paths

CONSTANTS
    MAX_USER_BUFFER, MAX_USER_STRING,
    POINTERS, LENGTHS  \* addresses and lengths that programs pass

ASSUME UserMemoryAssumption ==
    /\ {MAX_USER_BUFFER, MAX_USER_STRING} \subseteq Nat \ {0}
    /\ POINTERS \cup LENGTHS \subseteq 0 .. WORD - 1

VARIABLES
    call,              \* [kind, ptr, len, zeros]: the last, zero bytes in the
                       \* stack of a program that has overwritten it
    n,                 \* characters done
    touched,           \* addresses the kernel has read or written
    at

calls == <<call, n, touched, at>>

\* current_user_process->program->regions, when the program is loaded.
Regions ==
    {[start |-> headers[k].vaddr, len |-> headers[k].memsz, write |-> headers[k].write] : k \in Loads}
    \cup {[start |-> STACK_TOP - PAGE, len |-> PAGE, write |-> TRUE]}

\* The page of address a is present and for users.
Present(a) == page_down(a) \in DOMAIN pages \/ a \in StackPage

\* There is a zero byte at address a.
ZeroAt(a) ==
    IF a \in StackPage THEN IF call.kind = "arg" THEN stack[a] = NUL ELSE a \in call.zeros
    ELSE Present(a) /\ pages[page_down(a)][a % PAGE] = 0

NoCall == [kind |-> "none", ptr |-> 0, len |-> 0, zeros |-> {}]

UInit == Init /\ StackInit /\ call = NoCall /\ n = 0 /\ touched = {} /\ at = "none"

\* The program makes a call: with a buffer, with a string at any address, or
\* with one of its arguments.  A pointer is a word.
Call ==
    /\ pc = "loaded" /\ at = "none" /\ at' = "call"
    /\ call' \in [kind : {"in", "out"}, ptr : POINTERS, len : LENGTHS, zeros : {{}}]
                \cup [kind : {"string"}, ptr : POINTERS, len : {0}, zeros : {{}, {STACK_TOP - 1}}]
                \cup {[kind |-> "arg", ptr |-> ArgPtr(k), len |-> k, zeros |-> {}] : k \in DOMAIN argv}
    /\ call'.ptr \in 0 .. WORD - 1
    /\ UNCHANGED <<vars, stackVars, n, touched>>

-----------------------------------------------------------------------------

\* address_space_user_pages_ok: the walk from the first page to the last.
PagesOk(ptr, len) ==
    LET end == (ptr + len - 1) % WORD
        walk[m \in 0 .. WORD \div PAGE - 1] ==
            /\ Present(m * PAGE)
            /\ m = end \div PAGE \/ ((m + 1) * PAGE < WORD /\ walk[m + 1])
    IN  len = 0 \/ (end >= ptr /\ walk[ptr \div PAGE])

\* Mutants of RegionOk: the region begins before the buffer, whatever its end;
\* the end of the region is not part of it.
RegionOk_Start(r, ptr, end) == r.len # 0 /\ ptr >= r.start /\ ptr <= r.start + r.len - 1
RegionOk_Short(r, ptr, end) == r.len # 0 /\ ptr >= r.start /\ end < r.start + r.len - 1

\* The comparison of user_memory_ok with one region.
RegionOk(r, ptr, end) ==
    LET region_end == (r.start + r.len - 1) % WORD
    IN  r.len # 0 /\ region_end >= r.start /\ ptr >= r.start /\ end <= region_end

user_memory_ok(ptr, len, write) ==
    /\ PagesOk(ptr, len)
    /\ \/ len = 0
       \/ LET end == (ptr + len - 1) % WORD
          IN  end >= ptr /\ \E r \in Regions : RegionOk(r, ptr, end) /\ (write => r.write)

Bytes(ptr, len) == {(ptr + k) % WORD : k \in 0 .. len - 1}

\* SYS_WRITE and SYS_WRITE_BUFFER read the buffer, SYS_READ and SYS_READ_LINE
\* write it (SYS_READ_LINE refuses length zero, too).
Buffer ==
    /\ at = "call" /\ call.kind \in {"in", "out"}
    /\ IF call.len <= MAX_USER_BUFFER /\ user_memory_ok(call.ptr, call.len, call.kind = "out")
       THEN at' = "done" /\ touched' = Bytes(call.ptr, call.len)
       ELSE at' = "inval" /\ UNCHANGED touched
    /\ UNCHANGED <<vars, stackVars, call, n>>

\* user_cstring_ok: the test before the loop, and one character of the loop.
StringCall ==
    /\ at = "call" /\ call.kind \in {"string", "arg"}
    /\ at' = IF user_memory_ok(call.ptr, 1, FALSE) THEN "check" ELSE "inval"
    /\ UNCHANGED <<vars, stackVars, call, n, touched>>

CheckChar ==
    LET addr == (call.ptr + n) % WORD IN
    /\ at = "check"
    /\ IF n >= MAX_USER_STRING \/ addr < call.ptr \/ ~user_memory_ok(addr, 1, FALSE)
       THEN at' = "inval" /\ UNCHANGED <<n, touched>>
       ELSE /\ touched' = touched \cup {addr}
            /\ IF ZeroAt(addr) THEN at' = "copy" /\ n' = 0 ELSE n' = n + 1 /\ UNCHANGED at
    /\ UNCHANGED <<vars, stackVars, call>>

\* copy_user_cstring of SYS_OPEN and SYS_STAT: one character.
CopyChar ==
    LET addr == (call.ptr + n) % WORD IN
    /\ at = "copy"
    /\ IF n >= VFS_MAX_PATH THEN at' = "inval" /\ UNCHANGED <<n, touched>>
       ELSE /\ touched' = touched \cup {addr} /\ n' = n + 1
            /\ at' = IF ZeroAt(addr) THEN "done" ELSE "copy"
    /\ UNCHANGED <<vars, stackVars, call>>

UNext ==
    \/ Next /\ UNCHANGED <<stackVars, calls>>
    \/ Call \/ Buffer \/ StringCall \/ CheckChar \/ CopyChar

-----------------------------------------------------------------------------

\* Whatever the arguments, the kernel reads and writes for a program only
\* bytes whose page is the program's and that lie in a region of it with the
\* permission needed; also in the middle of a buffer, and for a string behind
\* its first page, although user_memory_ok computes only with the ends.
OnlyOwnMemory ==
    \A a \in touched :
        /\ Present(a)
        /\ \E r \in Regions : a \in r.start .. r.start + r.len - 1 /\ (call.kind = "out" => r.write)

\* A buffer of legal length inside a segment of the loaded program, or its
\* stack, is never refused when the permission is there: the loader has mapped
\* what it promised in the regions, and neither the wrap-around tests of
\* user_memory_ok nor the end of the page walk hit an address that is valid.
ValidAccepted ==
    /\ at = "inval" /\ call.kind \in {"in", "out"} /\ call.len \in 1 .. MAX_USER_BUFFER
    => \A r \in Regions :
          \/ call.kind = "out" /\ ~r.write
          \/ \E a \in call.ptr .. call.ptr + call.len - 1 : a \notin r.start .. r.start + r.len - 1

=============================================================================
