---------------------------- MODULE InitialStack ----------------------------
(***************************************************************************)
(* The stack that a program starts with: user_process_build_initial_stack  *)
(* (cpu/user_mode.c) lays the arguments out in the stack page.  A byte is  *)
(* a pair of "char" and a character, or a part of a u32 and says of which  *)
(* and which part.                                                         *)
(***************************************************************************)
EXTENDS Elf

CONSTANTS
    PTR,               \* bytes of a u32
    USER_MAX_ARGS, USER_ARG_MAX

\* The arguments always fit: 8 * 64 characters and 13 words in 4096 bytes.
ASSUME InitialStackAssumption ==
    /\ {PTR, USER_MAX_ARGS, USER_ARG_MAX} \subseteq Nat \ {0}
    /\ STACK_TOP % PTR = 0 /\ PAGE % PTR = 0 /\ STACK_TOP > PAGE
    /\ USER_MAX_ARGS * USER_ARG_MAX + PTR - 1 + (USER_MAX_ARGS + 5) * PTR <= PAGE

VARIABLES
    argv,              \* process->argv
    stack,             \* the bytes of the stack page
    stack_entry        \* process->stack_entry

stackVars == <<argv, stack, stack_entry>>

StackPage == STACK_TOP - PAGE .. STACK_TOP - 1
NUL == <<"char", "">>

\* user_process_map_stack: memory_set of the frame.
StackInit ==
    /\ argv = <<>> /\ stack_entry = STACK_TOP
    /\ stack = [a \in StackPage |-> NUL]

\* Mutant of StringPtrs: the terminators get no room.
StringPtrs_Tight(args) ==
    LET ptr[k \in 1 .. Len(args) + 1] ==
            IF k > Len(args) THEN STACK_TOP ELSE ptr[k + 1] - Len(args[k])
    IN  ptr

\* string_ptrs: the last string ends at the top of the stack.
StringPtrs(args) ==
    LET ptr[k \in 1 .. Len(args) + 1] ==
            IF k > Len(args) THEN STACK_TOP ELSE ptr[k + 1] - (Len(args[k]) + 1)
    IN  ptr

\* The words below the strings, upwards from the stack pointer: argc, argv,
\* envp, the pointers of argv with its NULL, and the NULL of envp.
StackWords(args, entry) ==
    <<Len(args), entry + 3 * PTR, entry + (Len(args) + 4) * PTR>>
    \o [k \in DOMAIN args |-> StringPtrs(args)[k]] \o <<0, 0>>

\* sp &= ~3
Aligned(sp) == sp - (sp % PTR)

\* user_process_build_initial_stack.
BuildStack ==
    LET ptrs == StringPtrs(argv)
        base == Aligned(ptrs[1])
        entry == base - (Len(argv) + 5) * PTR
        words == StackWords(argv, entry)
        StringByte(a) ==
            LET k == CHOOSE j \in DOMAIN argv : ptrs[j] <= a /\ a < ptrs[j + 1]
            IN  IF a - ptrs[k] < Len(argv[k]) THEN <<"char", argv[k][a - ptrs[k] + 1]>> ELSE NUL
    IN
    IF \/ \E k \in DOMAIN argv : ptrs[k] < STACK_TOP - PAGE
       \/ entry < STACK_TOP - PAGE
    THEN stack_entry' = 0 /\ UNCHANGED stack
    ELSE /\ stack_entry' = entry
         /\ stack' = [a \in StackPage |->
                IF a >= ptrs[1] THEN StringByte(a)
                ELSE IF entry <= a /\ a < base
                THEN <<"u32", words[(a - entry) \div PTR + 1], (a - entry) % PTR>>
                ELSE stack[a]]

-----------------------------------------------------------------------------
(* What the start-up code of a program (user/crt0.asm) finds. *)

IsWord(a) == /\ a % PTR = 0 /\ a \in StackPage /\ Len(stack[a]) = 3
             /\ \A k \in 0 .. PTR - 1 : stack[a + k] = <<"u32", stack[a][2], k>>
Word(a) == stack[a][2]

IsString(a) == a \in StackPage /\ \E b \in a .. STACK_TOP - 1 :
                  stack[b] = NUL /\ \A m \in a .. b : stack[m][1] = "char"
StringAt(a) ==
    LET end == CHOOSE b \in a .. STACK_TOP - 1 :
                  stack[b] = NUL /\ \A m \in a .. b - 1 : stack[m] # NUL
    IN  [m \in 1 .. end - a |-> stack[a + m - 1][2]]

\* argc words at argv, each the address of a string, and a NULL behind them.
ArgvFound ==
    /\ \A k \in 0 .. 2 : IsWord(stack_entry + k * PTR)
    /\ LET argc == Word(stack_entry)
           table == Word(stack_entry + PTR)
           envp == Word(stack_entry + 2 * PTR)
       IN  /\ \A k \in 0 .. argc : IsWord(table + k * PTR)
           /\ Word(table + argc * PTR) = 0
           /\ IsWord(envp) /\ Word(envp) = 0
           /\ \A k \in 0 .. argc - 1 : IsString(Word(table + k * PTR))

ArgPtr(k) == Word(Word(stack_entry + PTR) + (k - 1) * PTR)
ArgsFound == [k \in 1 .. Word(stack_entry) |-> StringAt(ArgPtr(k))]

\* Arguments of the characters C, as many and as long as process->argv can hold.
ArgvType(C) ==
    /\ argv \in Seq(Seq(C)) /\ Len(argv) <= USER_MAX_ARGS
    /\ \A k \in 1 .. Len(argv) : Len(argv[k]) < USER_ARG_MAX

\* The stack was built, and the start-up code finds in it what argv holds.
ArgvArrives == stack_entry # 0 /\ ArgvFound /\ ArgsFound = argv

=============================================================================
