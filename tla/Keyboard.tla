------------------------------ MODULE Keyboard ------------------------------
(***************************************************************************)
(* Lines from the keyboard.  The interrupt handler of drivers/keyboard.c   *)
(* collects keys and hands over one line at a time in a buffer that the    *)
(* main loop of kernel.c and the running user program share; an owner says *)
(* whose turn it is.  The shell and the entry of a program run with        *)
(* interrupts on, and both can be interrupted between any two assignments. *)
(* Keys are echoed by the handler, on the screen that shell and program    *)
(* print to.                                                               *)
(*                                                                         *)
(* One program at a time.  Lines are numbered as they are typed.           *)
(***************************************************************************)
EXTENDS Screen

CONSTANTS
    Key,               \* keys that have a character
    KEYS,              \* bound on the keys of a line
    LINES,             \* bound on the lines typed
    SHOWN,             \* bound on what a program prints
    WINDOWS            \* where the timer or a key may come between: "call", from
                       \* the test of the owner to the end of the command;
                       \* "entry", from the clearing of the line to the change
                       \* of the owner; "ports", while the shell moves the cursor

NUL == "NUL"
SIGN == ">"            \* the prompt

\* 1023 keys never reach back over the top of a screen of 25 rows of 80.
ASSUME KeyboardAssumption ==
    /\ {KEYS, LINES, SHOWN} \subseteq Nat /\ WINDOWS \subseteq {"call", "entry", "ports"}
    /\ KEYS <= (MAX_ROWS - 1) * MAX_COLS /\ {NL, NUL} \cap Key = {}

VARIABLES
    key_buffer, line_buffer, line_ready, keyboard_owner,
    number,            \* of the line in line_buffer
    shell, command,    \* where main() is, and the command it is working on
    port, pos,         \* shell_print_prompt: register access, and the position
    program,           \* where the program is
    typed,             \* every line as it was typed
    got                \* who was given which line, and as what

vars == <<key_buffer, line_buffer, line_ready, keyboard_owner, number, shell, command,
          port, pos, program, typed, got, screenVars>>
buffers == <<key_buffer, line_buffer, line_ready, number>>
history == <<typed, got>>
prompt == <<port, pos>>
main == <<shell, command, prompt>>

Nothing == [number |-> 0, word |-> NUL]

\* line_buffer as a string: what stands before its first zero byte.
Text(buf) == SubSeq(buf, 1, SelectInSeq(buf, LAMBDA c : c = NUL) - 1)
Cut(buf) == [buf EXCEPT ![1] = NUL]

Init ==
    /\ key_buffer = <<>> /\ line_buffer = [i \in 1 .. KEYS + 1 |-> NUL] /\ line_ready = FALSE
    /\ keyboard_owner = "shell" /\ number = 0
    /\ shell = "prompt" /\ program = "none"
    /\ command = Nothing /\ port = 0 /\ pos = 0
    /\ typed = <<>> /\ got = <<>>
    /\ ScreenInit

-----------------------------------------------------------------------------
(* keyboard_callback *)

Press(k) ==
    /\ Len(key_buffer) < KEYS
    /\ key_buffer' = Append(key_buffer, k)
    /\ print_char(k)
    /\ UNCHANGED <<line_buffer, line_ready, number, keyboard_owner, main, program, history>>

Backspace ==
    /\ key_buffer # <<>>
    /\ key_buffer' = Front(key_buffer)
    /\ print_backspace
    /\ UNCHANGED <<line_buffer, line_ready, number, keyboard_owner, main, program, history>>

\* Mutant of Copied: the terminating zero is not copied.
Copied_Open(buf, keys) == keys \o SubSeq(buf, Len(keys) + 1, Len(buf))

Copied(buf, keys) == keys \o <<NUL>> \o SubSeq(buf, Len(keys) + 2, Len(buf))

\* A line that comes before the last one was taken is dropped.
Enter ==
    /\ Len(typed) < LINES
    /\ typed' = Append(typed, key_buffer)
    /\ key_buffer' = <<>>
    /\ IF line_ready THEN UNCHANGED <<line_buffer, line_ready, number>>
       ELSE /\ line_buffer' = Copied(line_buffer, key_buffer)
            /\ line_ready' = TRUE /\ number' = Len(typed')
    /\ print_char(NL)
    /\ UNCHANGED <<keyboard_owner, main, program, got>>

-----------------------------------------------------------------------------
(* keyboard_clear_line, in two assignments. *)

ClearBuffer ==
    /\ line_buffer' = Cut(line_buffer)
    /\ UNCHANGED <<key_buffer, line_ready, number>>

\* Mutant of ClearReady: the flag stays.
ClearReady_Not == UNCHANGED buffers

ClearReady ==
    /\ line_ready' = FALSE
    /\ UNCHANGED <<key_buffer, line_buffer, number>>

-----------------------------------------------------------------------------
(* main() *)

\* The line is there and the shell is its owner.
Poll ==
    /\ shell = "loop" /\ line_ready /\ keyboard_owner = "shell"
    /\ shell' = "call"
    /\ UNCHANGED <<buffers, keyboard_owner, command, prompt, program, history, screenVars>>

Given(to, line, text) == got' = Append(got, [to |-> to, number |-> line, text |-> text])

\* user_input finds the command by its first word.
Dispatch ==
    /\ shell = "call"
    /\ IF Text(line_buffer) = <<>> THEN shell' = "clear" /\ UNCHANGED command
       ELSE shell' = "work" /\ command' = [number |-> number, word |-> line_buffer[1]]
    /\ UNCHANGED <<buffers, keyboard_owner, prompt, program, history, screenVars>>

\* The command takes its arguments, which it has as pointers into line_buffer;
\* it may have started a program.
Execute ==
    /\ shell = "work" /\ shell' = "clear" /\ command' = Nothing
    /\ Given("shell", command.number, <<command.word>> \o Text(Tail(line_buffer)))
    /\ program' \in IF program = "none" THEN {"none", "start"} ELSE {program}
    /\ UNCHANGED <<buffers, keyboard_owner, prompt, typed, screenVars>>

ShellClears ==
    \/ shell = "clear" /\ shell' = "flag" /\ ClearBuffer
       /\ UNCHANGED <<keyboard_owner, command, prompt, program, history, screenVars>>
    \/ shell = "flag" /\ shell' = "prompt" /\ ClearReady
       /\ UNCHANGED <<keyboard_owner, command, prompt, program, history, screenVars>>

\* shell_print_prompt, one character, by its accesses to the registers:
\* get_cursor selects and reads each register, set_cursor selects and writes
\* each; in between the cell is written.
Select(r) == index' = r /\ UNCHANGED <<pos, cells, reg>>
Read(p) == pos' = p /\ UNCHANGED <<cells, reg, index>>
WriteCell == /\ cells' = Printed(SIGN, pos).cells /\ pos' = Printed(SIGN, pos).pos
             /\ UNCHANGED <<reg, index>>
WriteByte(r) == reg' = [reg EXCEPT ![index] = CursorByte(r, pos)] /\ UNCHANGED <<pos, cells, index>>

Prompt ==
    /\ shell = "prompt" /\ port' = (port + 1) % 9
    /\ \/ port \in {0, 5} /\ Select(14)
       \/ port \in {2, 7} /\ Select(15)
       \/ port = 1 /\ Read(reg[index] * BYTE)
       \/ port = 3 /\ Read(pos + reg[index])
       \/ port = 4 /\ WriteCell
       \/ port = 6 /\ WriteByte(14)
       \/ port = 8 /\ WriteByte(15)
    /\ IF port = 8 THEN shell' = "loop" /\ shown' = Append(shown, SIGN)
       ELSE UNCHANGED <<shell, shown>>
    /\ UNCHANGED <<buffers, keyboard_owner, command, program, history>>

-----------------------------------------------------------------------------
(* The program *)

\* Mutant of Enters: the line of the shell is left to the program.
Enters_Unclean ==
    /\ program = "start" /\ program' = "running" /\ keyboard_owner' = "user"
    /\ UNCHANGED <<buffers, main, history, screenVars>>

\* run_user_program on the way in.
Enters ==
    \/ program = "start" /\ program' = "flag" /\ ClearBuffer
       /\ UNCHANGED <<keyboard_owner, main, history, screenVars>>
    \/ program = "flag" /\ program' = "owner" /\ ClearReady
       /\ UNCHANGED <<keyboard_owner, main, history, screenVars>>
    \/ program = "owner" /\ program' = "running" /\ keyboard_owner' = "user"
       /\ UNCHANGED <<buffers, main, history, screenVars>>

\* SYS_READ_LINE, and SYS_READ on standard input: what does not fit is lost.
ReadLine(len) ==
    /\ program = "running" /\ line_ready
    /\ LET line == Text(line_buffer)
       IN  Given("user", number, SubSeq(line, 1, IF len < Len(line) THEN len ELSE Len(line)))
    /\ line_buffer' = Cut(line_buffer) /\ line_ready' = FALSE
    /\ UNCHANGED <<key_buffer, number, keyboard_owner, main, program, typed, screenVars>>

\* Mutant of Leaves: the keyboard is not given back.
Leaves_KeepOwner ==
    /\ program = "running" /\ program' = "none"
    /\ UNCHANGED <<buffers, keyboard_owner, main, history, screenVars>>

\* run_user_program on the way out.
Leaves ==
    /\ program = "running" /\ program' = "none" /\ keyboard_owner' = "shell"
    /\ UNCHANGED <<buffers, main, history, screenVars>>

\* SYS_WRITE to standard output.
WriteOut ==
    /\ program = "running" /\ Len(shown) < SHOWN
    /\ print_char("o")
    /\ UNCHANGED <<buffers, keyboard_owner, main, program, history>>

Quiet == "ports" \in WINDOWS \/ port = 0
Typing == Quiet /\ ((\E k \in Key : Press(k)) \/ Backspace \/ Enter)
MainLoop ==
    /\ "entry" \in WINDOWS \/ program \notin {"flag", "owner"}
    /\ Poll \/ Dispatch \/ Execute \/ ShellClears \/ Prompt
Program ==
    /\ Quiet /\ ("call" \in WINDOWS \/ shell \notin {"call", "work"})
    /\ Enters \/ Leaves \/ WriteOut \/ \E len \in 0 .. KEYS : ReadLine(len)
Next == Typing \/ MainLoop \/ Program

\* The timer gives every task its turn, and so the main loop goes on.
Spec == Init /\ [][Next]_vars /\ WF_vars(MainLoop) /\ WF_vars(Program /\ Enters)

-----------------------------------------------------------------------------

\* Every variable has its type, and the keyboard is the program's exactly
\* while it runs.
TypeOK ==
    /\ keyboard_owner = "user" <=> program = "running"
    /\ key_buffer \in Seq(Key) /\ Len(key_buffer) <= KEYS
    /\ line_buffer \in [1 .. KEYS + 1 -> Key \union {NUL}] /\ NUL \in Range(line_buffer)
    /\ line_ready \in BOOLEAN /\ keyboard_owner \in {"shell", "user"}
    /\ number \in 0 .. LINES
    /\ shell \in {"loop", "call", "work", "clear", "flag", "prompt"}
    /\ program \in {"none", "start", "flag", "owner", "running"}

\* Shell and program are given lines in the order they were typed and none of
\* them twice, whichever of the two the timer lets run between the test of
\* line_ready and the clearing of the line.  (Variables have their types.)
InOrderOnce ==
    /\ TypeOK
    /\ \A i, j \in DOMAIN got : i < j => got[i].number < got[j].number

\* What is handed over is the line as typed, or for a program with a short
\* buffer its beginning; nothing of an older line shows behind it.
GivenAsTyped ==
    \A i \in DOMAIN got :
        LET line == typed[got[i].number]
        IN  IF got[i].to = "shell" THEN got[i].text = line
            ELSE \E n \in 0 .. Len(line) : got[i].text = SubSeq(line, 1, n)

\* The command that starts a program is not input of the program: the line the
\* program reads is not the one the shell is working on.
NotTheCommand ==
    program = "running" /\ line_ready => \A i \in DOMAIN got : got[i].number # number

\* What is typed can be read: the echo of the interrupt handler, the prompt and
\* the output of the program continue each other on the screen, through the
\* end of a row, the scrolling at its bottom and the deletion of characters,
\* and the cursor never leaves the screen.
EchoShown == port = 0 => Faithful

\* When no program is there, a line that is ready is taken by the shell or a
\* program is started: the end of a program gives the keyboard back.
LineTaken == (line_ready /\ program = "none") ~> (~line_ready \/ program # "none")

=============================================================================
