------------------------------- MODULE Screen -------------------------------
(***************************************************************************)
(* The text screen, drivers/screen.c: the cells, and the cursor, which     *)
(* lives in two byte-wide registers of the display controller that are     *)
(* reached through an index register.  Positions count cells from the top  *)
(* left corner; attributes are left out.                                   *)
(***************************************************************************)
EXTENDS Integers, Sequences, SequencesExt

CONSTANTS
    MAX_COLS, MAX_ROWS,
    BYTE               \* 2^8

ASSUME ScreenAssumption ==
    /\ {MAX_COLS, MAX_ROWS, BYTE} \subseteq Nat \ {0}
    /\ MAX_COLS * MAX_ROWS < BYTE * BYTE

VARIABLES
    cells,             \* video memory
    reg, index,        \* the registers 14 and 15, and which one is selected
    shown              \* what has been printed since the last new line

screenVars == <<cells, reg, index, shown>>

SIZE == MAX_COLS * MAX_ROWS
NL == "\n"
BLANK == " "

\* clear_screen
ScreenInit ==
    /\ cells = [p \in 0 .. SIZE - 1 |-> BLANK]
    /\ reg = [r \in {14, 15} |-> 0] /\ index = 15
    /\ shown = <<>>

get_cursor == reg[14] * BYTE + reg[15]

\* What set_cursor leaves in register r.
CursorByte(r, p) == IF r = 14 THEN (p \div BYTE) % BYTE ELSE p % BYTE

set_cursor(p) ==
    /\ reg' = [r \in {14, 15} |-> CursorByte(r, p)]
    /\ index' = 15

\* Mutant of handle_scrolling: the position is not pulled back.
handle_scrolling_Stay(s) ==
    IF s.pos < SIZE THEN s
    ELSE [cells |-> [p \in DOMAIN s.cells |->
                        IF p + MAX_COLS < SIZE THEN s.cells[p + MAX_COLS] ELSE BLANK],
          pos |-> s.pos]

\* A position behind the last cell moves every row up by one.
handle_scrolling(s) ==
    IF s.pos < SIZE THEN s
    ELSE [cells |-> [p \in DOMAIN s.cells |->
                        IF p + MAX_COLS < SIZE THEN s.cells[p + MAX_COLS] ELSE BLANK],
          pos |-> s.pos - MAX_COLS]

\* print_char at position p, up to the setting of the cursor.
Printed(c, p) ==
    handle_scrolling(
        IF c = NL THEN [cells |-> cells, pos |-> (p \div MAX_COLS + 1) * MAX_COLS]
        ELSE [cells |-> IF p < SIZE THEN [cells EXCEPT ![p] = c] ELSE cells, pos |-> p + 1])

\* print_char at the cursor, not interrupted.
print_char(c) ==
    LET s == Printed(c, get_cursor) IN
    /\ cells' = s.cells /\ set_cursor(s.pos)
    /\ shown' = IF c = NL THEN <<>> ELSE Append(shown, c)

\* print_backspace: above the first cell, print_char falls back to the cursor.
print_backspace ==
    LET p == get_cursor - 1
        s == Printed(BLANK, IF p >= 0 THEN p ELSE get_cursor)
    IN
    /\ cells' = s.cells /\ set_cursor(p)
    /\ shown' = IF shown = <<>> THEN <<>> ELSE Front(shown)

-----------------------------------------------------------------------------

\* Position p is on the screen, and the cells before it show the text, as far
\* back as the screen goes.
Shows(cs, p, text) ==
    /\ p < SIZE
    /\ \A d \in 1 .. Len(text) : d <= p => cs[p - d] = text[Len(text) - d + 1]

\* The screen shows what has been printed last.
Faithful == Shows(cells, get_cursor, shown)

=============================================================================
