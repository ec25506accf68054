--------------------------- MODULE KeyboardProofs ---------------------------
(***************************************************************************)
(* What the shell, the keyboard and a program print appears on the screen  *)
(* in order, and lines are handed over in order, once and as they were     *)
(* typed: EchoShown, InOrderOnce, GivenAsTyped and NotTheCommand of        *)
(* Keyboard, for every size of the screen, of a line and of a session.     *)
(***************************************************************************)
EXTENDS Keyboard, SequenceTheorems, TLAPS

-----------------------------------------------------------------------------
(* The screen *)

Glyph == Key \cup {BLANK, SIGN, "o"}
Cells == [0 .. SIZE - 1 -> Glyph]

\* The size of the screen, and what fits in the registers of the cursor.
LEMMA Sizes ==
    /\ MAX_COLS \in Nat \ {0} /\ BYTE \in Nat \ {0} /\ MAX_ROWS \in Nat \ {0}
    /\ SIZE \in Nat /\ MAX_COLS <= SIZE /\ SIZE < BYTE * BYTE
    /\ KEYS \in Nat /\ KEYS <= SIZE - MAX_COLS
<1>1. /\ MAX_COLS \in Nat \ {0} /\ BYTE \in Nat \ {0} /\ MAX_ROWS \in Nat \ {0}
      /\ SIZE < BYTE * BYTE /\ KEYS \in Nat /\ KEYS <= (MAX_ROWS - 1) * MAX_COLS
  BY ScreenAssumption, KeyboardAssumption DEF SIZE
<1>2. (MAX_ROWS - 1) * MAX_COLS = SIZE - MAX_COLS /\ SIZE \in Nat
  BY <1>1 DEF SIZE
<1>3. MAX_COLS <= SIZE
  BY <1>1, <1>2
<1> QED  BY <1>1, <1>2, <1>3

\* set_cursor and get_cursor are inverse to each other on the screen.
LEMMA CursorRoundTrip ==
    ASSUME NEW p \in 0 .. SIZE - 1
    PROVE  /\ CursorByte(14, p) \in 0 .. BYTE - 1 /\ CursorByte(15, p) \in 0 .. BYTE - 1
           /\ CursorByte(14, p) * BYTE + CursorByte(15, p) = p
<1>1. p \in Nat /\ p < BYTE * BYTE /\ BYTE \in Nat /\ BYTE > 0
  BY Sizes
<1>2. p \div BYTE \in Nat /\ p % BYTE \in 0 .. BYTE - 1 /\ p = BYTE * (p \div BYTE) + (p % BYTE)
  BY <1>1
<1>3. p \div BYTE < BYTE
  BY <1>1, <1>2
<1>4. (p \div BYTE) % BYTE = p \div BYTE
  BY <1>1, <1>2, <1>3
<1> QED  BY <1>1, <1>2, <1>3, <1>4 DEF CursorByte

\* What the shell and the handler print is on the screen like any key.
LEMMA Glyphs == {BLANK, SIGN, "o"} \subseteq Glyph /\ Key \subseteq Glyph
BY Zenon DEF Glyph

\* Printing at a position on the screen leaves it, and what it shows, in order.
LEMMA PrintedShows ==
    ASSUME cells \in Cells, NEW p \in 0 .. SIZE - 1, NEW text \in Seq(Glyph),
           Shows(cells, p, text), NEW c \in Glyph, c # NL
    PROVE  /\ Printed(c, p).cells \in Cells
           /\ Printed(c, p).pos \in 0 .. SIZE - 1
           /\ Printed(c, p).pos = p + 1 \/ Printed(c, p).pos = SIZE - MAX_COLS
           /\ Shows(Printed(c, p).cells, Printed(c, p).pos, Append(text, c))
<1> DEFINE cs == [cells EXCEPT ![p] = c]
           t == Append(text, c)
<1>1. cs \in Cells /\ cs[p] = c /\ \A q \in 0 .. SIZE - 1 : q # p => cs[q] = cells[q]
  BY DEF Cells
<1>2. /\ Len(t) = Len(text) + 1 /\ Len(text) \in Nat /\ t[Len(t)] = c
      /\ \A i \in 1 .. Len(text) : t[i] = text[i]
  BY AppendProperties, LenProperties
<1>3. \A d \in 1 .. Len(t) : d <= p + 1 => cs[p + 1 - d] = t[Len(t) - d + 1]
  <2> SUFFICES ASSUME NEW d \in 1 .. Len(t), d <= p + 1 PROVE cs[p + 1 - d] = t[Len(t) - d + 1]
    OBVIOUS
  <2>1. CASE d = 1
    BY <1>1, <1>2, <2>1, Sizes
  <2>2. CASE d # 1
    <3>1. d - 1 \in 1 .. Len(text) /\ d - 1 <= p
      BY <1>2, <2>2, Sizes
    <3>2. cells[p - (d - 1)] = text[Len(text) - (d - 1) + 1]
      BY <3>1, ZenonT(30) DEF Shows
    <3>3. p - (d - 1) = p + 1 - d /\ p + 1 - d \in 0 .. SIZE - 1 /\ p + 1 - d # p
      BY <2>2, Sizes
    <3>4. Len(text) - (d - 1) + 1 = Len(t) - d + 1 /\ Len(t) - d + 1 \in 1 .. Len(text)
      BY <1>2, <3>1
    <3> QED  BY <1>1, <1>2, <3>2, <3>3, <3>4
  <2> QED  BY <2>1, <2>2
<1> HIDE DEF cs, t
<1>4. Printed(c, p) = handle_scrolling([cells |-> cs, pos |-> p + 1])
  BY Sizes DEF Printed, cs
<1>5. CASE p + 1 < SIZE
  <2>1. Printed(c, p) = [cells |-> cs, pos |-> p + 1]
    BY <1>4, <1>5 DEF handle_scrolling
  <2> QED  BY <1>1, <1>3, <1>5, <2>1, Sizes DEF Shows, t
<1>6. CASE ~(p + 1 < SIZE)
  <2> DEFINE up == [q \in DOMAIN cs |-> IF q + MAX_COLS < SIZE THEN cs[q + MAX_COLS] ELSE BLANK]
  <2>1. p + 1 = SIZE /\ Printed(c, p) = [cells |-> up, pos |-> SIZE - MAX_COLS]
    <3>1. p + 1 = SIZE
      BY <1>6, Sizes
    <3> QED  BY <1>4, <1>6, <3>1 DEF handle_scrolling
  <2>2. up \in Cells
    <3>1. DOMAIN cs = 0 .. SIZE - 1 /\ BLANK \in Glyph
      BY <1>1, Glyphs, Zenon DEF Cells
    <3>2. \A q \in 0 .. SIZE - 1 : q + MAX_COLS < SIZE => q + MAX_COLS \in 0 .. SIZE - 1
      BY Sizes
    <3> QED  BY <1>1, <3>1, <3>2 DEF Cells
  <2>3. ASSUME NEW d \in 1 .. Len(t), d <= SIZE - MAX_COLS
        PROVE  up[SIZE - MAX_COLS - d] = t[Len(t) - d + 1]
    <3>1. /\ SIZE - MAX_COLS - d \in 0 .. SIZE - 1
          /\ SIZE - MAX_COLS - d + MAX_COLS = SIZE - d /\ SIZE - d < SIZE
      BY <1>2, <2>3, Sizes
    <3>2. up[SIZE - MAX_COLS - d] = cs[SIZE - d]
      BY <1>1, <3>1 DEF Cells
    <3>3. cs[SIZE - d] = t[Len(t) - d + 1]
      <4>1. d <= p + 1 /\ p + 1 - d = SIZE - d
        BY <2>1, <2>3, Sizes
      <4> QED  BY <1>3, <4>1
    <3> QED  BY <3>2, <3>3
  <2> HIDE DEF up
  <2>4. SIZE - MAX_COLS \in 0 .. SIZE - 1 /\ SIZE - MAX_COLS < SIZE
    BY Sizes
  <2>5. Shows(up, SIZE - MAX_COLS, t)
    BY <2>3, <2>4 DEF Shows
  <2>6. Printed(c, p).cells = up /\ Printed(c, p).pos = SIZE - MAX_COLS
    BY <2>1
  <2> QED  BY <2>2, <2>4, <2>5, <2>6 DEF t
<1> QED  BY <1>5, <1>6

\* A new line begins on the screen.
LEMMA NewLine ==
    ASSUME cells \in Cells, NEW p \in 0 .. SIZE - 1
    PROVE  Printed(NL, p).cells \in Cells /\ Printed(NL, p).pos \in 0 .. SIZE - 1
<1> DEFINE q == (p \div MAX_COLS + 1) * MAX_COLS
           up == [r \in DOMAIN cells |-> IF r + MAX_COLS < SIZE THEN cells[r + MAX_COLS] ELSE BLANK]
<1>1. q \in Nat /\ q - MAX_COLS <= p /\ 0 <= q - MAX_COLS
  <2>1. /\ p \in Nat /\ MAX_COLS \in Nat /\ MAX_COLS > 0
    BY Sizes
  <2>2. p \div MAX_COLS \in Nat /\ MAX_COLS * (p \div MAX_COLS) <= p
    BY <2>1
  <2>3. q - MAX_COLS = MAX_COLS * (p \div MAX_COLS)
    BY <2>1, <2>2
  <2> QED  BY <2>1, <2>2, <2>3
<1>2. up \in Cells
  <2>1. DOMAIN cells = 0 .. SIZE - 1 /\ BLANK \in Glyph
    BY Glyphs, Zenon DEF Cells
  <2>2. \A r \in 0 .. SIZE - 1 : r + MAX_COLS < SIZE => r + MAX_COLS \in 0 .. SIZE - 1
    BY Sizes
  <2> QED  BY <2>1, <2>2 DEF Cells
<1>3. Printed(NL, p) = handle_scrolling([cells |-> cells, pos |-> q])
  BY DEF Printed
<1> HIDE DEF q
<1>4. CASE q < SIZE
  BY <1>1, <1>3, <1>4, Sizes DEF handle_scrolling
<1>5. CASE ~(q < SIZE)
  <2>1. Printed(NL, p) = [cells |-> up, pos |-> q - MAX_COLS]
    BY <1>3, <1>5 DEF handle_scrolling
  <2>2. q - MAX_COLS \in 0 .. SIZE - 1
    BY <1>1, Sizes
  <2> HIDE DEF up
  <2> QED  BY <1>2, <2>1, <2>2
<1> QED  BY <1>4, <1>5

\* The screen between two calls of print_char.
ScreenOK ==
    /\ cells \in Cells /\ reg \in [{14, 15} -> 0 .. BYTE - 1] /\ index \in {14, 15}
    /\ shown \in Seq(Glyph) /\ Faithful

\* The position of the cursor of such a screen.
LEMMA CursorOn ==
    ASSUME ScreenOK PROVE get_cursor \in 0 .. SIZE - 1
<1>1. reg[14] \in Nat /\ reg[15] \in Nat /\ BYTE \in Nat /\ get_cursor < SIZE /\ SIZE \in Nat
  BY Sizes DEF ScreenOK, Faithful, Shows
<1> QED  BY <1>1 DEF get_cursor

\* What set_cursor stores, get_cursor finds.
LEMMA CursorSet ==
    ASSUME NEW p \in 0 .. SIZE - 1, set_cursor(p)
    PROVE  get_cursor' = p /\ reg' \in [{14, 15} -> 0 .. BYTE - 1] /\ index' \in {14, 15}
<1>1. /\ reg' = [r \in {14, 15} |-> CursorByte(r, p)] /\ index' = 15
      /\ reg'[14] = CursorByte(14, p) /\ reg'[15] = CursorByte(15, p)
  BY DEF set_cursor
<1> QED  BY <1>1, CursorRoundTrip DEF get_cursor

\* print_char leaves the screen in order, one position on, or in the last row
\* when it was scrolled.
LEMMA PrintStep ==
    ASSUME ScreenOK, NEW c \in Glyph \cup {NL}, print_char(c)
    PROVE  /\ ScreenOK'
           /\ c # NL => get_cursor' = get_cursor + 1 \/ get_cursor' = SIZE - MAX_COLS
<1> DEFINE s == Printed(c, get_cursor)
<1>1. get_cursor \in 0 .. SIZE - 1 /\ cells \in Cells /\ Shows(cells, get_cursor, shown) /\ shown \in Seq(Glyph)
  BY CursorOn DEF ScreenOK, Faithful
<1>2. cells' = s.cells /\ set_cursor(s.pos) /\ shown' = IF c = NL THEN <<>> ELSE Append(shown, c)
  BY DEF print_char
<1> HIDE DEF s
<1>3. CASE c = NL
  <2>1. s.cells \in Cells /\ s.pos \in 0 .. SIZE - 1
    BY <1>1, <1>3, NewLine DEF s
  <2>2. /\ get_cursor' = s.pos /\ reg' \in [{14, 15} -> 0 .. BYTE - 1] /\ index' \in {14, 15}
    BY <1>2, <2>1, CursorSet
  <2>3. shown' = <<>> /\ Len(shown') = 0 /\ shown' \in Seq(Glyph)
    BY <1>2, <1>3
  <2>4. Faithful'
    BY <2>1, <2>2, <2>3, Sizes DEF Faithful, Shows, SIZE
  <2> QED  BY <1>2, <1>3, <2>1, <2>2, <2>3, <2>4 DEF ScreenOK, Cells, SIZE
<1>4. CASE c # NL
  <2>1. /\ s.cells \in Cells /\ s.pos \in 0 .. SIZE - 1
        /\ s.pos = get_cursor + 1 \/ s.pos = SIZE - MAX_COLS
        /\ Shows(s.cells, s.pos, Append(shown, c))
    BY <1>1, <1>4, PrintedShows DEF s
  <2>2. /\ get_cursor' = s.pos /\ reg' \in [{14, 15} -> 0 .. BYTE - 1] /\ index' \in {14, 15}
    BY <1>2, <2>1, CursorSet
  <2>3. shown' = Append(shown, c) /\ shown' \in Seq(Glyph)
    BY <1>1, <1>2, <1>4
  <2>4. Faithful'
    BY <1>2, <2>1, <2>2, <2>3 DEF Faithful, Shows, SIZE
  <2> QED  BY <1>2, <1>4, <2>1, <2>2, <2>3, <2>4 DEF ScreenOK, Cells, SIZE
<1> QED  BY <1>3, <1>4

\* The characters the code prints are no new lines.
LEMMA NoNewLine == BLANK # NL /\ SIGN # NL /\ "o" # NL
BY Zenon DEF BLANK, SIGN, NL

\* A sequence without its last element.
LEMMA FrontFacts ==
    ASSUME NEW S, NEW s \in Seq(S), s # <<>>
    PROVE  /\ Front(s) \in Seq(S) /\ Len(Front(s)) = Len(s) - 1 /\ Len(s) \in Nat \ {0}
           /\ \A i \in 1 .. Len(Front(s)) : Front(s)[i] = s[i]
<1>1. Len(s) \in Nat \ {0}
  BY EmptySeq, LenProperties
<1>2. 1 \in Int /\ Len(s) - 1 \in Int /\ \A i \in 1 .. Len(s) - 1 : s[i] \in S
  BY <1>1, ElementOfSeq
<1>3. Front(s) = SubSeq(s, 1, Len(s) - 1)
  BY DEF Front
<1> DEFINE n == Len(s) - 1
<1> HIDE DEF n
<1>4. /\ SubSeq(s, 1, n) \in Seq(S) /\ Len(SubSeq(s, 1, n)) = IF 1 <= n THEN n - 1 + 1 ELSE 0
      /\ \A i \in 1 .. n - 1 + 1 : SubSeq(s, 1, n)[i] = s[1 + i - 1]
  BY <1>2, SubSeqProperties DEF n
<1>5. n \in Nat /\ Len(SubSeq(s, 1, n)) = n /\ \A i \in 1 .. n : SubSeq(s, 1, n)[i] = s[i]
  <2>1. n \in Nat
    BY <1>1 DEF n
  <2> QED  BY <1>4, <2>1
<1> QED  BY <1>1, <1>3, <1>4, <1>5 DEF n

\* A deletion leaves the screen in order, one position back.
LEMMA BackspaceStep ==
    ASSUME ScreenOK, get_cursor > 0, print_backspace
    PROVE  ScreenOK' /\ get_cursor' = get_cursor - 1
<1> DEFINE p == get_cursor - 1
           cs == [cells EXCEPT ![p] = BLANK]
<1>1. /\ get_cursor \in 0 .. SIZE - 1 /\ p \in 0 .. SIZE - 1 /\ p >= 0 /\ p < SIZE /\ p + 1 < SIZE
      /\ p + 1 = get_cursor
  BY CursorOn, Sizes
<1>2. cells \in Cells /\ Shows(cells, get_cursor, shown) /\ shown \in Seq(Glyph)
  BY DEF ScreenOK, Faithful
<1>3. Printed(BLANK, p) = [cells |-> cs, pos |-> p + 1]
  BY <1>1, NoNewLine DEF Printed, handle_scrolling
<1>4. cells' = cs /\ set_cursor(p) /\ shown' = IF shown = <<>> THEN <<>> ELSE Front(shown)
  <2>1. (IF p >= 0 THEN p ELSE get_cursor) = p
    BY <1>1
  <2> HIDE DEF cs
  <2>2. Printed(BLANK, p).cells = cs
    BY <1>3
  <2> QED  BY <2>1, <2>2 DEF print_backspace
<1>5. cs \in Cells /\ \A q \in 0 .. SIZE - 1 : q # p => cs[q] = cells[q]
  <2>1. BLANK \in Glyph
    BY Glyphs, Zenon
  <2> QED  BY <1>2, <2>1, ZenonT(30) DEF Cells
<1> HIDE DEF p, cs
<1>6. get_cursor' = p /\ reg' \in [{14, 15} -> 0 .. BYTE - 1] /\ index' \in {14, 15}
  BY <1>1, <1>4, CursorSet
<1>7. shown' \in Seq(Glyph) /\ Shows(cs, p, shown')
  <2>1. CASE shown = <<>>
    BY <1>1, <1>4, <2>1 DEF Shows
  <2>2. CASE shown # <<>>
    <3>1. /\ shown' \in Seq(Glyph) /\ Len(shown') = Len(shown) - 1 /\ Len(shown) \in Nat
          /\ \A i \in 1 .. Len(shown') : shown'[i] = shown[i]
      BY <1>2, <1>4, <2>2, FrontFacts
    <3>2. ASSUME NEW d \in 1 .. Len(shown'), d <= p
          PROVE  cs[p - d] = shown'[Len(shown') - d + 1]
      <4>1. d + 1 \in 1 .. Len(shown) /\ d + 1 <= get_cursor /\ Len(shown') - d + 1 \in 1 .. Len(shown')
        BY <1>1, <3>1, <3>2
      <4>2. cells[get_cursor - (d + 1)] = shown[Len(shown) - (d + 1) + 1]
        BY <1>2, <4>1 DEF Shows
      <4>3. /\ get_cursor - (d + 1) = p - d /\ p - d \in 0 .. SIZE - 1 /\ p - d # p
            /\ Len(shown) - (d + 1) + 1 = Len(shown') - d + 1
        BY <1>1, <3>1, <3>2, Sizes
      <4> QED  BY <1>5, <3>1, <4>1, <4>2, <4>3
    <3> QED  BY <1>1, <3>1, <3>2 DEF Shows
  <2> QED  BY <2>1, <2>2
<1>8. Faithful'
  BY <1>4, <1>6, <1>7 DEF Faithful, Shows, SIZE
<1> QED  BY <1>4, <1>5, <1>6, <1>7, <1>8 DEF ScreenOK, Cells, SIZE, p

-----------------------------------------------------------------------------
(* Keys, prompt and output on one screen *)

\* Nothing comes between the accesses of the shell to the registers.
PortsAlone == "ports" \notin WINDOWS

\* As long as the prompt has not been written the screen is in order; every key
\* of the line being typed stands before the cursor, where it can be deleted.
EchoInv ==
    /\ cells \in Cells /\ reg \in [{14, 15} -> 0 .. BYTE - 1] /\ index \in {14, 15}
    /\ shown \in Seq(Glyph) /\ key_buffer \in Seq(Key) /\ Len(key_buffer) <= KEYS
    /\ port \in 0 .. 8 /\ pos \in Nat
    /\ port <= 4 => Faithful /\ Len(key_buffer) <= get_cursor
    /\ port = 1 => index = 14
    /\ port \in {2, 3} => pos = reg[14] * BYTE
    /\ port = 3 => index = 15
    /\ port = 4 => pos = get_cursor
    /\ port >= 5 => /\ pos < SIZE /\ Len(key_buffer) <= pos
                    /\ Shows(cells, pos, Append(shown, SIGN))
    /\ port = 6 => index = 14
    /\ port \in {7, 8} => reg[14] = CursorByte(14, pos)
    /\ port = 8 => index = 15

\* EchoInv when the shell is not at its prompt.
LEMMA AtRest ==
    ASSUME port = 0, pos \in Nat, key_buffer \in Seq(Key), Len(key_buffer) <= KEYS, ScreenOK,
           Len(key_buffer) <= get_cursor
    PROVE  EchoInv
BY DEF EchoInv, ScreenOK

\* What EchoInv says then.
LEMMA FromRest ==
    ASSUME EchoInv, port = 0
    PROVE  /\ pos \in Nat /\ key_buffer \in Seq(Key) /\ Len(key_buffer) <= KEYS /\ ScreenOK
           /\ Len(key_buffer) <= get_cursor /\ Len(key_buffer) \in Nat /\ get_cursor \in 0 .. SIZE - 1
<1>1. /\ pos \in Nat /\ key_buffer \in Seq(Key) /\ Len(key_buffer) <= KEYS /\ ScreenOK
      /\ Len(key_buffer) <= get_cursor
  BY DEF EchoInv, ScreenOK
<1> QED  BY <1>1, CursorOn, LenProperties

\* The handler and the program print on a screen in order.
LEMMA EchoOthers ==
    ASSUME PortsAlone, EchoInv, Typing \/ (Program /\ WriteOut)
    PROVE  EchoInv'
<1>1. /\ port = 0 /\ pos \in Nat /\ key_buffer \in Seq(Key) /\ Len(key_buffer) <= KEYS /\ ScreenOK
      /\ Len(key_buffer) <= get_cursor /\ Len(key_buffer) \in Nat /\ get_cursor \in 0 .. SIZE - 1
  <2>1. port = 0
    BY DEF PortsAlone, Typing, Program, Quiet
  <2> QED  BY <2>1, FromRest
<1>2. ASSUME NEW k \in Key, Press(k) PROVE EchoInv'
  <2>1. k \in Glyph \cup {NL} /\ print_char(k)
    BY <1>2, Glyphs DEF Press
  <2>2. ScreenOK' /\ (k # NL => get_cursor' = get_cursor + 1 \/ get_cursor' = SIZE - MAX_COLS)
    BY <1>1, <2>1, PrintStep
  <2>3. /\ port' = 0 /\ pos' \in Nat /\ key_buffer' \in Seq(Key) /\ Len(key_buffer') = Len(key_buffer) + 1
        /\ Len(key_buffer') <= KEYS
    BY <1>1, <1>2, Sizes DEF Press, main, prompt
  <2>4. k # NL
    BY KeyboardAssumption
  <2>5. Len(key_buffer') <= get_cursor'
    BY <1>1, <2>2, <2>3, <2>4, Sizes
  <2> QED  BY <2>2, <2>3, <2>5 DEF EchoInv, ScreenOK
<1>3. ASSUME Backspace PROVE EchoInv'
  <2>1. Len(key_buffer) > 0 /\ key_buffer' = Front(key_buffer) /\ print_backspace /\ port' = 0 /\ pos' \in Nat
    BY <1>1, <1>3, EmptySeq DEF Backspace, main, prompt
  <2>2. key_buffer' \in Seq(Key) /\ Len(key_buffer') = Len(key_buffer) - 1
    BY <1>1, <1>3, <2>1, FrontFacts DEF Backspace
  <2>3. get_cursor > 0
    BY <1>1, <2>1
  <2>4. ScreenOK' /\ get_cursor' = get_cursor - 1
    BY <1>1, <2>1, <2>3, BackspaceStep
  <2> QED  BY <1>1, <2>1, <2>2, <2>4, Sizes DEF EchoInv, ScreenOK
<1>4. ASSUME Enter PROVE EchoInv'
  <2>1. NL \in Glyph \cup {NL} /\ print_char(NL)
    BY <1>4 DEF Enter
  <2>2. ScreenOK'
    BY <1>1, <2>1, PrintStep
  <2>3. get_cursor' \in Nat
    BY <2>2, Sizes DEF ScreenOK, get_cursor
  <2>4. port' = 0 /\ pos' \in Nat /\ key_buffer' = <<>> /\ Len(key_buffer') = 0 /\ key_buffer' \in Seq(Key)
    BY <1>1, <1>4 DEF Enter, main, prompt
  <2> QED  BY <2>2, <2>3, <2>4, Sizes DEF EchoInv, ScreenOK
<1>5. ASSUME WriteOut PROVE EchoInv'
  <2>1. "o" \in Glyph \cup {NL} /\ print_char("o") /\ "o" # NL
    BY <1>5, Glyphs, NoNewLine, Zenon DEF WriteOut
  <2>2. ScreenOK' /\ (get_cursor' = get_cursor + 1 \/ get_cursor' = SIZE - MAX_COLS)
    BY <1>1, <2>1, PrintStep
  <2>3. port' = 0 /\ pos' \in Nat /\ key_buffer' = key_buffer
    BY <1>1, <1>5 DEF WriteOut, main, prompt, buffers
  <2> QED  BY <1>1, <2>2, <2>3, Sizes DEF EchoInv, ScreenOK
<1> QED  BY <1>2, <1>3, <1>4, <1>5 DEF Typing

\* The prompt is printed access by access.
LEMMA EchoPrompt ==
    ASSUME EchoInv, Prompt
    PROVE  EchoInv'
<1>1. /\ cells \in Cells /\ reg \in [{14, 15} -> 0 .. BYTE - 1] /\ index \in {14, 15} /\ pos \in Nat
      /\ shown \in Seq(Glyph) /\ key_buffer \in Seq(Key) /\ Len(key_buffer) <= KEYS /\ port \in 0 .. 8
      /\ Len(key_buffer) \in Nat /\ reg[14] \in Nat /\ reg[15] \in Nat /\ BYTE \in Nat
  BY Sizes, LenProperties DEF EchoInv
<1>2. port' = (port + 1) % 9 /\ key_buffer' = key_buffer
  BY DEF Prompt, buffers
<1>3. ASSUME port # 8 PROVE shown' = shown /\ port' = port + 1
  <2>1. shown' = shown
    BY <1>3 DEF Prompt
  <2>2. port + 1 \in 0 .. 8
    BY <1>1, <1>3
  <2> QED  BY <1>2, <2>1, <2>2
<1>4. CASE port = 0
  <2>1. index' = 14 /\ UNCHANGED <<pos, cells, reg>>
    BY <1>4 DEF Prompt, Select
  <2> QED  BY <1>1, <1>2, <1>3, <1>4, <2>1 DEF EchoInv, Faithful, get_cursor, Shows, SIZE, Cells
<1>5. CASE port = 1
  <2>1. pos' = reg[14] * BYTE /\ UNCHANGED <<cells, reg, index>>
    BY <1>5 DEF Prompt, Read, EchoInv
  <2>2. pos' \in Nat
    BY <1>1, <2>1
  <2> QED  BY <1>1, <1>2, <1>3, <1>5, <2>1, <2>2 DEF EchoInv, Faithful, get_cursor, Shows, SIZE, Cells
<1>6. CASE port = 2
  <2>1. index' = 15 /\ UNCHANGED <<pos, cells, reg>>
    BY <1>6 DEF Prompt, Select
  <2> QED  BY <1>1, <1>2, <1>3, <1>6, <2>1 DEF EchoInv, Faithful, get_cursor, Shows, SIZE, Cells
<1>7. CASE port = 3
  <2>1. pos' = pos + reg[15] /\ UNCHANGED <<cells, reg, index>> /\ pos = reg[14] * BYTE
    BY <1>7 DEF Prompt, Read, EchoInv
  <2>2. pos' \in Nat /\ pos' = get_cursor'
    BY <1>1, <2>1 DEF get_cursor
  <2> QED  BY <1>1, <1>2, <1>3, <1>7, <2>1, <2>2 DEF EchoInv, Faithful, get_cursor, Shows, SIZE, Cells
<1>8. CASE port = 4
  <2>1. cells' = Printed(SIGN, pos).cells /\ pos' = Printed(SIGN, pos).pos /\ UNCHANGED <<reg, index>>
    BY <1>8 DEF Prompt, WriteCell
  <2>2. pos \in 0 .. SIZE - 1 /\ Shows(cells, pos, shown) /\ Len(key_buffer) <= pos
    BY <1>1, <1>8, Sizes DEF EchoInv, Faithful, Shows
  <2>3. SIGN \in Glyph /\ SIGN # NL
    BY Glyphs, NoNewLine, Zenon
  <2>4. /\ cells' \in Cells /\ pos' \in 0 .. SIZE - 1 /\ (pos' = pos + 1 \/ pos' = SIZE - MAX_COLS)
        /\ Shows(cells', pos', Append(shown, SIGN))
    BY <1>1, <2>1, <2>2, <2>3, PrintedShows
  <2>5. pos' \in Nat /\ Len(key_buffer) <= pos' /\ pos' < SIZE
    BY <1>1, <2>2, <2>4, Sizes
  <2>6. port' = 5 /\ shown' = shown /\ UNCHANGED <<reg, index, key_buffer>>
    BY <1>2, <1>3, <1>8, <2>1
  <2>7. Shows(cells, pos, Append(shown, SIGN))' /\ Cells' = Cells
    BY <2>4, <2>6, ZenonT(30) DEF Shows, SIZE, Cells
  <2>8. pos' < SIZE' /\ cells' \in Cells'
    BY <2>4, <2>5, <2>7 DEF SIZE
  <2>9. /\ reg' \in [{14, 15} -> 0 .. BYTE - 1] /\ index' \in {14, 15} /\ shown' \in Seq(Glyph)
        /\ key_buffer' \in Seq(Key) /\ Len(key_buffer') <= KEYS /\ Len(key_buffer') <= pos'
    BY <1>1, <2>5, <2>6
  <2> QED  BY <2>5, <2>6, <2>7, <2>8, <2>9 DEF EchoInv
<1>9. CASE port = 5
  <2>1. index' = 14 /\ UNCHANGED <<pos, cells, reg>>
    BY <1>9 DEF Prompt, Select
  <2> QED  BY <1>1, <1>2, <1>3, <1>9, <2>1 DEF EchoInv, Shows, SIZE, Cells
<1> DEFINE b(r) == CursorByte(r, pos)
<1>10. ASSUME port \in 5 .. 8
       PROVE  /\ b(14) \in 0 .. BYTE - 1 /\ b(15) \in 0 .. BYTE - 1 /\ b(14) * BYTE + b(15) = pos
  <2>1. pos \in 0 .. SIZE - 1
    BY <1>1, <1>10, Sizes DEF EchoInv
  <2> QED  BY <2>1, CursorRoundTrip
<1> HIDE DEF b
<1>11. CASE port = 6
  <2>1. reg' = [reg EXCEPT ![14] = b(14)] /\ UNCHANGED <<pos, cells, index>>
    BY <1>11 DEF Prompt, WriteByte, EchoInv, b
  <2>2. reg' \in [{14, 15} -> 0 .. BYTE - 1] /\ reg'[14] = b(14)
    BY <1>1, <1>10, <1>11, <2>1
  <2>3. reg'[14] = CursorByte(14, pos)'
    BY <2>1, <2>2 DEF b, CursorByte
  <2>4. port' = 7 /\ UNCHANGED <<shown, pos, cells, index, key_buffer>>
    BY <1>2, <1>3, <1>11, <2>1
  <2>5. /\ pos' < SIZE' /\ Len(key_buffer') <= pos' /\ Shows(cells, pos, Append(shown, SIGN))'
        /\ cells' \in Cells'
    <3>1. /\ pos < SIZE /\ Len(key_buffer) <= pos /\ Shows(cells, pos, Append(shown, SIGN))
          /\ cells \in Cells
      BY <1>1, <1>11 DEF EchoInv
    <3> QED  BY <2>4, <3>1, Zenon DEF Shows, SIZE, Cells
  <2>6. /\ index' \in {14, 15} /\ shown' \in Seq(Glyph) /\ key_buffer' \in Seq(Key)
        /\ Len(key_buffer') <= KEYS /\ pos' \in Nat
    BY <1>1, <2>4
  <2> QED  BY <2>2, <2>3, <2>4, <2>5, <2>6 DEF EchoInv
<1>12. CASE port = 7
  <2>1. index' = 15 /\ UNCHANGED <<pos, cells, reg>>
    BY <1>12 DEF Prompt, Select
  <2>2. port' = 8 /\ UNCHANGED <<shown, pos, cells, reg, key_buffer>>
    BY <1>2, <1>3, <1>12, <2>1
  <2>3. /\ pos' < SIZE' /\ Len(key_buffer') <= pos' /\ Shows(cells, pos, Append(shown, SIGN))'
        /\ cells' \in Cells'
    <3>1. /\ pos < SIZE /\ Len(key_buffer) <= pos /\ Shows(cells, pos, Append(shown, SIGN))
          /\ cells \in Cells
      BY <1>1, <1>12 DEF EchoInv
    <3> QED  BY <2>2, <3>1, Zenon DEF Shows, SIZE, Cells
  <2>4. reg'[14] = CursorByte(14, pos)' /\ reg' \in [{14, 15} -> 0 .. BYTE - 1]
    BY <1>1, <1>12, <2>2 DEF EchoInv, CursorByte
  <2>5. /\ index' \in {14, 15} /\ shown' \in Seq(Glyph) /\ key_buffer' \in Seq(Key)
        /\ Len(key_buffer') <= KEYS /\ pos' \in Nat
    BY <1>1, <2>1, <2>2
  <2> QED  BY <2>1, <2>2, <2>3, <2>4, <2>5 DEF EchoInv
<1>13. CASE port = 8
  <2>1. /\ reg' = [reg EXCEPT ![15] = b(15)] /\ UNCHANGED <<pos, cells, index>> /\ reg[14] = b(14)
        /\ shown' = Append(shown, SIGN) /\ port' = 0
    BY <1>1, <1>2, <1>13 DEF Prompt, WriteByte, EchoInv, b
  <2>2. reg' \in [{14, 15} -> 0 .. BYTE - 1] /\ reg'[14] = b(14) /\ reg'[15] = b(15)
    BY <1>1, <1>10, <1>13, <2>1
  <2>3. get_cursor' = pos
    BY <1>10, <1>13, <2>2 DEF get_cursor
  <2>4. Faithful' /\ Len(key_buffer') <= get_cursor'
    BY <1>2, <1>13, <2>1, <2>3 DEF EchoInv, Faithful, Shows, SIZE
  <2>5. shown' \in Seq(Glyph)
    <3>1. SIGN \in Glyph
      BY Glyphs, Zenon
    <3> QED  BY <1>1, <2>1, <3>1
  <2> QED  BY <1>1, <1>2, <2>1, <2>2, <2>4, <2>5 DEF EchoInv, Cells, SIZE
<1> QED  BY <1>1, <1>4, <1>5, <1>6, <1>7, <1>8, <1>9, <1>11, <1>12, <1>13

\* The screen is in order when it is cleared.
LEMMA EchoInit == ASSUME Init PROVE EchoInv
<1>1. /\ port = 0 /\ pos \in Nat /\ key_buffer \in Seq(Key) /\ Len(key_buffer) = 0
      /\ index \in {14, 15} /\ shown = <<>> /\ Len(shown) = 0 /\ shown \in Seq(Glyph)
  BY DEF Init, ScreenInit
<1>2. reg \in [{14, 15} -> 0 .. BYTE - 1] /\ get_cursor = 0
  BY Sizes DEF Init, ScreenInit, get_cursor
<1>3. cells \in Cells
  <2>1. BLANK \in Glyph
    BY Glyphs, Zenon
  <2> QED  BY <2>1 DEF Init, ScreenInit, Cells
<1>4. Faithful
  BY <1>1, <1>2, Sizes DEF Faithful, Shows
<1> QED  BY <1>1, <1>2, <1>3, <1>4, Sizes DEF EchoInv

\* Whatever comes between, what is typed and printed stands on the screen in
\* order and the cursor stays on it: for every size of screen and line.
THEOREM EchoStays == ASSUME PortsAlone PROVE Spec => []EchoShown
<1>1. EchoInv => EchoShown
  BY DEF EchoInv, EchoShown
<1>2. ASSUME EchoInv, [Next]_vars PROVE EchoInv'
  <2>1. ASSUME UNCHANGED <<cells, reg, index, shown, key_buffer, port, pos>> PROVE EchoInv'
    BY <1>2, <2>1, ZenonT(30) DEF EchoInv, Faithful, get_cursor, Shows, SIZE, Cells, CursorByte
  <2>2. CASE Poll \/ Dispatch \/ Execute \/ ShellClears
    BY <2>1, <2>2 DEF Poll, Dispatch, Execute, ShellClears, ClearBuffer, ClearReady, buffers, prompt, screenVars
  <2>3. CASE Enters \/ Leaves \/ \E len \in 0 .. KEYS : ReadLine(len)
    BY <2>1, <2>3 DEF Enters, Leaves, ReadLine, ClearBuffer, ClearReady, buffers, main, prompt, screenVars
  <2>4. CASE UNCHANGED vars
    BY <2>1, <2>4 DEF vars, screenVars
  <2> QED  BY PortsAlone, <1>2, <2>2, <2>3, <2>4, EchoOthers, EchoPrompt DEF Next, MainLoop, Program
<1>3. Init => EchoInv
  BY EchoInit
<1> QED  BY <1>1, <1>2, <1>3, PTL DEF Spec

-----------------------------------------------------------------------------
(* Lines *)

\* From here on a leaf is for Zenon unless it says SMT.
USE ZenonT(30)

Byte == Key \cup {NUL}
Buffer == [1 .. KEYS + 1 -> Byte]

\* The buffer holds these keys and the zero behind them.
Holding(buf, keys) ==
    /\ Len(keys) <= KEYS /\ buf[Len(keys) + 1] = NUL
    /\ \A i \in 1 .. Len(keys) : buf[i] = keys[i]

\* The bounds are numbers.
LEMMA Bounds == KEYS \in Nat /\ LINES \in Nat
BY KeyboardAssumption

\* A buffer is a sequence of bytes.
LEMMA BufferSeq ==
    ASSUME NEW buf \in Buffer
    PROVE  buf \in Seq(Byte) /\ Len(buf) = KEYS + 1
<1>1. KEYS + 1 \in Nat
  BY Bounds, SMT
<1> QED  BY <1>1, SMT DEF Buffer

\* The string in a buffer is what stands before its first zero.
LEMMA TextOf ==
    ASSUME NEW buf \in Seq(Byte), NEW keys \in Seq(Key), Len(keys) < Len(buf),
           buf[Len(keys) + 1] = NUL, \A i \in 1 .. Len(keys) : buf[i] = keys[i]
    PROVE  Text(buf) = keys
<1> DEFINE n == Len(keys) + 1
           I == {i \in 1 .. Len(buf) : buf[i] = NUL}
<1>1. Len(keys) \in Nat /\ Len(buf) \in Nat /\ n \in 1 .. Len(buf)
  BY LenProperties, SMT
<1>2. \A i \in 1 .. Len(keys) : buf[i] # NUL
  BY KeyboardAssumption, ElementOfSeq
<1>3. n \in I /\ \A i \in I : n <= i
  BY <1>1, <1>2, SMT
<1>4. Min(I) = n
  <2> HIDE DEF I
  <2>1. \A x \in I : x \in Nat
    BY SMT DEF I
  <2>2. Min(I) \in I /\ \A y \in I : Min(I) <= y
    BY <1>3 DEF Min
  <2> HIDE DEF n
  <2> QED  BY <1>3, <2>1, <2>2, SMT
<1>5. Text(buf) = SubSeq(buf, 1, Min(I) - 1)
  <2>1. I # {}
    BY <1>3
  <2> QED  BY <2>1, Zenon DEF Text, SelectInSeq
<1>6. Text(buf) = SubSeq(buf, 1, Len(keys))
  <2> HIDE DEF I
  <2>1. n - 1 = Len(keys)
    BY <1>1, SMT
  <2> QED  BY <1>4, <1>5, <2>1
<1>7. /\ SubSeq(buf, 1, Len(keys)) \in Seq(Byte) /\ Len(SubSeq(buf, 1, Len(keys))) = Len(keys)
      /\ \A i \in 1 .. Len(keys) : SubSeq(buf, 1, Len(keys))[i] = buf[i]
  BY <1>1, ElementOfSeq, SMT
<1>8. keys \in Seq(Byte)
  BY SMT DEF Byte
<1> QED  BY <1>6, <1>7, <1>8, SeqEqual

\* What the handler copies is there.
LEMMA CopiedHolds ==
    ASSUME NEW buf \in Buffer, NEW keys \in Seq(Key), Len(keys) <= KEYS
    PROVE  Copied(buf, keys) \in Buffer /\ Holding(Copied(buf, keys), keys)
<1> DEFINE n == Len(keys)
           rest == SubSeq(buf, n + 2, KEYS + 1)
           first == keys \o <<NUL>>
<1>1. /\ n \in Nat /\ KEYS \in Nat /\ n <= KEYS /\ buf \in Seq(Byte) /\ Len(buf) = KEYS + 1
      /\ keys \in Seq(Byte) /\ <<NUL>> \in Seq(Byte) /\ Len(<<NUL>>) = 1
  BY BufferSeq, Bounds, LenProperties, SMT DEF Byte
<1>2. rest \in Seq(Byte) /\ Len(rest) = KEYS - n
  <2>1. \A i \in n + 2 .. KEYS + 1 : buf[i] \in Byte
    BY <1>1, ElementOfSeq, SMT
  <2>2. /\ rest \in Seq(Byte)
        /\ Len(rest) = IF n + 2 <= KEYS + 1 THEN (KEYS + 1) - (n + 2) + 1 ELSE 0
    BY <1>1, <2>1, SubSeqProperties, SMT
  <2> HIDE DEF rest, n
  <2> QED  BY <1>1, <2>2, SMT
<1>3. /\ first \in Seq(Byte) /\ Len(first) = n + 1
      /\ \A i \in 1 .. n + 1 : first[i] = IF i <= n THEN keys[i] ELSE <<NUL>>[i - n]
  BY <1>1, ConcatProperties
<1>4. Copied(buf, keys) = first \o rest
  BY <1>1 DEF Copied
<1> HIDE DEF first, rest
<1>5. /\ Copied(buf, keys) \in Seq(Byte) /\ Len(Copied(buf, keys)) = KEYS + 1
      /\ \A i \in 1 .. n + 1 : Copied(buf, keys)[i] = first[i]
  <2>1. /\ first \o rest \in Seq(Byte) /\ Len(first \o rest) = Len(first) + Len(rest)
        /\ \A i \in 1 .. Len(first) + Len(rest) : (first \o rest)[i] =
               IF i <= Len(first) THEN first[i] ELSE rest[i - Len(first)]
    BY <1>2, <1>3, ConcatProperties
  <2> HIDE DEF n
  <2> QED  BY <1>1, <1>2, <1>3, <1>4, <2>1, SMT
<1>6. Copied(buf, keys) \in Buffer
  BY <1>5, LenProperties DEF Buffer
<1>7. first[n + 1] = NUL /\ \A i \in 1 .. n : first[i] = keys[i]
  BY <1>1, <1>3, SMT
<1> QED  BY <1>1, <1>5, <1>6, <1>7, SMT DEF Holding

\* A buffer that was cut holds the empty line.
LEMMA CutHolds ==
    ASSUME NEW buf \in Buffer
    PROVE  Cut(buf) \in Buffer /\ Holding(Cut(buf), <<>>)
<1>1. 1 \in 1 .. KEYS + 1 /\ KEYS \in Nat /\ NUL \in Byte
  BY Bounds, SMT DEF Byte
<1> QED  BY <1>1, SMT DEF Cut, Holding, Buffer

\* The timer does not come between the test of the owner and the end of the
\* command, nor between the clearing of the line and the change of the owner.
CommandsAlone == "call" \notin WINDOWS /\ "entry" \notin WINDOWS

Record == [to : {"shell", "user"}, number : Nat, text : Seq(Key)]

\* The shell has the line, and is still to clear it; a program that has come
\* further than this has cleared it.
HandedOver == shell \in {"clear", "flag"} /\ program \in {"none", "start", "flag"}

\* The line in line_buffer is newer than all that were given, unless the shell
\* has just been given it.  It is there as typed until one of the two cuts it.
LineInv ==
    /\ TypeOK
    /\ typed \in Seq(Seq(Key)) /\ Len(typed) <= LINES /\ number <= Len(typed)
    /\ got \in Seq(Record)
    /\ \A i \in DOMAIN got : got[i].number \in 1 .. number
    /\ line_ready => /\ number >= 1
                     /\ Holding(line_buffer, typed[number]) \/ Holding(line_buffer, <<>>)
    /\ line_ready /\ shell # "flag" /\ program # "flag" => Holding(line_buffer, typed[number])
    /\ shell \in {"call", "work"} => line_ready /\ program \in {"none", "start"}
    /\ shell = "work" => /\ command = [number |-> number, word |-> line_buffer[1]]
                         /\ typed[number] # <<>>
    /\ line_ready /\ ~HandedOver => \A i \in DOMAIN got : got[i].number < number
    /\ \A i, j \in DOMAIN got : i < j => got[i].number < got[j].number
    /\ GivenAsTyped

\* One more line is given to somebody.
LEMMA GivenStep ==
    ASSUME LineInv, NEW to \in {"shell", "user"}, NEW n \in Nat, NEW text \in Seq(Key),
           Given(to, n, text), n \in 1 .. number, \A i \in DOMAIN got : got[i].number < n,
           typed' = typed,
           IF to = "shell" THEN text = typed[n]
           ELSE \E k \in 0 .. Len(typed[n]) : text = SubSeq(typed[n], 1, k)
    PROVE  /\ got' \in Seq(Record)
           /\ \A i \in DOMAIN got' : got'[i].number \in 1 .. number
           /\ \A i, j \in DOMAIN got' : i < j => got'[i].number < got'[j].number
           /\ GivenAsTyped'
<1> DEFINE r == [to |-> to, number |-> n, text |-> text]
<1>1. r \in Record /\ got \in Seq(Record) /\ got' = Append(got, r) /\ r.number = n
  BY DEF LineInv, Record, Given
<1>2. /\ Len(got) \in Nat /\ got' \in Seq(Record) /\ Len(got') = Len(got) + 1
      /\ got'[Len(got) + 1] = r /\ \A i \in 1 .. Len(got) : got'[i] = got[i]
      /\ DOMAIN got = 1 .. Len(got) /\ DOMAIN got' = 1 .. Len(got) + 1
  BY <1>1, AppendProperties, LenProperties, SMT
<1> HIDE DEF r
<1>3. \A i \in DOMAIN got' : i \in DOMAIN got \/ i = Len(got) + 1
  BY <1>2, SMT
<1>4. \A i \in DOMAIN got' : got'[i].number \in 1 .. number
  BY <1>1, <1>2, <1>3 DEF LineInv
<1>5. ASSUME NEW i \in DOMAIN got', NEW j \in DOMAIN got', i < j
      PROVE  got'[i].number < got'[j].number
  <2>1. i \in DOMAIN got
    BY <1>2, <1>5, SMT
  <2> QED  BY <1>1, <1>2, <1>3, <1>5, <2>1 DEF LineInv
<1>6. GivenAsTyped'
  <2>1. r.to = to /\ r.text = text
    BY DEF r
  <2> DEFINE Right(e) == LET line == typed[e.number]
                         IN  IF e.to = "shell" THEN e.text = line
                             ELSE \E k \in 0 .. Len(line) : e.text = SubSeq(line, 1, k)
  <2>2. Right(r)
    BY <1>1, <2>1
  <2>3. \A i \in DOMAIN got : Right(got[i])
    BY DEF LineInv, GivenAsTyped
  <2>4. \A i \in DOMAIN got' : Right(got'[i])
    <3> HIDE DEF Right
    <3> QED  BY <1>2, <1>3, <2>2, <2>3
  <2> QED  BY <2>4 DEF GivenAsTyped
<1> QED  BY <1>2, <1>4, <1>5, <1>6

\* The zero is in the buffer.
LEMMA NulIn ==
    ASSUME NEW buf \in Buffer, NEW keys \in Seq(Key), Holding(buf, keys)
    PROVE  NUL \in Range(buf)
<1>1. Len(keys) + 1 \in 1 .. KEYS + 1 /\ DOMAIN buf = 1 .. KEYS + 1 /\ buf[Len(keys) + 1] = NUL
  BY LenProperties, Bounds, SMT DEF Holding, Buffer
<1> QED  BY <1>1 DEF Range

\* In order and as typed, when nothing is given and only lines are added.
LEMMA GivenStays ==
    ASSUME LineInv, got' = got, number <= number', number' \in Nat,
           \A n \in 1 .. number : typed'[n] = typed[n]
    PROVE  /\ got' \in Seq(Record) /\ DOMAIN got' = DOMAIN got
           /\ \A i \in DOMAIN got' : got'[i].number \in 1 .. number'
           /\ \A i, j \in DOMAIN got' : i < j => got'[i].number < got'[j].number
           /\ GivenAsTyped'
<1>1. number \in Nat /\ \A i \in DOMAIN got : got[i].number \in 1 .. number
  BY SMT DEF LineInv, TypeOK
<1>2. \A i \in DOMAIN got : got[i].number \in 1 .. number' /\ typed'[got[i].number] = typed[got[i].number]
  BY <1>1, SMT
<1>3. GivenAsTyped'
  BY <1>2 DEF LineInv, GivenAsTyped
<1> QED  BY <1>2, <1>3 DEF LineInv

\* The handler keeps LineInv.
LEMMA LineTyping == ASSUME LineInv, Typing PROVE LineInv'
<1> USE DEF Byte, Buffer
<1>1. /\ key_buffer \in Seq(Key) /\ Len(key_buffer) <= KEYS /\ Len(key_buffer) \in Nat /\ number \in Nat
      /\ Len(typed) \in Nat /\ number <= Len(typed) /\ typed \in Seq(Seq(Key))
      /\ line_buffer \in Buffer /\ LINES \in Nat /\ KEYS \in Nat /\ Len(typed) <= LINES
  BY LenProperties, KeyboardAssumption, SMT DEF LineInv, TypeOK
<1>2. ASSUME key_buffer' \in Seq(Key), Len(key_buffer') <= KEYS,
             UNCHANGED <<line_buffer, line_ready, number, keyboard_owner, shell, command, program, typed, got>>
      PROVE  LineInv'
  <2>1. TypeOK'
    BY <1>2 DEF LineInv, TypeOK
  <2> QED  BY <1>2, <2>1 DEF LineInv, GivenAsTyped, HandedOver
<1>3. ASSUME NEW k \in Key, Press(k) PROVE LineInv'
  <2>1. key_buffer' \in Seq(Key) /\ Len(key_buffer') <= KEYS
    BY <1>1, <1>3, SMT DEF Press
  <2> QED  BY <1>2, <1>3, <2>1 DEF Press, main, history
<1>4. ASSUME Backspace PROVE LineInv'
  <2>1. key_buffer' \in Seq(Key) /\ Len(key_buffer') <= KEYS
    BY <1>1, <1>4, FrontFacts, SMT DEF Backspace
  <2> QED  BY <1>2, <1>4, <2>1 DEF Backspace, main, history
<1>5. ASSUME Enter PROVE LineInv'
  <2>1. /\ typed' = Append(typed, key_buffer) /\ key_buffer' = <<>> /\ Len(typed) < LINES
        /\ UNCHANGED <<keyboard_owner, shell, command, program, got>>
    BY <1>5 DEF Enter, main
  <2>2. /\ typed' \in Seq(Seq(Key)) /\ Len(typed') = Len(typed) + 1 /\ Len(typed') <= LINES
        /\ typed'[Len(typed) + 1] = key_buffer /\ \A n \in 1 .. number : typed'[n] = typed[n]
        /\ key_buffer' \in Seq(Key) /\ Len(key_buffer') <= KEYS
    BY <1>1, <2>1, AppendProperties, SMT
  <2>3. CASE line_ready
    <3>1. UNCHANGED <<line_buffer, line_ready, number>>
      BY <1>5, <2>3 DEF Enter
    <3>2. TypeOK'
      BY <2>1, <2>2, <3>1 DEF LineInv, TypeOK
    <3>3. number \in 1 .. number /\ typed'[number] = typed[number] /\ number' <= Len(typed')
      <4>1. number >= 1
        BY <2>3 DEF LineInv
      <4>2. number \in 1 .. number
        BY <1>1, <4>1, SMT
      <4> QED  BY <1>1, <2>2, <3>1, <4>2, SMT
    <3>4. /\ got' \in Seq(Record) /\ DOMAIN got' = DOMAIN got
          /\ \A i \in DOMAIN got' : got'[i].number \in 1 .. number'
          /\ \A i, j \in DOMAIN got' : i < j => got'[i].number < got'[j].number
          /\ GivenAsTyped'
      BY <1>1, <2>1, <2>2, <3>1, GivenStays, SMT
    <3> QED  BY <2>1, <2>2, <3>1, <3>2, <3>3, <3>4 DEF LineInv, HandedOver
  <2>4. CASE ~line_ready
    <3>1. line_buffer' = Copied(line_buffer, key_buffer) /\ line_ready' = TRUE /\ number' = Len(typed) + 1
      BY <1>5, <2>2, <2>4 DEF Enter
    <3>2. line_buffer' \in Buffer /\ Holding(line_buffer', typed'[number'])
      BY <1>1, <2>2, <3>1, CopiedHolds
    <3>3. NUL \in Range(line_buffer)'
      BY <1>1, <2>2, <3>1, <3>2, NulIn
    <3>4. TypeOK'
      <4>1. number' \in 0 .. LINES
        BY <1>1, <2>2, <3>1, SMT
      <4> QED  BY <2>1, <2>2, <3>1, <3>2, <3>3, <4>1 DEF LineInv, TypeOK
    <3>5. number' \in Nat /\ number < number' /\ number' >= 1 /\ number' <= Len(typed')
      BY <1>1, <2>2, <3>1, SMT
    <3>6. /\ got' \in Seq(Record) /\ DOMAIN got' = DOMAIN got
          /\ \A i \in DOMAIN got' : got'[i].number \in 1 .. number'
          /\ \A i, j \in DOMAIN got' : i < j => got'[i].number < got'[j].number
          /\ GivenAsTyped'
      BY <1>1, <2>1, <2>2, <3>5, GivenStays, SMT
    <3>7. \A i \in DOMAIN got' : got'[i].number < number'
      BY <1>1, <2>1, <3>5, <3>6, SMT DEF LineInv
    <3>8. shell \notin {"call", "work"}
      BY <2>4 DEF LineInv
    <3> QED  BY <2>1, <2>2, <3>1, <3>2, <3>4, <3>5, <3>6, <3>7, <3>8 DEF LineInv
  <2> QED  BY <2>3, <2>4
<1> QED  BY <1>3, <1>4, <1>5 DEF Typing

\* The main loop keeps LineInv.
LEMMA LineMain == ASSUME CommandsAlone, LineInv, MainLoop PROVE LineInv'
<1> USE DEF Byte, Buffer
<1>1. /\ program \in {"none", "start", "running"} /\ number \in Nat /\ line_buffer \in Buffer
      /\ typed \in Seq(Seq(Key)) /\ number <= Len(typed) /\ Len(typed) \in Nat /\ KEYS \in Nat
  BY LenProperties, Bounds, SMT DEF MainLoop, CommandsAlone, LineInv, TypeOK
<1>2. ASSUME UNCHANGED <<got, typed, number>>
      PROVE  /\ got' \in Seq(Record) /\ DOMAIN got' = DOMAIN got
             /\ \A i \in DOMAIN got' : got'[i].number \in 1 .. number'
             /\ \A i, j \in DOMAIN got' : i < j => got'[i].number < got'[j].number
             /\ GivenAsTyped'
  BY <1>1, <1>2, GivenStays, SMT
<1>3. ASSUME shell \in {"call", "work"}
      PROVE  /\ line_ready /\ number \in 1 .. Len(typed) /\ Holding(line_buffer, typed[number])
             /\ typed[number] \in Seq(Key) /\ program \in {"none", "start"}
  <2>1. line_ready /\ number >= 1 /\ Holding(line_buffer, typed[number]) /\ program \in {"none", "start"}
    BY <1>1, <1>3 DEF LineInv
  <2>2. number \in 1 .. Len(typed)
    BY <1>1, <2>1, SMT
  <2> QED  BY <1>1, <2>1, <2>2, ElementOfSeq
<1>4. CASE Poll
  <2>1. TypeOK'
    BY <1>4 DEF Poll, LineInv, TypeOK, buffers, history
  <2>2. program # "running"
    BY <1>4 DEF Poll, LineInv, TypeOK
  <2> QED  BY <1>1, <1>2, <1>4, <2>1, <2>2 DEF Poll, LineInv, HandedOver, buffers, history
<1>5. CASE Dispatch
  <2>1. TypeOK'
    BY <1>5 DEF Dispatch, LineInv, TypeOK, buffers, history
  <2>2. Text(line_buffer) = typed[number]
    <3>1. /\ line_buffer \in Seq(Byte) /\ Len(line_buffer) = KEYS + 1 /\ Len(typed[number]) \in Nat
          /\ typed[number] \in Seq(Key) /\ Holding(line_buffer, typed[number])
      BY <1>1, <1>3, <1>5, BufferSeq, LenProperties DEF Dispatch
    <3>2. Len(typed[number]) < Len(line_buffer)
      BY <1>1, <3>1, SMT DEF Holding
    <3> QED  BY <3>1, <3>2, TextOf DEF Holding
  <2> QED  BY <1>1, <1>2, <1>3, <1>5, <2>1, <2>2 DEF Dispatch, LineInv, HandedOver, buffers, history
<1>6. CASE Execute
  <2> DEFINE keys == typed[number]
  <2>1. TypeOK'
    BY <1>1, <1>6 DEF Execute, LineInv, TypeOK, buffers
  <2>2. /\ command.number = number /\ command.word = line_buffer[1] /\ keys # <<>> /\ keys \in Seq(Key)
        /\ Holding(line_buffer, keys) /\ number \in 1 .. number
    <3>1. shell = "work"
      BY <1>6 DEF Execute
    <3>2. command = [number |-> number, word |-> line_buffer[1]] /\ keys # <<>>
      BY <3>1 DEF LineInv
    <3>3. keys \in Seq(Key) /\ Holding(line_buffer, keys) /\ number \in 1 .. number
      BY <1>1, <1>3, <3>1, SMT
    <3> QED  BY <3>2, <3>3
  <2> HIDE DEF keys
  <2>3. /\ Len(keys) \in Nat \ {0} /\ Tail(keys) \in Seq(Key) /\ Len(Tail(keys)) = Len(keys) - 1
        /\ \A i \in 1 .. Len(Tail(keys)) : Tail(keys)[i] = keys[i + 1]
    BY <2>2, HeadTailProperties, EmptySeq
  <2>4. /\ line_buffer \in Seq(Byte) /\ Len(line_buffer) = KEYS + 1 /\ line_buffer # <<>>
    BY <1>1, BufferSeq, EmptySeq, SMT
  <2>5. /\ Tail(line_buffer) \in Seq(Byte) /\ Len(Tail(line_buffer)) = KEYS
        /\ \A i \in 1 .. KEYS : Tail(line_buffer)[i] = line_buffer[i + 1]
    BY <1>1, <2>4, HeadTailProperties, SMT
  <2>6. Text(Tail(line_buffer)) = Tail(keys)
    <3>1. Len(keys) <= KEYS /\ line_buffer[Len(keys) + 1] = NUL /\ \A i \in 1 .. Len(keys) : line_buffer[i] = keys[i]
      BY <2>2 DEF Holding
    <3>2. /\ Len(Tail(keys)) < Len(Tail(line_buffer)) /\ Len(Tail(keys)) + 1 = Len(keys)
          /\ Tail(line_buffer)[Len(keys)] = NUL
      BY <1>1, <2>3, <2>5, <3>1, SMT
    <3>3. \A i \in 1 .. Len(Tail(keys)) : Tail(line_buffer)[i] = Tail(keys)[i]
      BY <1>1, <2>3, <2>5, <3>1, SMT
    <3> QED  BY <2>3, <2>5, <3>2, <3>3, TextOf
  <2>7. <<command.word>> \o Tail(keys) = keys
    <3>1. command.word = keys[1] /\ keys[1] \in Key
      BY <2>2, <2>3, ElementOfSeq, SMT DEF Holding
    <3>2. /\ <<keys[1]>> \in Seq(Key) /\ Len(<<keys[1]>>) = 1 /\ <<keys[1]>>[1] = keys[1]
      BY <3>1, SMT
    <3>3. /\ <<keys[1]>> \o Tail(keys) \in Seq(Key) /\ Len(<<keys[1]>> \o Tail(keys)) = 1 + Len(Tail(keys))
          /\ \A i \in 1 .. 1 + Len(Tail(keys)) : (<<keys[1]>> \o Tail(keys))[i] =
                 IF i <= 1 THEN <<keys[1]>>[i] ELSE Tail(keys)[i - 1]
      BY <2>3, <3>2, ConcatProperties, SMT
    <3>4. Len(<<keys[1]>> \o Tail(keys)) = Len(keys)
      BY <2>3, <3>3, SMT
    <3>5. \A i \in 1 .. Len(keys) : (<<keys[1]>> \o Tail(keys))[i] = keys[i]
      BY <2>3, <3>2, <3>3, SMT
    <3> QED  BY <2>2, <3>1, <3>3, <3>4, <3>5, SeqEqual
  <2>8. Given("shell", number, keys) /\ typed' = typed /\ \A i \in DOMAIN got : got[i].number < number
    <3>1. Given("shell", number, keys) /\ typed' = typed
      BY <1>6, <2>2, <2>6, <2>7 DEF Execute
    <3>2. line_ready /\ ~HandedOver
      BY <1>3, <1>6 DEF Execute, HandedOver
    <3> QED  BY <3>1, <3>2 DEF LineInv
  <2>9. /\ got' \in Seq(Record)
        /\ \A i \in DOMAIN got' : got'[i].number \in 1 .. number
        /\ \A i, j \in DOMAIN got' : i < j => got'[i].number < got'[j].number
        /\ GivenAsTyped'
    BY <1>1, <2>2, <2>8, GivenStep DEF keys
  <2>10. shell' = "clear" /\ program' \in {"none", "start"} /\ UNCHANGED <<buffers, typed>>
    BY <1>3, <1>6 DEF Execute
  <2> QED  BY <1>3, <1>6, <2>1, <2>2, <2>9, <2>10 DEF Execute, LineInv, HandedOver, buffers, keys
<1>7. CASE ShellClears
  <2>1. CASE shell = "clear" /\ shell' = "flag" /\ ClearBuffer /\ UNCHANGED <<keyboard_owner, program, history>>
    <3>1. line_buffer' \in Buffer /\ Holding(line_buffer', <<>>)
      BY <1>1, <2>1, CutHolds DEF ClearBuffer
    <3>2. NUL \in Range(line_buffer)'
      BY <3>1, NulIn, EmptySeq
    <3>3. TypeOK'
      BY <2>1, <3>1, <3>2 DEF ClearBuffer, LineInv, TypeOK
    <3> QED  BY <1>1, <1>2, <2>1, <3>1, <3>3 DEF ClearBuffer, LineInv, HandedOver, history
  <2>2. CASE shell = "flag" /\ shell' = "prompt" /\ ClearReady /\ UNCHANGED <<keyboard_owner, program, history>>
    <3>1. TypeOK'
      BY <2>2 DEF ClearReady, LineInv, TypeOK
    <3> QED  BY <1>1, <1>2, <2>2, <3>1 DEF ClearReady, LineInv, HandedOver, history
  <2> QED  BY <1>7, <2>1, <2>2 DEF ShellClears
<1>8. CASE Prompt
  <2>1. /\ shell = "prompt" /\ shell' \in {"prompt", "loop"}
        /\ UNCHANGED <<buffers, keyboard_owner, command, program, history>>
    BY <1>8 DEF Prompt
  <2>2. TypeOK'
    BY <2>1 DEF LineInv, TypeOK, buffers
  <2> QED  BY <1>1, <1>2, <2>1, <2>2 DEF LineInv, HandedOver, buffers, history
<1> QED  BY <1>4, <1>5, <1>6, <1>7, <1>8 DEF MainLoop

\* The program keeps LineInv.
LEMMA LineProgram == ASSUME CommandsAlone, LineInv, Program PROVE LineInv'
<1> USE DEF Byte, Buffer
<1>1. /\ shell \notin {"call", "work"} /\ number \in Nat /\ line_buffer \in Buffer
      /\ typed \in Seq(Seq(Key)) /\ number <= Len(typed) /\ Len(typed) \in Nat /\ KEYS \in Nat
  BY LenProperties, Bounds, SMT DEF Program, CommandsAlone, LineInv, TypeOK
<1>2. ASSUME UNCHANGED <<got, typed, number>>
      PROVE  /\ got' \in Seq(Record) /\ DOMAIN got' = DOMAIN got
             /\ \A i \in DOMAIN got' : got'[i].number \in 1 .. number'
             /\ \A i, j \in DOMAIN got' : i < j => got'[i].number < got'[j].number
             /\ GivenAsTyped'
  BY <1>1, <1>2, GivenStays, SMT
<1>3. CASE Enters
  <2>1. CASE /\ program = "start" /\ program' = "flag" /\ ClearBuffer
             /\ UNCHANGED <<keyboard_owner, main, history>>
    <3>1. line_buffer' \in Buffer /\ Holding(line_buffer', <<>>)
      BY <1>1, <2>1, CutHolds DEF ClearBuffer
    <3>2. NUL \in Range(line_buffer)'
      BY <3>1, NulIn, EmptySeq
    <3>3. TypeOK'
      BY <2>1, <3>1, <3>2 DEF ClearBuffer, LineInv, TypeOK, main
    <3> QED  BY <1>1, <1>2, <2>1, <3>1, <3>3 DEF ClearBuffer, LineInv, HandedOver, history, main
  <2>2. CASE /\ program = "flag" /\ program' = "owner" /\ ClearReady
             /\ UNCHANGED <<keyboard_owner, main, history>>
    <3>1. TypeOK'
      BY <2>2 DEF ClearReady, LineInv, TypeOK, main
    <3> QED  BY <1>1, <1>2, <2>2, <3>1 DEF ClearReady, LineInv, HandedOver, history, main
  <2>3. CASE /\ program = "owner" /\ program' = "running" /\ keyboard_owner' = "user"
             /\ UNCHANGED <<buffers, main, history>>
    <3>1. TypeOK'
      BY <2>3 DEF LineInv, TypeOK, main, buffers
    <3> QED  BY <1>1, <1>2, <2>3, <3>1 DEF LineInv, HandedOver, history, main, buffers
  <2> QED  BY <1>3, <2>1, <2>2, <2>3 DEF Enters
<1>4. CASE Leaves
  <2>1. TypeOK'
    BY <1>4 DEF Leaves, LineInv, TypeOK, main, buffers
  <2> QED  BY <1>1, <1>2, <1>4, <2>1 DEF Leaves, LineInv, HandedOver, history, main, buffers
<1>5. CASE WriteOut
  <2>1. TypeOK'
    BY <1>5 DEF WriteOut, LineInv, TypeOK, main, buffers
  <2> QED  BY <1>1, <1>2, <1>5, <2>1 DEF WriteOut, LineInv, HandedOver, history, main, buffers
<1>6. ASSUME NEW len \in 0 .. KEYS, ReadLine(len) PROVE LineInv'
  <2> DEFINE keys == typed[number]
             line == Text(line_buffer)
             text == SubSeq(line, 1, IF len < Len(line) THEN len ELSE Len(line))
  <2>1. /\ program = "running" /\ line_ready /\ Given("user", number, text)
        /\ line_buffer' = Cut(line_buffer) /\ line_ready' = FALSE
        /\ UNCHANGED <<key_buffer, number, keyboard_owner, main, program, typed>>
    BY <1>6 DEF ReadLine
  <2>2. /\ number \in 1 .. number /\ keys \in Seq(Key) /\ Len(keys) \in Nat
        /\ Holding(line_buffer, keys) \/ Holding(line_buffer, <<>>)
        /\ \A i \in DOMAIN got : got[i].number < number
    <3>1. number >= 1 /\ (Holding(line_buffer, keys) \/ Holding(line_buffer, <<>>)) /\ ~HandedOver
      BY <2>1 DEF LineInv, HandedOver
    <3>2. number \in 1 .. number /\ number \in 1 .. Len(typed)
      BY <1>1, <3>1, SMT
    <3>3. keys \in Seq(Key)
      BY <1>1, <3>2, ElementOfSeq
    <3> QED  BY <2>1, <3>1, <3>2, <3>3, LenProperties DEF LineInv
  <2> HIDE DEF keys
  <2>3. line = keys \/ line = <<>>
    <3>1. /\ line_buffer \in Seq(Byte) /\ Len(line_buffer) = KEYS + 1
          /\ <<>> \in Seq(Key) /\ Len(<<>>) = 0
      BY <1>1, BufferSeq, EmptySeq
    <3>2. CASE Holding(line_buffer, keys)
      <4>1. Len(keys) < Len(line_buffer)
        BY <1>1, <2>2, <3>1, <3>2, SMT DEF Holding
      <4> QED  BY <2>2, <3>1, <3>2, <4>1, TextOf DEF Holding
    <3>3. CASE Holding(line_buffer, <<>>)
      <4>1. Len(<<>>) < Len(line_buffer)
        BY <1>1, <3>1, SMT
      <4> QED  BY <3>1, <3>3, <4>1, TextOf DEF Holding
    <3> QED  BY <2>2, <3>2, <3>3
  <2> HIDE DEF line
  <2>4. \E k \in 0 .. Len(keys) : text = SubSeq(keys, 1, k)
    <3>1. CASE line = keys
      <4> DEFINE k == IF len < Len(keys) THEN len ELSE Len(keys)
      <4>1. k \in 0 .. Len(keys)
        BY <1>1, <2>2, SMT
      <4> QED  BY <3>1, <4>1
    <3>2. CASE line = <<>>
      <4>1. (IF len < Len(line) THEN len ELSE Len(line)) = 0 /\ 0 \in 0 .. Len(keys)
        BY <1>1, <2>2, <3>2, SMT
      <4>2. text = <<>> /\ SubSeq(keys, 1, 0) = <<>>
        BY <2>2, <3>2, <4>1, SMT
      <4> QED  BY <4>1, <4>2
    <3> QED  BY <2>3, <3>1, <3>2
  <2>5. text \in Seq(Key)
    <3>1. PICK k \in 0 .. Len(keys) : text = SubSeq(keys, 1, k)
      BY <2>4
    <3> HIDE DEF text
    <3> QED  BY <2>2, <3>1, SMT
  <2> HIDE DEF text
  <2>6. /\ got' \in Seq(Record)
        /\ \A i \in DOMAIN got' : got'[i].number \in 1 .. number
        /\ \A i, j \in DOMAIN got' : i < j => got'[i].number < got'[j].number
        /\ GivenAsTyped'
    BY <1>1, <2>1, <2>2, <2>4, <2>5, GivenStep DEF keys
  <2>7. line_buffer' \in Buffer /\ NUL \in Range(line_buffer)'
    BY <1>1, <2>1, CutHolds, NulIn, EmptySeq
  <2>8. TypeOK'
    BY <2>1, <2>7 DEF LineInv, TypeOK, main
  <2> QED  BY <1>1, <2>1, <2>6, <2>8 DEF LineInv, HandedOver, main
<1> QED  BY <1>3, <1>4, <1>5, <1>6 DEF Program

\* LineInv holds in every state.
THEOREM LineInvHolds == ASSUME CommandsAlone PROVE Spec => []LineInv
<1>1. ASSUME Init PROVE LineInv
  <2> USE DEF Byte, Buffer
  <2>1. line_buffer \in Buffer /\ Holding(line_buffer, <<>>) /\ KEYS \in Nat /\ LINES \in Nat
    BY <1>1, Bounds, KeyboardAssumption, SMT DEF Init, Holding
  <2>2. NUL \in Range(line_buffer)
    BY <2>1, NulIn, EmptySeq
  <2>3. TypeOK
    <3>1. /\ key_buffer \in Seq(Key) /\ Len(key_buffer) <= KEYS /\ line_ready = FALSE /\ number = 0
          /\ keyboard_owner = "shell" /\ shell = "prompt" /\ program = "none"
      BY <1>1, <2>1, EmptySeq, SMT DEF Init
    <3>2. number \in 0 .. LINES
      BY <2>1, <3>1, SMT
    <3> QED  BY <2>1, <2>2, <3>1, <3>2 DEF TypeOK
  <2>4. got = <<>> /\ typed = <<>> /\ DOMAIN got = {} /\ number = 0 /\ ~line_ready /\ shell = "prompt"
    BY <1>1, SMT DEF Init
  <2> QED  BY <2>1, <2>3, <2>4, EmptySeq, SMT DEF LineInv, GivenAsTyped
<1>2. ASSUME LineInv, UNCHANGED vars PROVE LineInv'
  <2>1. TypeOK'
    BY <1>2 DEF LineInv, TypeOK, vars
  <2> QED  BY <1>2, <2>1 DEF LineInv, GivenAsTyped, HandedOver, vars
<1>3. LineInv /\ [Next]_vars => LineInv'
  BY CommandsAlone, <1>2, LineTyping, LineMain, LineProgram DEF Next
<1> QED  BY <1>1, <1>3, PTL DEF Spec

\* However many lines of whatever length are typed, and whenever keys and
\* timer come: lines are handed over in order and none twice.
THEOREM LinesInOrder == ASSUME CommandsAlone PROVE Spec => []InOrderOnce
<1>1. LineInv => InOrderOnce
  BY DEF LineInv, InOrderOnce
<1> QED  BY <1>1, LineInvHolds, PTL

\* They are handed over as they were typed.
THEOREM LinesAsTyped == ASSUME CommandsAlone PROVE Spec => []GivenAsTyped
<1>1. LineInv => GivenAsTyped
  BY DEF LineInv
<1> QED  BY <1>1, LineInvHolds, PTL

\* A program never reads the command that started it.
THEOREM CommandsNotRead == ASSUME CommandsAlone PROVE Spec => []NotTheCommand
<1>1. ASSUME LineInv PROVE NotTheCommand
  <2>1. number \in Nat /\ \A i \in DOMAIN got : got[i].number \in 1 .. number
    BY <1>1, SMT DEF LineInv, TypeOK
  <2> QED  BY <1>1, <2>1, SMT DEF LineInv, NotTheCommand, HandedOver
<1> QED  BY <1>1, LineInvHolds, PTL

=============================================================================
