----------------------------- MODULE ElfProofs -----------------------------
(***************************************************************************)
(* Lemmas about Elf: words, pages and segments, the page walk, and the     *)
(* inductive invariant of the loaders with the steps that keep it; and the *)
(* layout of the initial stack.  LaunchProofs has the theorems.            *)
(***************************************************************************)
EXTENDS InitialStack, WellFoundedInduction, TLAPS

\* A leaf is for Zenon unless it says SMT.
USE ZenonT(30)

-----------------------------------------------------------------------------
(* Pages *)

IsPage(v) == v \in Nat /\ v % PAGE = 0

\* The sizes of words and pages.
LEMMA Sizes ==
    /\ WORD \in Nat /\ PAGE \in Nat /\ STACK_TOP \in Nat /\ LEN \in Nat
    /\ 0 < PAGE /\ PAGE <= STACK_TOP /\ STACK_TOP < WORD /\ 0 < LEN
    /\ MAX_FRAMES \in Nat /\ MAX_REGIONS \in Nat /\ 0 < MAX_REGIONS
BY ElfAssumption, SMT

\* Division with remainder.
LEMMA Division ==
    ASSUME NEW x \in Nat, NEW P \in Nat, 0 < P
    PROVE  /\ x \div P \in Nat /\ x % P \in 0 .. P - 1
           /\ x = (x \div P) * P + (x % P)
<1>1. x \div P \in Nat /\ x % P \in 0 .. P - 1
  BY SMT
<1>2. x - (x % P) = (x \div P) * P
  BY SMT
<1> QED  BY <1>1, <1>2, SMT

\* A remainder is determined by where it lies.
LEMMA Remainder ==
    ASSUME NEW q \in Nat, NEW r \in Nat, NEW P \in Nat, r < P
    PROVE  (q * P + r) % P = r /\ (q * P + r) \div P = q
BY SMT

\* The multiples of P are P apart.
LEMMA Apart ==
    ASSUME NEW a \in Nat, NEW b \in Nat, NEW P \in Nat, a * P < b * P
    PROVE  a * P + P <= b * P
<1>1. a < b
  BY SMT
<1>2. a + 1 <= b
  BY <1>1, SMT
<1> QED  BY <1>2, SMT

\* Pages are PAGE apart.
LEMMA PagesApart ==
    ASSUME NEW v, NEW w, IsPage(v), IsPage(w), v < w
    PROVE  v + PAGE <= w
<1>1. v = (v \div PAGE) * PAGE /\ w = (w \div PAGE) * PAGE
  BY Division, Sizes, SMT DEF IsPage
<1>2. v \div PAGE \in Nat /\ w \div PAGE \in Nat
  BY Division, Sizes DEF IsPage
<1> QED  BY <1>1, <1>2, Apart, Sizes

\* The address of a page, a number of pages on.
LEMMA PageAt ==
    ASSUME NEW v, IsPage(v), NEW m \in Nat
    PROVE  IsPage(v + m * PAGE) /\ IsPage(m * PAGE)
<1>1. v = (v \div PAGE) * PAGE /\ v \div PAGE \in Nat
  BY Division, Sizes, SMT DEF IsPage
<1> DEFINE q == v \div PAGE
<1>2. v + m * PAGE = (q + m) * PAGE + 0 /\ m * PAGE = m * PAGE + 0
  BY <1>1, Sizes, SMT
<1>3. (q + m) * PAGE + 0 \in Nat /\ m * PAGE + 0 \in Nat
  BY <1>1, Sizes, SMT
<1>4. ((q + m) * PAGE + 0) % PAGE = 0 /\ (m * PAGE + 0) % PAGE = 0
  <2>1. q + m \in Nat /\ m \in Nat /\ 0 \in Nat /\ 0 < PAGE /\ PAGE \in Nat
    BY <1>1, Sizes, SMT
  <2> QED  BY <2>1, Remainder
<1> QED  BY <1>2, <1>3, <1>4 DEF IsPage

\* page_down: the page of an address.
LEMMA PageOf ==
    ASSUME NEW a \in Nat
    PROVE  /\ IsPage(page_down(a)) /\ page_down(a) <= a /\ a < page_down(a) + PAGE
           /\ a % PAGE = a - page_down(a)
<1>1. a % PAGE \in 0 .. PAGE - 1 /\ a = (a \div PAGE) * PAGE + (a % PAGE) /\ a \div PAGE \in Nat
  BY Division, Sizes
<1>2. page_down(a) = (a \div PAGE) * PAGE + 0
  BY <1>1, Sizes, SMT DEF page_down
<1>3. (a \div PAGE) * PAGE + 0 \in Nat /\ ((a \div PAGE) * PAGE + 0) % PAGE = 0
  BY <1>1, Sizes, Remainder, SMT
<1> QED  BY <1>1, <1>2, <1>3, Sizes, SMT DEF IsPage, page_down

\* The page of an address is the one it lies in.
LEMMA InPage ==
    ASSUME NEW v, IsPage(v), NEW a \in Nat, v <= a, a < v + PAGE
    PROVE  page_down(a) = v /\ a % PAGE = a - v
<1>1. IsPage(page_down(a)) /\ page_down(a) <= a /\ a < page_down(a) + PAGE
      /\ a % PAGE = a - page_down(a)
  BY PageOf
<1>2. page_down(a) \in Nat /\ v \in Nat
  BY <1>1 DEF IsPage
<1>3. ~ v < page_down(a)
  BY <1>1, <1>2, PagesApart, Sizes, SMT
<1>4. ~ page_down(a) < v
  BY <1>1, <1>2, PagesApart, Sizes, SMT
<1> QED  BY <1>1, <1>2, <1>3, <1>4, SMT

\* The ends of memory and of the stack are pages.
LEMMA EndPages == IsPage(WORD) /\ IsPage(STACK_TOP) /\ IsPage(STACK_TOP - PAGE)
<1>1. IsPage(WORD) /\ IsPage(STACK_TOP)
  BY ElfAssumption, Sizes DEF IsPage
<1>2. STACK_TOP - PAGE \in Nat
  BY Sizes, SMT
<1>3. IsPage(page_down(STACK_TOP - PAGE)) /\ page_down(STACK_TOP - PAGE) <= STACK_TOP - PAGE
      /\ STACK_TOP - PAGE < page_down(STACK_TOP - PAGE) + PAGE
  BY <1>2, PageOf
<1>4. page_down(STACK_TOP - PAGE) \in Nat
  BY <1>3 DEF IsPage
<1>5. page_down(STACK_TOP - PAGE) + PAGE <= STACK_TOP
  BY <1>1, <1>3, <1>4, PagesApart, Sizes, SMT
<1>6. IsPage(page_down(STACK_TOP - PAGE) + 1 * PAGE)
  BY <1>3, PageAt
<1>7. ~ page_down(STACK_TOP - PAGE) + PAGE < STACK_TOP
  BY <1>1, <1>2, <1>3, <1>4, <1>6, PagesApart, Sizes, SMT
<1>8. page_down(STACK_TOP - PAGE) = STACK_TOP - PAGE
  BY <1>2, <1>4, <1>5, <1>7, Sizes, SMT
<1> QED  BY <1>1, <1>3, <1>8

\* Sums of words wrap around once.
LEMMA WordSum ==
    ASSUME NEW x \in 0 .. WORD - 1, NEW y \in 0 .. WORD - 1
    PROVE  Add(x, y) = IF x + y < WORD THEN x + y ELSE x + y - WORD
<1>1. CASE x + y < WORD
  <2>1. x + y \in Nat /\ 0 \in Nat /\ WORD \in Nat /\ x + y = 0 * WORD + (x + y)
    BY Sizes, SMT
  <2>2. (0 * WORD + (x + y)) % WORD = x + y
    BY <1>1, <2>1, Remainder
  <2> QED  BY <1>1, <2>1, <2>2 DEF Add
<1>2. CASE ~ x + y < WORD
  <2>1. x + y - WORD \in Nat /\ 1 \in Nat /\ WORD \in Nat
        /\ x + y - WORD < WORD /\ x + y = 1 * WORD + (x + y - WORD)
    BY <1>2, Sizes, SMT
  <2>2. (1 * WORD + (x + y - WORD)) % WORD = x + y - WORD
    BY <2>1, Remainder
  <2> QED  BY <1>2, <2>1, <2>2 DEF Add
<1> QED  BY <1>1, <1>2

-----------------------------------------------------------------------------
(* Segments *)

Words32 == 0 .. WORD - 1
End(p) == p.vaddr + p.memsz

\* The fields of a header are words.
LEMMA Fields ==
    ASSUME NEW p \in Header
    PROVE  /\ p.offset \in Words32 /\ p.vaddr \in Words32
           /\ p.filesz \in Words32 /\ p.memsz \in Words32
BY DEF Header, Words32

\* A segment that passes elf32_program_headers_ok and elf_segment_range_ok ends
\* inside memory, also when rounded up to a page, and beside the stack.
LEMMA SegmentEnds ==
    ASSUME NEW p \in Header, HeaderOk(p), RangeOk(p)
    PROVE  /\ Add(p.vaddr, p.memsz) = End(p) /\ Add(p.vaddr, p.filesz) = p.vaddr + p.filesz
           /\ 0 < p.vaddr /\ 0 < p.memsz /\ p.filesz <= p.memsz
           /\ p.offset + p.filesz <= LEN /\ p.offset + p.filesz < WORD
           /\ IsPage(EndPage(p)) /\ End(p) <= EndPage(p) /\ EndPage(p) < End(p) + PAGE
           /\ EndPage(p) + PAGE <= WORD
           /\ ~(p.vaddr < STACK_TOP /\ End(p) > STACK_TOP - PAGE)
<1>1. /\ p.offset \in Words32 /\ p.vaddr \in Words32
      /\ p.filesz \in Words32 /\ p.memsz \in Words32
  BY Fields
<1>2. p.filesz <= p.memsz /\ 0 < p.memsz /\ 0 < p.vaddr
  BY <1>1, Sizes, SMT DEF HeaderOk, Words32
<1>3. Add(p.vaddr, p.memsz) = End(p) /\ End(p) \in Words32
  <2>1. Add(p.vaddr, p.memsz) = IF p.vaddr + p.memsz < WORD THEN p.vaddr + p.memsz
                                ELSE p.vaddr + p.memsz - WORD
    BY <1>1, WordSum DEF Words32
  <2>2. Add(p.vaddr, p.memsz) >= p.vaddr
    BY DEF HeaderOk
  <2> QED  BY <1>1, <2>1, <2>2, Sizes, SMT DEF End, Words32
<1>4. Add(p.vaddr, p.filesz) = p.vaddr + p.filesz
  <2>1. Add(p.vaddr, p.filesz) = IF p.vaddr + p.filesz < WORD THEN p.vaddr + p.filesz
                                 ELSE p.vaddr + p.filesz - WORD
    BY <1>1, WordSum DEF Words32
  <2> QED  BY <1>1, <1>2, <1>3, <2>1, Sizes, SMT DEF End, Words32
<1>5. p.offset + p.filesz <= LEN /\ p.offset + p.filesz < WORD
  <2>1. Add(p.offset, p.filesz) = IF p.offset + p.filesz < WORD THEN p.offset + p.filesz
                                  ELSE p.offset + p.filesz - WORD
    BY <1>1, WordSum DEF Words32
  <2>2. Add(p.offset, p.filesz) >= p.offset /\ Add(p.offset, p.filesz) <= LEN
    BY DEF HeaderOk
  <2> QED  BY <1>1, <2>1, <2>2, Sizes, SMT DEF Words32
<1>6. /\ IsPage(EndPage(p)) /\ End(p) <= EndPage(p) /\ EndPage(p) < End(p) + PAGE
      /\ EndPage(p) + PAGE <= WORD
  <2>1. EndPage(p) = page_down(Add(End(p), PAGE - 1)) /\ EndPage(p) >= p.vaddr
    BY <1>3 DEF EndPage, page_up, RangeOk
  <2>2. PAGE - 1 \in Words32
    BY Sizes, SMT DEF Words32
  <2>3. Add(End(p), PAGE - 1) = IF End(p) + (PAGE - 1) < WORD THEN End(p) + (PAGE - 1)
                                ELSE End(p) + (PAGE - 1) - WORD
    BY <1>3, <2>2, WordSum DEF Words32
  <2>4. Add(End(p), PAGE - 1) \in Words32
    BY <1>3, <2>2, <2>3, Sizes, SMT DEF Words32
  <2> DEFINE e == Add(End(p), PAGE - 1)
  <2>5. e \in Nat
    BY <2>4, Sizes, SMT DEF Words32
  <2> HIDE DEF e
  <2>6. IsPage(page_down(e)) /\ page_down(e) <= e /\ e < page_down(e) + PAGE
    BY <2>5, PageOf
  <2>7. page_down(e) \in Nat
    BY <2>6 DEF IsPage
  <2>8. End(p) + (PAGE - 1) < WORD
    <3> SUFFICES ASSUME ~ End(p) + (PAGE - 1) < WORD PROVE FALSE
      OBVIOUS
    <3>1. e < PAGE /\ 0 < page_down(e)
      BY <1>1, <1>2, <1>3, <2>1, <2>3, <2>7, Sizes, SMT DEF e, Words32
    <3>2. IsPage(0)
      BY Sizes, SMT DEF IsPage
    <3> QED  BY <2>5, <2>6, <2>7, <3>1, <3>2, PagesApart, Sizes, SMT
  <2>9. e = End(p) + (PAGE - 1)
    BY <2>3, <2>8 DEF e
  <2>10. page_down(e) + PAGE <= WORD
    BY <1>3, <2>4, <2>5, <2>6, <2>7, PagesApart, EndPages, Sizes, SMT DEF Words32, e
  <2>11. EndPage(p) = page_down(e)
    BY <2>1 DEF e
  <2> QED  BY <1>3, <2>5, <2>6, <2>7, <2>9, <2>10, <2>11, Sizes, SMT DEF Words32
<1>7. ~(p.vaddr < STACK_TOP /\ End(p) > STACK_TOP - PAGE)
  BY <1>3 DEF RangeOk
<1> QED  BY <1>2, <1>3, <1>4, <1>5, <1>6, <1>7

\* The pages of a segment, from page_down of its beginning to page_up of its
\* end; none of them is the page of the stack.
LEMMA SegmentPages ==
    ASSUME NEW p \in Header, HeaderOk(p), RangeOk(p)
    PROVE  /\ \A a \in Addresses(p) :
                 /\ a \in Nat /\ a < WORD
                 /\ page_down(p.vaddr) <= page_down(a) /\ page_down(a) < EndPage(p)
           /\ \A v : IsPage(v) /\ page_down(p.vaddr) <= v /\ v < EndPage(p) =>
                 v \in PagesOf(p) /\ v # STACK_TOP - PAGE
<1> DEFINE first == page_down(p.vaddr)
           end == EndPage(p)
<1>1. /\ p.vaddr \in Nat /\ p.memsz \in Nat /\ p.vaddr < WORD
  BY Fields, Sizes, SMT DEF Words32
<1>2. /\ 0 < p.memsz /\ IsPage(end) /\ End(p) <= end /\ end < End(p) + PAGE /\ end + PAGE <= WORD
      /\ ~(p.vaddr < STACK_TOP /\ End(p) > STACK_TOP - PAGE)
  BY SegmentEnds
<1>3. IsPage(first) /\ first <= p.vaddr /\ p.vaddr < first + PAGE
  BY <1>1, PageOf
<1> HIDE DEF first, end
<1>4. end \in Nat /\ first \in Nat
  BY <1>2, <1>3 DEF IsPage
<1>5. ASSUME NEW a \in Addresses(p)
      PROVE  /\ a \in Nat /\ a < WORD
             /\ first <= page_down(a) /\ page_down(a) < end
  <2>1. a \in Nat /\ p.vaddr <= a /\ a < End(p)
    BY <1>1, SMT DEF Addresses, End
  <2>2. IsPage(page_down(a)) /\ page_down(a) <= a /\ a < page_down(a) + PAGE
    BY <2>1, PageOf
  <2>3. page_down(a) \in Nat
    BY <2>2 DEF IsPage
  <2>4. ~ page_down(a) < first
    BY <1>1, <1>3, <1>4, <2>1, <2>2, <2>3, PagesApart, Sizes, SMT
  <2> QED  BY <1>1, <1>2, <1>4, <2>1, <2>2, <2>3, <2>4, Sizes, SMT DEF End
<1>6. ASSUME NEW v, IsPage(v), first <= v, v < end
      PROVE  v \in PagesOf(p) /\ v # STACK_TOP - PAGE
  <2>1. v \in Nat
    BY <1>6 DEF IsPage
  <2>2. v + PAGE <= end
    BY <1>2, <1>6, PagesApart
  <2>3. v < End(p)
    BY <1>1, <1>2, <1>4, <2>1, <2>2, Sizes, SMT DEF End
  <2> DEFINE a == IF v > p.vaddr THEN v ELSE p.vaddr
  <2>4. a \in Addresses(p) /\ a \in Nat /\ v <= a /\ a < v + PAGE
    BY <1>1, <1>2, <1>3, <1>4, <1>6, <2>1, <2>3, Sizes, SMT DEF Addresses, End
  <2> HIDE DEF a
  <2>5. page_down(a) = v
    BY <1>6, <2>4, InPage
  <2>6. v # STACK_TOP - PAGE
    BY <1>1, <1>2, <1>3, <1>4, <1>6, <2>1, <2>3, Sizes, SMT
  <2> QED  BY <2>4, <2>5, <2>6 DEF PagesOf
<1> QED  BY <1>5, <1>6 DEF first, end

\* elf_fill_page_frame puts into a page of a segment what the segment owes to
\* its own addresses, and zeros beside them.
LEMMA Filled ==
    ASSUME NEW p \in Header, HeaderOk(p), RangeOk(p),
           NEW v, IsPage(v), page_down(p.vaddr) <= v, v < EndPage(p),
           NEW b \in 0 .. PAGE - 1
    PROVE  LET byte == elf_fill_page_frame(v, p).bytes[b] IN
           /\ v + b \in Addresses(p) => byte = ByteAt(p, v + b)
           /\ byte # 0 => v + b \in Addresses(p) /\ byte = ByteAt(p, v + b) /\ byte <= LEN
<1>1. /\ p.vaddr \in Nat /\ p.memsz \in Nat /\ p.offset \in Nat /\ p.filesz \in Nat
      /\ p.offset < WORD /\ v \in Nat /\ b \in Nat /\ b < PAGE
  BY Fields, Sizes, SMT DEF Words32, IsPage
<1>2. /\ Add(p.vaddr, p.filesz) = p.vaddr + p.filesz
      /\ p.filesz <= p.memsz /\ p.offset + p.filesz <= LEN
      /\ IsPage(EndPage(p)) /\ EndPage(p) + PAGE <= WORD
      /\ p.offset + p.filesz < WORD
  BY SegmentEnds
<1>3. EndPage(p) \in Nat
  BY <1>2 DEF IsPage
<1>4. v + PAGE < WORD
  BY <1>1, <1>2, <1>3, Sizes, SMT
<1>5. Add(v, PAGE) = v + PAGE
  <2>1. v \in 0 .. WORD - 1 /\ PAGE \in 0 .. WORD - 1
    BY <1>1, <1>4, Sizes, SMT
  <2> QED  BY <1>4, <2>1, WordSum
<1> DEFINE start == CopyStart(v, p)
           end == CopyEnd(v, p)
           off == Add(p.offset, start - p.vaddr)
<1>6. /\ start \in Nat /\ end \in Nat /\ v <= start /\ p.vaddr <= start
      /\ start = v \/ start = p.vaddr
      /\ end <= v + PAGE /\ end <= p.vaddr + p.filesz
      /\ end = v + PAGE \/ end = p.vaddr + p.filesz
  BY <1>1, <1>2, <1>5, Sizes, SMT DEF CopyStart, CopyEnd
<1>7. elf_fill_page_frame(v, p).bytes[b]
        = IF start <= v + b /\ v + b < end THEN off + (v + b - start) + 1 ELSE 0
  BY DEF elf_fill_page_frame
<1> HIDE DEF start, end
<1>8. CASE start <= v + b /\ v + b < end
  <2>1. p.offset \in 0 .. WORD - 1 /\ start - p.vaddr \in 0 .. WORD - 1
        /\ p.offset + (start - p.vaddr) < WORD
    BY <1>1, <1>2, <1>4, <1>6, <1>8, Sizes, SMT
  <2>2. off = p.offset + (start - p.vaddr)
    <3>1. Add(p.offset, start - p.vaddr) = p.offset + (start - p.vaddr)
      <4> DEFINE d == start - p.vaddr
      <4> HIDE DEF d
      <4> QED  BY <2>1, WordSum DEF d
    <3> QED  BY <3>1 DEF off
  <2>3. off + (v + b - start) + 1 = p.offset + ((v + b) - p.vaddr) + 1
    BY <1>1, <1>6, <2>2, SMT
  <2>4. v + b \in Addresses(p) /\ (v + b) - p.vaddr < p.filesz
        /\ p.offset + ((v + b) - p.vaddr) + 1 <= LEN
    BY <1>1, <1>2, <1>6, <1>8, Sizes, SMT DEF Addresses
  <2>5. ByteAt(p, v + b) = p.offset + ((v + b) - p.vaddr) + 1
    BY <2>4 DEF ByteAt
  <2> HIDE DEF off
  <2>6. elf_fill_page_frame(v, p).bytes[b] = p.offset + ((v + b) - p.vaddr) + 1
    BY <1>7, <1>8, <2>3
  <2> QED  BY <2>4, <2>5, <2>6
<1>9. CASE ~(start <= v + b /\ v + b < end)
  <2>1. v + b \in Addresses(p) => ~ (v + b) - p.vaddr < p.filesz
    BY <1>1, <1>2, <1>6, <1>9, Sizes, SMT DEF Addresses
  <2>2. v + b \in Addresses(p) => ByteAt(p, v + b) = 0
    BY <2>1 DEF ByteAt
  <2>3. elf_fill_page_frame(v, p).bytes[b] = 0
    BY <1>7, <1>9
  <2> QED  BY <2>2, <2>3
<1> QED  BY <1>8, <1>9

\* When the end of a range is not below its start, the sum has not wrapped.
LEMMA NoWrap ==
    ASSUME NEW x \in Words32, NEW y \in Words32, y # 0
    PROVE  /\ (x + y - 1) % WORD >= x => (x + y - 1) % WORD = x + y - 1 /\ x + y - 1 < WORD
           /\ x + y - 1 < WORD => (x + y - 1) % WORD = x + y - 1
<1>1. x \in 0 .. WORD - 1 /\ y - 1 \in 0 .. WORD - 1 /\ y - 1 < WORD - 1
  BY Sizes, SMT DEF Words32
<1>2. Add(x, y - 1) = IF x + (y - 1) < WORD THEN x + (y - 1) ELSE x + (y - 1) - WORD
  <2> DEFINE z == y - 1
  <2>1. z \in 0 .. WORD - 1
    BY <1>1
  <2> HIDE DEF z
  <2>2. Add(x, z) = IF x + z < WORD THEN x + z ELSE x + z - WORD
    BY <1>1, <2>1, WordSum
  <2> QED  BY <2>2 DEF z
<1> DEFINE s == (x + y - 1) % WORD
<1>3. s = IF x + (y - 1) < WORD THEN x + (y - 1) ELSE x + (y - 1) - WORD
  BY <1>2 DEF Add
<1> HIDE DEF s
<1>4. (s >= x => s = x + y - 1 /\ x + y - 1 < WORD) /\ (x + y - 1 < WORD => s = x + y - 1)
  BY <1>1, <1>3, Sizes, SMT
<1> QED  BY <1>4 DEF s

\* The addresses of a range that has not wrapped around.
LEMMA RangeWords ==
    ASSUME NEW x \in Words32, NEW y \in Words32, y # 0
    PROVE  /\ x \in Nat /\ x + y - 1 \in Nat /\ x <= x + y - 1 /\ x + y - 1 >= x
           /\ \A a \in x .. x + y - 1 : a \in Nat
           /\ x \in x .. x + y - 1 /\ x + y - 1 \in x .. x + y - 1
BY Sizes, SMT DEF Words32

\* Some words.
LEMMA SomeWords ==
    /\ 0 \in Nat /\ 0 \in Words32 /\ 1 \in Words32 /\ PAGE \in Words32
    /\ STACK_TOP - PAGE \in Words32 /\ WORD \in Nat /\ 0 < WORD
    /\ \A a \in STACK_TOP - PAGE .. (STACK_TOP - PAGE) + PAGE - 1 :
          a \in Words32 /\ a \in STACK_TOP - PAGE .. STACK_TOP - 1
    /\ \A a \in Words32 : a \in Nat /\ a < WORD /\ a + 0 = a
BY Sizes, SMT DEF Words32

\* Addresses of a range.
LEMMA RangeBelow ==
    ASSUME NEW x \in Words32, NEW y \in Words32, NEW a \in x .. x + y - 1, a < WORD
    PROVE  a \in Words32
BY Sizes, SMT DEF Words32

\* A word is its own remainder.
LEMMA WordItself ==
    ASSUME NEW x \in Words32
    PROVE  x % WORD = x
<1>1. x \in Nat /\ x < WORD /\ 0 * WORD + x = x /\ 0 \in Nat
  BY Sizes, SMT DEF Words32
<1>2. (0 * WORD + x) % WORD = x
  BY <1>1, Remainder, Sizes
<1> QED  BY <1>1, <1>2

\* An address some bytes on is a word.
LEMMA Onward ==
    ASSUME NEW x \in Words32, NEW m \in Nat
    PROVE  (x + m) % WORD \in Words32
<1>1. x + m \in Nat /\ WORD \in Nat /\ 0 < WORD
  BY Sizes, SMT DEF Words32
<1> QED  BY <1>1, Division DEF Words32

\* The bytes of a range inside another range.
LEMMA Inside ==
    ASSUME NEW x \in Words32, NEW y \in Words32, NEW k \in 0 .. y - 1,
           NEW start \in Words32, NEW len \in Words32,
           x >= start, x + y - 1 <= start + len - 1, x + y - 1 < WORD
    PROVE  /\ (x + k) % WORD = x + k /\ x + k \in start .. start + len - 1
<1>1. /\ x + k \in Words32 /\ x + k \in start .. start + len - 1
  BY Sizes, SMT DEF Words32
<1> QED  BY <1>1, WordItself

\* The first and the last address of a range inside another range.
LEMMA Bounds ==
    ASSUME NEW x \in Words32, NEW y \in Words32, NEW start \in Words32, NEW len \in Words32,
           x \in start .. start + len - 1, x + y - 1 \in start .. start + len - 1
    PROVE  /\ len # 0 /\ start + len - 1 >= start /\ x >= start
           /\ x + y - 1 <= start + len - 1 /\ start + len - 1 \in start .. start + len - 1
BY Sizes, SMT DEF Words32

\* The page of the stack is one page.
LEMMA StackWhole ==
    ASSUME NEW a \in Nat
    PROVE  /\ page_down(page_down(a)) = page_down(a)
           /\ a \in STACK_TOP - PAGE .. STACK_TOP - 1
              => page_down(a) \in STACK_TOP - PAGE .. STACK_TOP - 1
<1> DEFINE v == page_down(a)
<1>1. IsPage(v) /\ v <= a /\ a < v + PAGE
  BY PageOf
<1>2. v \in Nat
  BY <1>1 DEF IsPage
<1>3. IsPage(STACK_TOP - PAGE)
  BY EndPages
<1> HIDE DEF v
<1>4. page_down(v) = v
  <2>1. v <= v /\ v < v + PAGE
    BY <1>2, Sizes, SMT
  <2> QED  BY <1>1, <1>2, <2>1, InPage
<1>5. v < STACK_TOP - PAGE => v + PAGE <= STACK_TOP - PAGE
  BY <1>1, <1>3, PagesApart
<1>6. a \in STACK_TOP - PAGE .. STACK_TOP - 1 => v \in STACK_TOP - PAGE .. STACK_TOP - 1
  BY <1>1, <1>2, <1>5, Sizes, SMT
<1> QED  BY <1>4, <1>6 DEF v

\* Characters are counted from zero.
LEMMA Counting ==
    /\ \A k : k \notin 0 .. 0 - 1
    /\ \A m \in Nat : /\ m + 1 \in Nat /\ (m + 1) - 1 = m /\ 0 <= m /\ m <= m
                      /\ \A k \in 0 .. m : k = m \/ k \in 0 .. m - 1
    /\ \A m \in Nat, z \in Nat : m <= z => m \in 0 .. z /\ (m # z => m + 1 <= z)
    /\ 0 \in 0 .. 1 - 1
    /\ \A M \in Nat : \A m \in 1 .. M : m # 0 /\ m <= M
BY SMT

-----------------------------------------------------------------------------
(* The page walk *)

\* The numbers of the pages of memory.
LEMMA PageNumbers ==
    /\ \A m \in 0 .. WORD \div PAGE - 1 : m * PAGE \in Nat
    /\ \A a \in Nat : a < WORD => a \div PAGE \in Nat /\ a \div PAGE < WORD \div PAGE
<1>1. \A m \in Nat : m * PAGE \in Nat
  BY Sizes, SMT
<1>2. WORD \div PAGE \in Nat
  BY Division, Sizes
<1>3. \A m \in 0 .. WORD \div PAGE - 1 : m \in Nat
  <2> DEFINE q == WORD \div PAGE
  <2> HIDE DEF q
  <2>1. q \in Nat
    BY <1>2 DEF q
  <2>2. \A m \in 0 .. q - 1 : m \in Nat
    BY <2>1, SMT
  <2> QED  BY <2>2 DEF q
<1>4. ASSUME NEW a \in Nat, a < WORD
      PROVE  a \div PAGE \in Nat /\ a \div PAGE < WORD \div PAGE
  <2>1. /\ a \div PAGE \in Nat /\ a % PAGE \in 0 .. PAGE - 1
        /\ a = (a \div PAGE) * PAGE + (a % PAGE)
    BY Division, Sizes
  <2>2. WORD = (WORD \div PAGE) * PAGE + (WORD % PAGE) /\ WORD % PAGE = 0
    BY Division, ElfAssumption, Sizes
  <2> DEFINE x == a \div PAGE
             y == WORD \div PAGE
  <2>3. x \in Nat /\ y \in Nat /\ a = x * PAGE + (a % PAGE) /\ WORD = y * PAGE + 0
    BY <1>2, <2>1, <2>2
  <2> HIDE DEF x, y
  <2>4. x * PAGE < y * PAGE
    <3> DEFINE s == x * PAGE
               t == y * PAGE
    <3>1. s \in Nat /\ t \in Nat
      BY <2>3, Sizes, SMT
    <3>2. a = s + (a % PAGE) /\ WORD = t + 0
      BY <2>3
    <3> HIDE DEF s, t
    <3>3. s < t
      BY <1>4, <2>1, <3>1, <3>2, Sizes, SMT
    <3> QED  BY <3>3 DEF s, t
  <2>5. x < y
    BY <2>3, <2>4, Sizes, SMT
  <2> QED  BY <2>1, <2>5 DEF x, y
<1> QED  BY <1>1, <1>3, <1>4

\* The pages of a range whose addresses all lie in V, a set of whole pages.
LEMMA WalkPages ==
    ASSUME NEW V \in SUBSET Nat, \A a \in V : page_down(a) \in V,
           NEW ptr \in Nat, NEW end \in Nat, ptr <= end, end < WORD,
           \A a \in ptr .. end : a \in V
    PROVE  /\ ptr \div PAGE \in Nat /\ end \div PAGE \in Nat /\ ptr \div PAGE <= end \div PAGE
           /\ \A m \in Nat : ptr \div PAGE <= m /\ m <= end \div PAGE =>
                 /\ m \in 0 .. WORD \div PAGE - 1 /\ m * PAGE \in V
                 /\ m < end \div PAGE => (m + 1) * PAGE < WORD
<1> DEFINE e == end \div PAGE
           s == ptr \div PAGE
           D == 0 .. WORD \div PAGE - 1
<1>1. /\ e \in Nat /\ end % PAGE \in 0 .. PAGE - 1 /\ end = e * PAGE + (end % PAGE)
      /\ s \in Nat /\ ptr % PAGE \in 0 .. PAGE - 1 /\ ptr = s * PAGE + (ptr % PAGE)
  BY Division, Sizes
<1> HIDE DEF e, s
<1>2. ASSUME NEW m \in Nat, s <= m, m <= e
      PROVE  m \in D /\ m * PAGE \in V /\ (m < e => (m + 1) * PAGE < WORD)
  <2>1. m * PAGE \in Nat /\ m * PAGE <= e * PAGE /\ e * PAGE \in Nat
    BY <1>1, <1>2, Sizes, SMT
  <2>2. m * PAGE <= end
    <3> DEFINE x == m * PAGE
               y == e * PAGE
    <3>1. x \in Nat /\ y \in Nat /\ x <= y /\ end = y + (end % PAGE)
      BY <1>1, <2>1
    <3> HIDE DEF x, y
    <3>2. x <= end
      BY <1>1, <3>1, Sizes, SMT
    <3> QED  BY <3>2 DEF x
  <2>3. m \in D
    <3> DEFINE q == WORD \div PAGE
    <3>1. q \in Nat /\ WORD = q * PAGE
      <4>1. WORD % PAGE = 0 /\ WORD \in Nat
        BY ElfAssumption, Sizes
      <4>2. q \in Nat /\ WORD = q * PAGE + (WORD % PAGE)
        BY <4>1, Division, Sizes
      <4> HIDE DEF q
      <4>3. q * PAGE \in Nat
        BY <4>2, Sizes, SMT
      <4> QED  BY <4>1, <4>2, <4>3, SMT
    <3> HIDE DEF q
    <3>2. m * PAGE < q * PAGE
      <4>1. m * PAGE < WORD
        <5> DEFINE x == m * PAGE
        <5>1. x \in Nat /\ x <= end
          BY <2>1, <2>2
        <5> HIDE DEF x
        <5>2. x < WORD
          BY <5>1, Sizes, SMT
        <5> QED  BY <5>2 DEF x
      <4> QED  BY <3>1, <4>1
    <3>3. m < q
      BY <3>1, <3>2, Sizes, SMT
    <3>4. m \in 0 .. q - 1
      BY <3>1, <3>3, SMT
    <3> QED  BY <3>4 DEF q
  <2>4. ASSUME m = s PROVE m * PAGE \in V
    <3>1. ptr \in ptr .. end
      BY SMT
    <3>2. page_down(ptr) = m * PAGE
      <4> DEFINE x == s * PAGE
      <4>1. x \in Nat /\ ptr = x + (ptr % PAGE)
        BY <1>1, <2>1, <2>4
      <4> HIDE DEF x
      <4>2. ptr - (ptr % PAGE) = x
        BY <1>1, <4>1, Sizes, SMT
      <4> QED  BY <2>4, <4>2 DEF x, page_down
    <3>3. page_down(ptr) \in V
      BY <3>1
    <3> QED  BY <3>2, <3>3
  <2>5. ASSUME m # s PROVE m * PAGE \in V
    <3>1. s + 1 <= m
      BY <1>1, <1>2, <2>5, SMT
    <3>2. s * PAGE + PAGE <= m * PAGE /\ s * PAGE \in Nat
      <4>1. (s + 1) * PAGE <= m * PAGE /\ s * PAGE \in Nat
        BY <1>1, <3>1, Sizes, SMT
      <4>2. (s + 1) * PAGE = s * PAGE + PAGE
        BY <1>1, Sizes, SMT
      <4> QED  BY <4>1, <4>2
    <3>3. m * PAGE \in ptr .. end
      <4> DEFINE x == m * PAGE
                 y == s * PAGE
      <4>1. x \in Nat /\ y \in Nat /\ y + PAGE <= x /\ x <= end /\ ptr = y + (ptr % PAGE)
        BY <1>1, <2>1, <2>2, <3>2
      <4> HIDE DEF x, y
      <4>2. x \in ptr .. end
        BY <1>1, <4>1, Sizes, SMT
      <4> QED  BY <4>2 DEF x
    <3> QED  BY <3>3
  <2>6. ASSUME m < e PROVE (m + 1) * PAGE < WORD
    <3>1. (m + 1) * PAGE \in Nat /\ (m + 1) * PAGE <= e * PAGE
      BY <1>1, <2>6, Sizes, SMT
    <3> DEFINE x == (m + 1) * PAGE
               y == e * PAGE
    <3>2. x \in Nat /\ y \in Nat /\ x <= y /\ end = y + (end % PAGE)
      BY <1>1, <2>1, <3>1
    <3> HIDE DEF x, y
    <3>3. x < WORD
      BY <1>1, <3>2, Sizes, SMT
    <3> QED  BY <3>3 DEF x
  <2> QED  BY <2>3, <2>4, <2>5, <2>6
<1>3. s <= e
  <2>1. ~ s * PAGE >= e * PAGE + PAGE
    <3> DEFINE x == s * PAGE
               y == e * PAGE
    <3>1. x \in Nat /\ y \in Nat /\ ptr = x + (ptr % PAGE) /\ end = y + (end % PAGE)
      BY <1>1, Sizes, SMT
    <3> HIDE DEF x, y
    <3>2. ~ x >= y + PAGE
      BY <1>1, <3>1, Sizes, SMT
    <3> QED  BY <3>2 DEF x, y
  <2>2. e < s => e * PAGE < s * PAGE
    BY <1>1, Sizes, SMT
  <2>3. e < s => e * PAGE + PAGE <= s * PAGE
    BY <1>1, <2>2, Apart, Sizes
  <2>4. e * PAGE \in Nat /\ s * PAGE \in Nat
    BY <1>1, Sizes, SMT
  <2>5. ~ e < s
    <3> DEFINE x == s * PAGE
               y == e * PAGE
    <3>1. x \in Nat /\ y \in Nat /\ ~ x >= y + PAGE /\ (e < s => y + PAGE <= x)
      BY <2>1, <2>3, <2>4
    <3> HIDE DEF x, y
    <3> QED  BY <3>1, Sizes, SMT
  <2> QED  BY <1>1, <2>5, SMT
<1> QED  BY <1>1, <1>2, <1>3 DEF e, s

\* Counting down from e to s.
LEMMA CountDown ==
    ASSUME NEW e \in Nat, NEW s \in Nat, NEW d \in Nat, d <= e - s
    PROVE  /\ e - d \in Nat /\ s <= e - d /\ e - d <= e
           /\ d = 0 => e - d = e
BY SMT

\* One step of it.
LEMMA CountOne ==
    ASSUME NEW e \in Nat, NEW s \in Nat, NEW d \in Nat, d <= e - s, d # 0
    PROVE  d - 1 \in Nat /\ d - 1 <= e - s /\ d - 1 < d /\ e - (d - 1) = (e - d) + 1
BY SMT

\* What address_space_user_pages_ok computes for page m, when the pages in V are
\* present and f has the results for the pages behind it.
WalkStep(V, end, f) ==
    [m \in 0 .. WORD \div PAGE - 1 |->
        /\ m * PAGE \in V
        /\ m = end \div PAGE \/ ((m + 1) * PAGE < WORD /\ f[m + 1])]

\* The walk of address_space_user_pages_ok finds every page in V when all
\* addresses of the range are.
LEMMA WalkPasses ==
    ASSUME NEW V \in SUBSET Nat, \A a \in V : page_down(a) \in V,
           NEW ptr \in Nat, NEW end \in Nat, ptr <= end, end < WORD,
           \A a \in ptr .. end : a \in V,
           NEW f, f = WalkStep(V, end, f)
    PROVE  f[ptr \div PAGE]
<1> DEFINE e == end \div PAGE
           s == ptr \div PAGE
<1>1. /\ e \in Nat /\ s \in Nat /\ s <= e
      /\ \A m \in Nat : s <= m /\ m <= e =>
            /\ m \in 0 .. WORD \div PAGE - 1 /\ m * PAGE \in V
            /\ m < e => (m + 1) * PAGE < WORD
  BY WalkPages
<1> HIDE DEF e, s
<1>2. /\ e - s \in Nat /\ e - s <= e - s /\ e - (e - s) = s
      /\ \A m \in Nat : m <= e => m = e \/ m < e
  <2>1. ASSUME NEW p \in Nat, NEW q \in Nat, q <= p
        PROVE  p - q \in Nat /\ p - q <= p - q /\ p - (p - q) = q
    BY <2>1, SMT
  <2>2. ASSUME NEW p \in Nat, NEW q \in Nat, q <= p
        PROVE  q = p \/ q < p
    BY <2>2, SMT
  <2> QED  BY <1>1, <2>1, <2>2
<1>3. ASSUME NEW m \in Nat, s <= m, m <= e, m = e \/ f[m + 1]
      PROVE  f[m]
  <2>1. m \in 0 .. WORD \div PAGE - 1 /\ m * PAGE \in V
        /\ (m = e \/ ((m + 1) * PAGE < WORD /\ f[m + 1]))
    BY <1>1, <1>2, <1>3
  <2>2. f[m] = /\ m * PAGE \in V
               /\ m = e \/ ((m + 1) * PAGE < WORD /\ f[m + 1])
    BY <2>1 DEF e, WalkStep
  <2> QED  BY <2>1, <2>2
<1> DEFINE Bad == {d \in Nat : d <= e - s /\ ~f[e - d]}
<1>4. Bad = {}
  <2> SUFFICES ASSUME Bad # {} PROVE FALSE
    OBVIOUS
  <2> DEFINE R == OpToRel(<, Nat)
  <2>1. \A x, y \in Nat : <<x, y>> \in R <=> x < y
    BY DEF OpToRel
  <2>2. IsWellFoundedOn(R, Nat)
    BY NatLessThanWellFounded
  <2>3. Bad \subseteq Nat
    OBVIOUS
  <2> HIDE DEF R
  <2>4. PICK d \in Bad : \A y \in Bad : ~(<<y, d>> \in R)
    BY <2>2, <2>3, WFMin
  <2>5. d \in Nat /\ d <= e - s /\ ~f[e - d]
    OBVIOUS
  <2>6. e - d \in Nat /\ s <= e - d /\ e - d <= e
    BY <1>1, <2>5, CountDown
  <2>7. e - d = e \/ f[(e - d) + 1]
    <3>1. CASE d = 0
      BY <1>1, <2>5, <3>1, CountDown
    <3>2. CASE d # 0
      <4>1. d - 1 \in Nat /\ d - 1 <= e - s /\ d - 1 < d /\ e - (d - 1) = (e - d) + 1
        BY <1>1, <2>5, <3>2, CountOne
      <4>2. d - 1 \notin Bad
        <5>1. <<d - 1, d>> \in R
          BY <2>1, <2>5, <4>1
        <5> QED  BY <2>4, <5>1
      <4>3. f[e - (d - 1)]
        BY <4>1, <4>2
      <4> QED  BY <4>1, <4>3
    <3> QED  BY <3>1, <3>2
  <2> QED  BY <1>3, <2>5, <2>6, <2>7
<1>5. f[e - (e - s)]
  BY <1>2, <1>4
<1> QED  BY <1>2, <1>5 DEF s

\* The walk is well defined: a solution is whether all pages up to the last
\* are in V.
LEMMA WalkExists ==
    ASSUME NEW V, NEW end \in Nat, end < WORD
    PROVE  \E f : f = WalkStep(V, end, f)
<1> DEFINE e == end \div PAGE
<1>0. e \in Nat /\ e < WORD \div PAGE
  BY PageNumbers
<1> HIDE DEF e
<1> DEFINE q == WORD \div PAGE
           All(m) == m <= e /\ \A j \in m .. e : j * PAGE \in V
           F == [m \in 0 .. q - 1 |-> All(m)]
<1>1. q \in Nat /\ WORD = q * PAGE
  <2>1. WORD % PAGE = 0 /\ WORD \in Nat
    BY ElfAssumption, Sizes
  <2>2. q \in Nat /\ WORD = q * PAGE + (WORD % PAGE)
    BY <2>1, Division, Sizes
  <2> HIDE DEF q
  <2>3. q * PAGE \in Nat
    BY <2>2, Sizes, SMT
  <2> QED  BY <2>1, <2>2, <2>3, SMT
<1>2. e < q /\ e \in Nat
  BY <1>0
<1> HIDE DEF q
<1>3. ASSUME NEW m \in 0 .. q - 1
      PROVE  All(m) <=> /\ m * PAGE \in V
                        /\ m = e \/ ((m + 1) * PAGE < WORD /\ F[m + 1])
  <2>1. m \in Nat /\ m < q
    BY <1>1, SMT
  <2>2. (m + 1) * PAGE < WORD <=> m + 1 < q
    <3>1. m + 1 \in Nat
      BY <1>2, <2>1, SMT
    <3>2. (m + 1) * PAGE < q * PAGE <=> m + 1 < q
      <4> DEFINE k == m + 1
      <4> HIDE DEF k
      <4>1. k \in Nat
        BY <3>1 DEF k
      <4>2. k * PAGE < q * PAGE <=> k < q
        BY <1>1, <4>1, Sizes, SMT
      <4> QED  BY <4>2 DEF k
    <3> QED  BY <1>1, <3>2
  <2>3. CASE m < e
    <3>1. m + 1 < q /\ m + 1 \in 0 .. q - 1 /\ m + 1 <= e /\ m <= e /\ m # e
          /\ m \in m .. e
      BY <1>1, <1>2, <2>1, <2>3, SMT
    <3>2. \A j \in m .. e : j = m \/ j \in m + 1 .. e
      BY <1>2, <2>1, SMT
    <3>3. \A j \in m + 1 .. e : j \in m .. e
      BY <1>2, <2>1, SMT
    <3>4. F[m + 1] <=> All(m + 1)
      BY <3>1
    <3>5. All(m) <=> m * PAGE \in V /\ All(m + 1)
      BY <3>1, <3>2, <3>3
    <3> HIDE DEF All, F
    <3> QED  BY <2>2, <3>1, <3>4, <3>5
  <2>4. CASE m = e
    <3>1. m <= e /\ m \in m .. e /\ \A j \in m .. e : j = m
      BY <1>2, <2>1, <2>4, SMT
    <3> QED  BY <2>4, <3>1
  <2>5. CASE m > e
    <3>1. ~ m <= e /\ ~ m + 1 <= e /\ m # e
      BY <1>2, <2>1, <2>5, SMT
    <3>2. m + 1 < q => m + 1 \in 0 .. q - 1
      BY <1>1, <2>1, SMT
    <3>3. m + 1 < q => ~F[m + 1]
      BY <3>1, <3>2
    <3>4. ~All(m)
      BY <3>1
    <3> HIDE DEF All, F
    <3> QED  BY <2>2, <3>1, <3>3, <3>4
  <2>6. m < e \/ m = e \/ m > e
    BY <1>2, <2>1, SMT
  <2> QED  BY <2>3, <2>4, <2>5, <2>6
<1>4. F = [m \in 0 .. q - 1 |-> /\ m * PAGE \in V
                                /\ m = e \/ ((m + 1) * PAGE < WORD /\ F[m + 1])]
  <2> DEFINE G(m) == /\ m * PAGE \in V
                     /\ m = e \/ ((m + 1) * PAGE < WORD /\ F[m + 1])
  <2>1. \A m \in 0 .. q - 1 : All(m) = G(m)
    BY <1>3
  <2> HIDE DEF All, G
  <2>2. [m \in 0 .. q - 1 |-> All(m)] = [m \in 0 .. q - 1 |-> G(m)]
    BY <2>1
  <2> QED  BY <2>2 DEF G
<1> HIDE DEF F
<1>5. F = WalkStep(V, end, F)
  BY <1>4 DEF WalkStep, e, q
<1> QED  BY <1>5

-----------------------------------------------------------------------------
(* The invariant of the loaders *)

TableOK == headers \in Seq(Header)

\* Segment k has been mapped, and its page v with it.
Done(k, v) == k < i \/ (k = i /\ pc = "page" /\ v < va)

\* A page holds the bytes of the last segment that has been mapped there.
Linked ==
    \A k \in Loads : \A a \in Addresses(headers[k]) :
        Done(k, page_down(a)) =>
            /\ page_down(a) \in DOMAIN pages
            /\ (\A m \in Loads : m > k /\ page_down(a) \in PagesOf(headers[m])
                                    => ~Done(m, page_down(a)))
               => pages[page_down(a)][a % PAGE] = ByteAt(headers[k], a)

\* Nothing is mapped before the headers have been checked, and then segments
\* that have been found good, one after the other and page by page.
Mapping ==
    /\ pc \in {"headers", "image"} => DOMAIN pages = {} /\ i = 1
    /\ pc \in {"segment", "page"} =>
          /\ \A k \in Loads : HeaderOk(headers[k])
          /\ \A k \in Loads : k < i => RangeOk(headers[k])
          /\ Linked
    /\ pc = "page" => /\ i \in Loads /\ RangeOk(headers[i]) /\ IsPage(va)
                      /\ page_down(headers[i].vaddr) <= va /\ va <= EndPage(headers[i])

ElfInv == TableOK /\ Mapping /\ LoadedAsLinked /\ NothingElse /\ StackApart

\* The headers that are looked at are headers.
LEMMA Segment ==
    ASSUME TableOK, NEW k \in Loads
    PROVE  k \in Nat /\ 1 <= k /\ k <= Len(headers) /\ headers[k] \in Header
<1>1. k \in DOMAIN headers
  BY DEF Loads
<1>2. DOMAIN headers = 1 .. Len(headers) /\ Len(headers) \in Nat
  BY SMT DEF TableOK
<1>3. headers[k] \in Header
  BY <1>1, <1>2, SMT DEF TableOK
<1> QED  BY <1>1, <1>2, <1>3, SMT

\* The invariant holds before the loader starts.
LEMMA ElfInit ==
    ASSUME TableOK, Init
    PROVE  ElfInv
<1>1. /\ i = 1 /\ va = 0 /\ pages = [v \in {} |-> <<>>] /\ frames = 0 /\ regions = 0
      /\ pc = "headers"
  BY DEF Init
<1>2. DOMAIN pages = {}
  BY <1>1
<1>3. TypeOK
  <2>1. Len(headers) \in Nat
    BY SMT DEF TableOK
  <2>2. 1 \in 1 .. Len(headers) + 1 /\ 0 \in 0 .. WORD - 1 /\ 0 \in 0 .. MAX_FRAMES
        /\ 0 \in 0 .. MAX_REGIONS
    BY <2>1, Sizes, SMT
  <2> QED  BY <1>1, <2>2 DEF TypeOK
<1>4. Mapping /\ LoadedAsLinked /\ NothingElse /\ StackApart
  BY <1>1, <1>2, <1>3 DEF Mapping, LoadedAsLinked, NothingElse, StackApart
<1> QED  BY <1>4 DEF ElfInv

\* Steps that have nothing to do with the loader.
LEMMA ElfSame ==
    ASSUME ElfInv, UNCHANGED vars
    PROVE  ElfInv'
<1>1. UNCHANGED <<headers, e_entry, i, va, pages, frames, regions, pc>>
  BY DEF vars
<1>2. TableOK' /\ Loads' = Loads
  BY <1>1 DEF ElfInv, TableOK, Loads
<1>3. Mapping'
  <2>1. Linked' <=> Linked
    BY <1>1, <1>2 DEF Linked, Done
  <2> QED  BY <1>1, <1>2, <2>1 DEF ElfInv, Mapping
<1>4. LoadedAsLinked' /\ NothingElse'
  BY <1>1, <1>2 DEF ElfInv, LoadedAsLinked, NothingElse
<1>5. StackApart'
  BY <1>1 DEF ElfInv, StackApart, TypeOK
<1> QED  BY <1>1, <1>2, <1>3, <1>4, <1>5 DEF ElfInv

\* The loader gives up.
LEMMA FailStep ==
    ASSUME ElfInv, pc' = "failed", UNCHANGED <<headers, i, va, pages, frames, regions>>
    PROVE  ElfInv'
<1>1. TableOK' /\ Loads' = Loads
  BY DEF ElfInv, TableOK, Loads
<1>2. Mapping' /\ LoadedAsLinked'
  BY DEF Mapping, LoadedAsLinked
<1>3. NothingElse'
  BY <1>1 DEF ElfInv, NothingElse
<1>4. StackApart'
  BY DEF ElfInv, StackApart, TypeOK
<1> QED  BY <1>1, <1>2, <1>3, <1>4 DEF ElfInv

\* The headers have been checked: user_binary_header_ok, or
\* elf32_program_headers_ok and elf_entry_in_executable_segment.
LEMMA HeadersStep ==
    ASSUME ElfInv, pc = "headers", UNCHANGED <<headers, i, va, pages, frames, regions>>,
           \/ pc' = "segment" /\ \A k \in Loads : HeaderOk(headers[k])
           \/ pc' = "image"
    PROVE  ElfInv'
<1>1. TableOK' /\ Loads' = Loads /\ TableOK
  BY DEF ElfInv, TableOK, Loads
<1>2. DOMAIN pages = {} /\ i = 1
  BY DEF ElfInv, Mapping
<1>3. \A k \in Loads : ~ k < 1
  BY <1>1, Segment, SMT
<1>4. Mapping'
  <2>1. pc' # "page" /\ pc' # "headers"
    OBVIOUS
  <2>2. \A k \in Loads : \A v : ~Done(k, v)'
    BY <1>2, <1>3, <2>1 DEF Done
  <2>3. Linked'
    BY <1>1, <2>2 DEF Linked
  <2>4. \A k \in Loads' : k < i' => RangeOk(headers'[k])
    BY <1>1, <1>2, <1>3
  <2> QED  BY <1>1, <1>2, <2>1, <2>3, <2>4 DEF Mapping
<1>5. LoadedAsLinked'
  BY DEF LoadedAsLinked
<1>6. NothingElse'
  BY <1>1 DEF ElfInv, NothingElse
<1>7. StackApart'
  BY DEF ElfInv, StackApart, TypeOK
<1> QED  BY <1>1, <1>4, <1>5, <1>6, <1>7 DEF ElfInv

\* A header that is not for loading is passed over, or its segment begun.
LEMMA NextSegmentStep ==
    ASSUME ElfInv, NextSegment
    PROVE  ElfInv'
<1>1. /\ pc = "segment" /\ i <= Len(headers)
      /\ UNCHANGED <<headers, e_entry, pages, frames, regions>>
  BY DEF NextSegment, file
<1>2. TableOK' /\ Loads' = Loads /\ TableOK
  BY <1>1 DEF ElfInv, TableOK, Loads
<1>3. /\ \A k \in Loads : HeaderOk(headers[k])
      /\ \A k \in Loads : k < i => RangeOk(headers[k])
      /\ Linked
  BY <1>1 DEF ElfInv, Mapping
<1>4. NothingElse' /\ (STACK_TOP - PAGE) \notin DOMAIN pages' /\ TypeOK
  BY <1>1, <1>2 DEF ElfInv, NothingElse, StackApart
<1>5. i \in Nat /\ Len(headers) \in Nat /\ 1 <= i
  BY <1>2, <1>4, SMT DEF TableOK, TypeOK
<1>6. i \in DOMAIN headers
  BY <1>1, <1>2, <1>5, SMT DEF TableOK
<1>7. CASE ~headers[i].load
  <2>1. i' = i + 1 /\ va' = va /\ pc' = pc
    BY <1>7 DEF NextSegment
  <2>2. i \notin Loads
    BY <1>7 DEF Loads
  <2>3. \A k \in Loads : k < i' <=> k < i
    BY <1>2, <1>5, <2>1, <2>2, Segment, SMT
  <2>4. \A k \in Loads : \A v : Done(k, v)' <=> Done(k, v)
    BY <1>1, <2>1, <2>3 DEF Done
  <2>5. Linked'
    BY <1>1, <1>2, <1>3, <2>4 DEF Linked
  <2>6. Mapping'
    BY <1>1, <1>2, <1>3, <2>1, <2>3, <2>5 DEF Mapping
  <2>7. TypeOK'
    <3>1. i' \in 1 .. Len(headers') + 1
      BY <1>1, <1>5, <2>1, SMT
    <3> QED  BY <1>1, <1>4, <2>1, <3>1 DEF TypeOK
  <2> QED  BY <1>1, <1>2, <1>4, <2>1, <2>6, <2>7 DEF ElfInv, LoadedAsLinked, StackApart
<1>8. CASE headers[i].load /\ ~RangeOk(headers[i])
  BY <1>1, <1>8, FailStep DEF NextSegment
<1>9. CASE headers[i].load /\ RangeOk(headers[i])
  <2> DEFINE p == headers[i]
  <2>1. i' = i /\ pc' = "page" /\ va' = page_down(p.vaddr)
    BY <1>9 DEF NextSegment
  <2>2. i \in Loads /\ p \in Header /\ HeaderOk(p)
    BY <1>2, <1>3, <1>6, <1>9, Segment DEF Loads
  <2> HIDE DEF p
  <2>3. p.vaddr \in Nat /\ p.vaddr < WORD
    BY <2>2, Fields, Sizes, SMT DEF Words32
  <2>4. IsPage(va') /\ va' <= p.vaddr
    BY <2>1, <2>3, PageOf
  <2>5. va' \in Nat
    BY <2>4 DEF IsPage
  <2>6. va' <= EndPage(p) /\ va' \in 0 .. WORD - 1
    <3>1. End(p) <= EndPage(p) /\ IsPage(EndPage(p))
      BY <1>9, <2>2, SegmentEnds DEF p
    <3>2. p.memsz \in Nat /\ EndPage(p) \in Nat
      BY <2>2, <3>1, Fields, Sizes, SMT DEF Words32, IsPage
    <3> QED  BY <2>3, <2>4, <2>5, <3>1, <3>2, Sizes, SMT DEF End
  <2>7. ASSUME NEW k \in Loads, NEW a \in Addresses(headers[k])
        PROVE  Done(k, page_down(a))' <=> Done(k, page_down(a))
    <3>1. CASE k = i
      <4>1. a \in Addresses(p)
        BY <3>1 DEF p
      <4>2. page_down(p.vaddr) <= page_down(a) /\ a \in Nat
        BY <1>9, <2>2, <4>1, SegmentPages DEF p
      <4>3. page_down(a) \in Nat
        BY <4>2, PageOf DEF IsPage
      <4>4. ~ page_down(a) < va'
        BY <2>1, <2>5, <4>2, <4>3, SMT
      <4>5. ~ i < i
        BY <1>5, SMT
      <4> QED  BY <1>1, <2>1, <3>1, <4>4, <4>5 DEF Done
    <3>2. CASE k # i
      BY <1>1, <2>1, <3>2 DEF Done
    <3> QED  BY <3>1, <3>2
  <2>8. Linked'
    <3>1. \A k \in Loads, m \in Loads : \A a \in Addresses(headers[k]) :
             page_down(a) \in PagesOf(headers[m]) =>
                (Done(m, page_down(a))' <=> Done(m, page_down(a)))
      BY <2>7 DEF PagesOf
    <3> QED  BY <1>1, <1>2, <1>3, <2>7, <3>1 DEF Linked
  <2>9. Mapping'
    BY <1>1, <1>2, <1>3, <1>9, <2>1, <2>2, <2>4, <2>5, <2>6, <2>8, Sizes, SMT DEF Mapping, p
  <2>10. TypeOK'
    BY <1>1, <1>4, <2>1, <2>6 DEF TypeOK
  <2> QED  BY <1>1, <1>2, <1>4, <2>1, <2>9, <2>10 DEF ElfInv, LoadedAsLinked, StackApart
<1> QED  BY <1>7, <1>8, <1>9

\* elf_map_segment maps one page: it now holds what this segment owes it, and
\* the other pages hold what they held.
LEMMA MapPageStep ==
    ASSUME ElfInv, pc = "page", UNCHANGED <<headers, i, regions, pc>>,
           va < EndPage(headers[i]), ~TooMany, frames' = frames + 1, va' = Add(va, PAGE),
           pages' = [v \in DOMAIN pages \cup {va} |->
                        IF v = va THEN elf_fill_page_frame(va, headers[i]).bytes ELSE pages[v]]
    PROVE  ElfInv'
<1> DEFINE p == headers[i]
           first == page_down(p.vaddr)
<1>1. TableOK' /\ Loads' = Loads /\ TableOK
  BY DEF ElfInv, TableOK, Loads
<1>2. /\ \A k \in Loads : HeaderOk(headers[k])
      /\ \A k \in Loads : k < i => RangeOk(headers[k])
      /\ Linked
      /\ i \in Loads /\ RangeOk(p) /\ IsPage(va) /\ first <= va
  BY DEF ElfInv, Mapping
<1>3. p \in Header /\ HeaderOk(p) /\ i \in Nat
  BY <1>1, <1>2, Segment
<1>4. IsPage(EndPage(p)) /\ EndPage(p) + PAGE <= WORD
  BY <1>2, <1>3, SegmentEnds
<1>5. va \in Nat /\ EndPage(p) \in Nat
  BY <1>2, <1>4 DEF IsPage
<1>6. va + PAGE <= EndPage(p)
  BY <1>2, <1>4, PagesApart
<1>7. va' = va + PAGE /\ va' \in 0 .. WORD - 1
  <2>1. va \in 0 .. WORD - 1 /\ PAGE \in 0 .. WORD - 1 /\ va + PAGE < WORD
    BY <1>4, <1>5, <1>6, Sizes, SMT
  <2>2. Add(va, PAGE) = va + PAGE
    BY <2>1, WordSum
  <2> QED  BY <1>5, <2>1, <2>2, Sizes, SMT
<1>8. IsPage(va')
  <2>1. 1 * PAGE = PAGE /\ 1 \in Nat
    BY Sizes, SMT
  <2>2. IsPage(va + 1 * PAGE)
    BY <1>2, <2>1, PageAt
  <2> QED  BY <1>7, <2>1, <2>2
<1>9. va \in PagesOf(p) /\ va # STACK_TOP - PAGE
  BY <1>2, <1>3, SegmentPages
<1>10. /\ DOMAIN pages' = DOMAIN pages \cup {va}
       /\ pages'[va] = elf_fill_page_frame(va, p).bytes
       /\ \A v \in DOMAIN pages : v # va => pages'[v] = pages[v]
  OBVIOUS
<1>11. ASSUME NEW b \in 0 .. PAGE - 1
       PROVE  /\ va + b \in Addresses(p) => pages'[va][b] = ByteAt(p, va + b)
              /\ pages'[va][b] # 0 => /\ va + b \in Addresses(p)
                                      /\ pages'[va][b] = ByteAt(p, va + b) /\ pages'[va][b] <= LEN
  BY <1>2, <1>3, <1>10, Filled
<1> HIDE DEF p, first
<1>12. NothingElse'
  <2> SUFFICES ASSUME NEW v \in DOMAIN pages', NEW b \in 0 .. PAGE - 1, pages'[v][b] # 0
               PROVE  /\ pages'[v][b] <= LEN
                      /\ \E k \in Loads : /\ v + b \in Addresses(headers[k])
                                          /\ pages'[v][b] = ByteAt(headers[k], v + b)
    BY <1>1 DEF NothingElse
  <2>1. CASE v = va
    BY <1>2, <1>11, <2>1 DEF p
  <2>2. CASE v # va
    <3>1. v \in DOMAIN pages /\ pages'[v] = pages[v]
      BY <1>10, <2>2
    <3> QED  BY <3>1 DEF ElfInv, NothingElse
  <2> QED  BY <2>1, <2>2
<1>13. ASSUME NEW k \in Loads, NEW v, IsPage(v)
       PROVE  /\ Done(k, v) => Done(k, v)'
              /\ Done(k, v)' /\ v # va => Done(k, v)
              /\ v = va => (Done(k, v)' <=> k < i \/ k = i)
  <2>1. v \in Nat
    BY <1>13 DEF IsPage
  <2>2. va < va' /\ (v < va => v < va')
    BY <1>5, <1>7, <2>1, Sizes, SMT
  <2>3. v # va /\ v < va' => v < va
    <3>1. va < v => va + PAGE <= v
      BY <1>2, <1>13, PagesApart
    <3> QED  BY <1>5, <1>7, <2>1, <3>1, Sizes, SMT
  <2> QED  BY <2>2, <2>3 DEF Done
<1>14. Linked'
  <2> SUFFICES ASSUME NEW k \in Loads, NEW a \in Addresses(headers[k]),
                      Done(k, page_down(a))'
               PROVE  /\ page_down(a) \in DOMAIN pages'
                      /\ (\A m \in Loads : m > k /\ page_down(a) \in PagesOf(headers[m])
                                              => ~Done(m, page_down(a))')
                         => pages'[page_down(a)][a % PAGE] = ByteAt(headers[k], a)
    BY <1>1 DEF Linked
  <2> DEFINE v == page_down(a)
  <2>1. k \in Nat /\ headers[k] \in Header
    BY <1>1, Segment
  <2>2. a \in Nat
    BY <2>1, Fields, Sizes, SMT DEF Addresses, Words32
  <2>3. IsPage(v) /\ v <= a /\ a < v + PAGE /\ a % PAGE = a - v
    BY <2>2, PageOf
  <2> HIDE DEF v
  <2>4. v \in Nat
    BY <2>3 DEF IsPage
  <2>5. CASE v = va
    <3>1. k < i \/ k = i
      BY <1>13, <2>3, <2>5 DEF v
    <3>2. CASE k < i
      <4>1. i > k /\ v \in PagesOf(headers[i]) /\ Done(i, v)' /\ i \in Loads
        <5>1. i > k
          BY <1>3, <2>1, <3>2, SMT
        <5> QED  BY <1>2, <1>9, <1>13, <2>3, <2>5, <5>1 DEF p
      <4> QED  BY <1>10, <2>5, <4>1 DEF v
    <3>3. CASE k = i
      <4>1. a - va \in 0 .. PAGE - 1 /\ va + (a - va) = a
        BY <1>5, <2>2, <2>3, <2>4, <2>5, Sizes, SMT
      <4>2. pages'[va][a - va] = ByteAt(p, a)
        BY <1>11, <3>3, <4>1 DEF p
      <4> QED  BY <1>10, <2>3, <2>5, <3>3, <4>2 DEF v, p
    <3> QED  BY <3>1, <3>2, <3>3
  <2>6. CASE v # va
    <3>1. Done(k, v)
      BY <1>13, <2>3, <2>6 DEF v
    <3>2. v \in DOMAIN pages /\ pages'[v] = pages[v]
      BY <1>2, <1>10, <2>6, <3>1 DEF Linked, v
    <3>3. ASSUME \A m \in Loads : m > k /\ v \in PagesOf(headers[m]) => ~Done(m, v)'
          PROVE  pages[v][a % PAGE] = ByteAt(headers[k], a)
      BY <1>2, <1>13, <2>3, <3>1, <3>3 DEF Linked, v
    <3> QED  BY <1>10, <3>2, <3>3 DEF v
  <2> QED  BY <2>5, <2>6
<1>15. Mapping'
  <2>1. first <= va'
    <3>1. IsPage(first)
      BY <1>3, Fields, PageOf, Sizes, SMT DEF first, Words32
    <3>2. first \in Nat
      BY <3>1 DEF IsPage
    <3> QED  BY <1>2, <1>5, <1>7, <3>2, Sizes, SMT
  <2> QED  BY <1>1, <1>2, <1>6, <1>7, <1>8, <1>14, <2>1 DEF Mapping, p, first
<1>16. StackApart'
  <2>1. TypeOK /\ (STACK_TOP - PAGE) \notin DOMAIN pages
    BY DEF ElfInv, StackApart
  <2>2. frames' \in 0 .. MAX_FRAMES
    BY <2>1, Sizes, SMT DEF TypeOK, TooMany
  <2>3. TypeOK'
    BY <1>7, <2>1, <2>2 DEF TypeOK
  <2> QED  BY <1>9, <1>10, <2>1, <2>3 DEF StackApart
<1>17. LoadedAsLinked'
  BY DEF LoadedAsLinked
<1> QED  BY <1>1, <1>12, <1>14, <1>15, <1>16, <1>17 DEF ElfInv

\* The segment is complete.
LEMMA EndSegmentStep ==
    ASSUME ElfInv, EndSegment
    PROVE  ElfInv'
<1> DEFINE p == headers[i]
<1>1. /\ pc = "page" /\ va >= EndPage(p)
      /\ UNCHANGED <<headers, e_entry, va, pages, frames>>
  BY DEF EndSegment, file
<1>2. TableOK' /\ Loads' = Loads /\ TableOK
  BY <1>1 DEF ElfInv, TableOK, Loads
<1>3. /\ \A k \in Loads : HeaderOk(headers[k])
      /\ \A k \in Loads : k < i => RangeOk(headers[k])
      /\ Linked
      /\ i \in Loads /\ RangeOk(p) /\ IsPage(va)
  BY <1>1 DEF ElfInv, Mapping
<1>4. p \in Header /\ HeaderOk(p) /\ i \in Nat /\ 1 <= i /\ i <= Len(headers)
  BY <1>2, <1>3, Segment
<1>5. CASE regions >= MAX_REGIONS
  BY <1>1, <1>5, FailStep DEF EndSegment
<1>6. CASE ~ regions >= MAX_REGIONS
  <2>1. pc' = "segment" /\ i' = i + 1 /\ regions' = regions + 1
    BY <1>6 DEF EndSegment
  <2>2. \A k \in Loads : k < i' <=> k < i \/ k = i
    BY <1>2, <1>4, <2>1, Segment, SMT
  <2>3. ASSUME NEW k \in Loads, NEW a \in Addresses(headers[k])
        PROVE  Done(k, page_down(a))' <=> Done(k, page_down(a))
    <3>1. CASE k = i
      <4>1. page_down(a) < EndPage(p) /\ a \in Nat
        BY <1>3, <1>4, <3>1, SegmentPages
      <4>2. page_down(a) \in Nat /\ EndPage(p) \in Nat /\ va \in Nat
        BY <1>3, <1>4, <4>1, PageOf, SegmentEnds DEF IsPage
      <4> HIDE DEF p
      <4>3. page_down(a) < va
        BY <1>1, <4>1, <4>2, SMT
      <4> QED  BY <1>1, <2>1, <2>2, <3>1, <4>3 DEF Done
    <3>2. CASE k # i
      BY <1>1, <2>1, <2>2, <3>2 DEF Done
    <3> QED  BY <3>1, <3>2
  <2>4. Linked'
    <3>1. \A k \in Loads, m \in Loads : \A a \in Addresses(headers[k]) :
             page_down(a) \in PagesOf(headers[m]) =>
                (Done(m, page_down(a))' <=> Done(m, page_down(a)))
      BY <2>3 DEF PagesOf
    <3> QED  BY <1>1, <1>2, <1>3, <2>3, <3>1 DEF Linked
  <2>5. Mapping'
    BY <1>1, <1>2, <1>3, <2>1, <2>2, <2>4 DEF Mapping
  <2>6. StackApart'
    <3>1. TypeOK /\ (STACK_TOP - PAGE) \notin DOMAIN pages
      BY DEF ElfInv, StackApart
    <3>2. regions' \in 0 .. MAX_REGIONS
      BY <1>6, <2>1, <3>1, Sizes, SMT DEF TypeOK
    <3>3. Len(headers) \in Nat
      BY <1>2, SMT DEF TableOK
    <3>4. i' \in 1 .. Len(headers') + 1
      BY <1>1, <1>4, <2>1, <3>3, SMT
    <3> QED  BY <1>1, <2>1, <3>1, <3>2, <3>4 DEF StackApart, TypeOK
  <2>7. NothingElse' /\ LoadedAsLinked'
    BY <1>1, <1>2, <2>1 DEF ElfInv, NothingElse, LoadedAsLinked
  <2> QED  BY <1>2, <2>1, <2>5, <2>6, <2>7 DEF ElfInv
<1> QED  BY <1>5, <1>6

\* All segments are mapped: the program is loaded.
LEMMA FinishStep ==
    ASSUME ElfInv, Finish
    PROVE  ElfInv'
<1>1. /\ pc = "segment" /\ i > Len(headers)
      /\ UNCHANGED <<headers, e_entry, i, va, pages, frames>>
  BY DEF Finish, file
<1>2. TableOK' /\ Loads' = Loads /\ TableOK
  BY <1>1 DEF ElfInv, TableOK, Loads
<1>3. /\ \A k \in Loads : HeaderOk(headers[k])
      /\ \A k \in Loads : k < i => RangeOk(headers[k])
      /\ Linked
  BY <1>1 DEF ElfInv, Mapping
<1>4. TypeOK /\ (STACK_TOP - PAGE) \notin DOMAIN pages /\ NothingElse
  BY DEF ElfInv, StackApart
<1>5. Len(headers) \in Nat /\ i \in Nat
  BY <1>2, <1>4, SMT DEF TableOK, TypeOK
<1>6. CASE regions = 0 \/ regions >= MAX_REGIONS
  BY <1>1, <1>6, FailStep DEF Finish
<1>7. CASE ~(regions = 0 \/ regions >= MAX_REGIONS)
  <2>1. pc' = "loaded" /\ regions' = regions + 1
    BY <1>7 DEF Finish
  <2>2. ASSUME NEW k \in Loads PROVE k < i /\ headers[k] \in Header
    BY <1>1, <1>2, <1>5, Segment, SMT
  <2>3. LoadedAsLinked'
    <3> SUFFICES ASSUME NEW k \in Loads, NEW a \in Addresses(headers[k])
                 PROVE  /\ a < WORD /\ page_down(a) \in DOMAIN pages
                        /\ (\A m \in Loads : m > k => page_down(a) \notin PagesOf(headers[m])) =>
                              pages[page_down(a)][a % PAGE] = ByteAt(headers[k], a)
      BY <1>1, <1>2 DEF LoadedAsLinked
    <3>1. a < WORD
      BY <1>3, <2>2, SegmentPages
    <3>2. Done(k, page_down(a))
      BY <2>2 DEF Done
    <3> QED  BY <1>3, <3>1, <3>2 DEF Linked
  <2>4. regions' \in 0 .. MAX_REGIONS
    BY <1>4, <1>7, <2>1, Sizes, SMT DEF TypeOK
  <2>5. StackApart'
    BY <1>1, <1>4, <2>1, <2>4 DEF StackApart, TypeOK
  <2>6. Mapping' /\ NothingElse'
    BY <1>1, <1>2, <1>4, <2>1 DEF Mapping, NothingElse
  <2> QED  BY <1>2, <2>1, <2>3, <2>5, <2>6 DEF ElfInv
<1> QED  BY <1>6, <1>7

\* The frames of a flat image at L hold it, and end below the stack, when there
\* are at most M of them.
LEMMA ImageEnds ==
    ASSUME NEW L, IsPage(L), NEW M \in Nat, L + M * PAGE <= STACK_TOP - PAGE,
           NEW F, F = (LEN + PAGE - 1) \div PAGE, F <= M
    PROVE  /\ F \in Nat /\ LEN <= F * PAGE
           /\ L + F * PAGE <= STACK_TOP - PAGE
<1> DEFINE x == LEN + PAGE - 1
<1>1. x \in Nat
  BY Sizes, SMT
<1>2. x = LEN + PAGE - 1
  OBVIOUS
<1> HIDE DEF x
<1>3. F \in Nat /\ x % PAGE \in 0 .. PAGE - 1 /\ x = F * PAGE + (x % PAGE)
  BY <1>1, <1>2, Division, Sizes
<1>4. F * PAGE <= M * PAGE /\ F * PAGE \in Nat /\ M * PAGE \in Nat
  <2>1. \A q \in Nat : q <= M => q * PAGE <= M * PAGE /\ q * PAGE \in Nat /\ M * PAGE \in Nat
    BY Sizes, SMT
  <2> QED  BY <1>3, <2>1
<1> DEFINE s == F * PAGE
           t == M * PAGE
<1>5. s \in Nat /\ t \in Nat /\ s <= t /\ x = s + (x % PAGE) /\ L + t <= STACK_TOP - PAGE
  BY <1>3, <1>4
<1> HIDE DEF s, t
<1>6. LEN <= s
  BY <1>2, <1>3, <1>5, Sizes, SMT
<1>7. L + s <= STACK_TOP - PAGE
  <2>1. L \in Nat
    BY DEF IsPage
  <2> QED  BY <1>5, <2>1, Sizes, SMT
<1> QED  BY <1>3, <1>6, <1>7 DEF s

\* The pages of F frames from L on.
LEMMA ImagePage ==
    ASSUME NEW L, IsPage(L), NEW F \in Nat, LEN <= F * PAGE, L + F * PAGE <= STACK_TOP - PAGE,
           NEW V, V = {L + k * PAGE : k \in 0 .. F - 1}
    PROVE  /\ \A v \in V : IsPage(v) /\ L <= v /\ v + PAGE <= STACK_TOP - PAGE
           /\ \A a \in L .. L + LEN - 1 : a \in Nat /\ a < WORD /\ page_down(a) \in V
<1>1. L \in Nat
  BY DEF IsPage
<1>2. ASSUME NEW k \in 0 .. F - 1
      PROVE  /\ k \in Nat /\ k * PAGE \in Nat /\ k * PAGE + PAGE <= F * PAGE /\ F * PAGE \in Nat
  <2>1. k \in Nat /\ k + 1 <= F
    BY SMT
  <2>2. k * PAGE \in Nat /\ F * PAGE \in Nat /\ (k + 1) * PAGE <= F * PAGE
    BY <2>1, Sizes, SMT
  <2>3. (k + 1) * PAGE = k * PAGE + PAGE
    BY <2>1, Sizes, SMT
  <2> QED  BY <2>1, <2>2, <2>3
<1>3. ASSUME NEW v \in V
      PROVE  IsPage(v) /\ L <= v /\ v + PAGE <= STACK_TOP - PAGE
  <2>1. PICK k \in 0 .. F - 1 : v = L + k * PAGE
    OBVIOUS
  <2>2. IsPage(v)
    BY <1>2, <2>1, PageAt
  <2> DEFINE s == k * PAGE
             t == F * PAGE
  <2>3. s \in Nat /\ t \in Nat /\ s + PAGE <= t /\ v = L + s /\ L + t <= STACK_TOP - PAGE
    BY <1>2, <2>1
  <2> HIDE DEF s, t
  <2>4. L <= v /\ v + PAGE <= STACK_TOP - PAGE
    BY <1>1, <2>3, Sizes, SMT
  <2> QED  BY <2>2, <2>4
<1>4. ASSUME NEW a \in L .. L + LEN - 1
      PROVE  a \in Nat /\ a < WORD /\ page_down(a) \in V
  <2> DEFINE s == F * PAGE
  <2>1. s \in Nat /\ LEN <= s /\ L + s <= STACK_TOP - PAGE
    <3>1. s \in Nat
      BY Sizes, SMT
    <3> QED  BY <3>1
  <2> HIDE DEF s
  <2>2. a \in Nat /\ a < WORD /\ a - L \in Nat /\ a - L < s
    BY <1>1, <2>1, Sizes, SMT
  <2> DEFINE d == a - L
             k == d \div PAGE
  <2>3. k \in Nat /\ d % PAGE \in 0 .. PAGE - 1 /\ d = k * PAGE + (d % PAGE)
    BY <2>2, Division, Sizes
  <2>4. a = L + d /\ d \in Nat /\ d < s
    BY <1>1, <2>2, SMT
  <2> HIDE DEF d, k
  <2>5. k < F
    <3>1. k * PAGE < F * PAGE
      <4> DEFINE t == k * PAGE
      <4>1. t \in Nat /\ d = t + (d % PAGE)
        BY <2>3, Sizes, SMT
      <4> HIDE DEF t
      <4>2. t < s
        BY <2>1, <2>3, <2>4, <4>1, Sizes, SMT
      <4> QED  BY <4>2 DEF s, t
    <3> QED  BY <2>3, <3>1, Sizes, SMT
  <2>6. k \in 0 .. F - 1
    BY <2>3, <2>5, SMT
  <2>7. IsPage(L + k * PAGE) /\ L + k * PAGE \in V
    BY <2>3, <2>6, PageAt
  <2> DEFINE v == L + k * PAGE
  <2>8. v \in Nat /\ v <= a /\ a < v + PAGE
    <3> DEFINE t == k * PAGE
    <3>1. t \in Nat /\ d = t + (d % PAGE) /\ v = L + t
      BY <2>3, Sizes, SMT
    <3> HIDE DEF t, v
    <3> QED  BY <1>1, <2>3, <2>4, <3>1, Sizes, SMT
  <2> HIDE DEF v
  <2>9. page_down(a) = v
    BY <2>2, <2>7, <2>8, InPage DEF v
  <2> QED  BY <2>2, <2>7, <2>9 DEF v
<1> QED  BY <1>3, <1>4

\* The flat loader: one segment of the length of the file, mapped at once.
LEMMA FlatStep ==
    ASSUME ElfInv, UNCHANGED <<headers, e_entry, i, va, frames>>,
           NEW L \in Nat, NEW V,
           \A v \in V : IsPage(v) /\ L <= v /\ v + PAGE <= STACK_TOP - PAGE,
           \A a \in L .. L + LEN - 1 : a \in Nat /\ a < WORD /\ page_down(a) \in V,
           Len(headers) = 1, headers[1].load, headers[1].offset = 0, headers[1].filesz = LEN,
           headers[1].vaddr = L, headers[1].memsz = LEN,
           pages' = [v \in V |-> [b \in 0 .. PAGE - 1 |->
                        LET off == v - L + b IN IF off < LEN THEN off + 1 ELSE 0]],
           2 <= MAX_REGIONS, regions' = 2, pc' = "loaded"
    PROVE  ElfInv'
<1> DEFINE h == headers[1]
<1>0. Loads' = Loads /\ TableOK /\ TableOK'
  BY DEF ElfInv, TableOK, Loads
<1>1. h.load /\ h.offset = 0 /\ h.filesz = LEN /\ h.vaddr = L /\ h.memsz = LEN
  OBVIOUS
<1>2. Loads = {1}
  <2>1. DOMAIN headers = 1 .. 1
    BY <1>0, SMT DEF TableOK
  <2>2. DOMAIN headers = {1}
    BY <2>1, SMT
  <2> QED  BY <1>1, <2>2 DEF Loads
<1>3. Addresses(h) = L .. L + LEN - 1
  BY <1>1 DEF Addresses
<1>4. /\ DOMAIN pages' = V
      /\ \A v \in V, b \in 0 .. PAGE - 1 :
            pages'[v][b] = IF v - L + b < LEN THEN v - L + b + 1 ELSE 0
  OBVIOUS
<1>5. /\ \A v \in V : IsPage(v) /\ L <= v /\ v + PAGE <= STACK_TOP - PAGE
      /\ \A a \in L .. L + LEN - 1 : a \in Nat /\ a < WORD /\ page_down(a) \in V
  OBVIOUS
<1>6. L \in Nat
  OBVIOUS
<1>7. \A a : ByteAt(h, a) = IF a - L < LEN THEN 0 + (a - L) + 1 ELSE 0
  BY <1>1 DEF ByteAt
<1> HIDE DEF h
<1>8. LoadedAsLinked'
  <2>1. ASSUME NEW a \in Addresses(h)
        PROVE  /\ a < WORD /\ page_down(a) \in V
               /\ pages'[page_down(a)][a % PAGE] = ByteAt(h, a)
    <3> DEFINE v == page_down(a)
    <3>1. a \in L .. L + LEN - 1
      BY <1>3
    <3>2. a \in Nat /\ a < WORD /\ v \in V
      BY <1>5, <3>1
    <3>3. IsPage(v) /\ v <= a /\ a < v + PAGE /\ a % PAGE = a - v
      BY <3>2, PageOf
    <3>4. v \in Nat
      BY <3>3 DEF IsPage
    <3> HIDE DEF v
    <3>5. a % PAGE \in 0 .. PAGE - 1 /\ v - L + (a % PAGE) = a - L /\ a - L < LEN
          /\ 0 + (a - L) + 1 = a - L + 1
      BY <1>6, <3>1, <3>2, <3>3, <3>4, Sizes, SMT
    <3>6. pages'[v][a % PAGE] = a - L + 1
      BY <1>4, <3>2, <3>5
    <3> QED  BY <1>7, <3>2, <3>5, <3>6 DEF v
  <2>2. \A k \in Loads : headers[k] = h
    BY <1>2 DEF h
  <2> QED  BY <1>0, <1>4, <2>1, <2>2 DEF LoadedAsLinked
<1>9. NothingElse'
  <2>1. ASSUME NEW v \in V, NEW b \in 0 .. PAGE - 1, pages'[v][b] # 0
        PROVE  /\ pages'[v][b] <= LEN /\ v + b \in Addresses(h)
               /\ pages'[v][b] = ByteAt(h, v + b)
    <3>1. v \in Nat /\ L <= v
      BY <1>5 DEF IsPage
    <3>2. v - L + b < LEN /\ pages'[v][b] = v - L + b + 1
      BY <1>4, <2>1
    <3>3. /\ v - L + b + 1 <= LEN /\ v + b \in L .. L + LEN - 1
          /\ (v + b) - L < LEN /\ 0 + ((v + b) - L) + 1 = v - L + b + 1
      BY <1>6, <3>1, <3>2, Sizes, SMT
    <3> QED  BY <1>3, <1>7, <3>2, <3>3
  <2>2. 1 \in Loads' /\ headers'[1] = h
    BY <1>0, <1>2 DEF h
  <2>3. ASSUME NEW v \in DOMAIN pages', NEW b \in 0 .. PAGE - 1, pages'[v][b] # 0
        PROVE  /\ pages'[v][b] <= LEN
               /\ \E k \in Loads' : /\ v + b \in Addresses(headers'[k])
                                    /\ pages'[v][b] = ByteAt(headers'[k], v + b)
    BY <1>4, <2>1, <2>2, <2>3
  <2> QED  BY <2>3 DEF NothingElse
<1>10. StackApart'
  <2>1. (STACK_TOP - PAGE) \notin V
    <3>1. ASSUME NEW v \in V PROVE v # STACK_TOP - PAGE
      <4>1. v \in Nat /\ v + PAGE <= STACK_TOP - PAGE
        BY <1>5 DEF IsPage
      <4> QED  BY <4>1, Sizes, SMT
    <3> QED  BY <3>1
  <2>2. 2 \in 0 .. MAX_REGIONS
    BY Sizes, SMT
  <2>3. TypeOK
    BY DEF ElfInv, StackApart
  <2>4. TypeOK'
    BY <2>2, <2>3 DEF TypeOK
  <2> QED  BY <1>4, <2>1, <2>4 DEF StackApart
<1>11. Mapping'
  BY DEF Mapping
<1> QED  BY <1>0, <1>8, <1>9, <1>10, <1>11 DEF ElfInv

\* Every step of the ELF loader.
LEMMA ElfStep ==
    ASSUME ElfInv, Next
    PROVE  ElfInv'
<1>1. CASE CheckHeaders
  <2>1. pc = "headers" /\ UNCHANGED <<headers, i, va, pages, frames, regions>>
    BY <1>1 DEF CheckHeaders, file
  <2>2. pc' = "failed" \/ (pc' = "segment" /\ \A k \in Loads : HeaderOk(headers[k]))
    BY <1>1 DEF CheckHeaders
  <2> QED  BY <2>1, <2>2, FailStep, HeadersStep
<1>2. CASE NextSegment
  BY <1>2, NextSegmentStep
<1>3. CASE MapPage
  <2>1. pc = "page" /\ va < EndPage(headers[i]) /\ UNCHANGED <<headers, e_entry, i, regions>>
    BY <1>3 DEF MapPage, file
  <2>2. CASE TooMany \/ ~elf_fill_page_frame(va, headers[i]).ok
    BY <1>3, <2>1, <2>2, FailStep DEF MapPage
  <2>3. CASE ~(TooMany \/ ~elf_fill_page_frame(va, headers[i]).ok)
    BY <1>3, <2>1, <2>3, MapPageStep DEF MapPage
  <2> QED  BY <2>2, <2>3
<1>4. CASE NoFrame
  BY <1>4, FailStep DEF NoFrame, file
<1>5. CASE EndSegment
  BY <1>5, EndSegmentStep
<1>6. CASE Finish
  BY <1>6, FinishStep
<1> QED  BY <1>1, <1>2, <1>3, <1>4, <1>5, <1>6 DEF Next

-----------------------------------------------------------------------------
(* The layout of the initial stack *)

\* Induction up to N, with a set for the predicate.
LEMMA UpTo ==
    ASSUME NEW N \in Nat, NEW T, 0 \in T, \A k \in Nat : k < N /\ k \in T => k + 1 \in T
    PROVE  \A k \in 0 .. N : k \in T
<1> DEFINE Bad == {k \in Nat : k <= N /\ k \notin T}
<1>1. Bad = {}
  <2> SUFFICES ASSUME Bad # {} PROVE FALSE
    OBVIOUS
  <2> DEFINE R == OpToRel(<, Nat)
  <2>1. \A x, y \in Nat : <<x, y>> \in R <=> x < y
    BY DEF OpToRel
  <2>2. IsWellFoundedOn(R, Nat)
    BY NatLessThanWellFounded
  <2>3. Bad \subseteq Nat
    OBVIOUS
  <2> HIDE DEF R
  <2>4. PICK m \in Bad : \A y \in Bad : ~(<<y, m>> \in R)
    BY <2>2, <2>3, WFMin
  <2>5. m \in Nat /\ m <= N /\ m \notin T
    OBVIOUS
  <2>6. m # 0
    BY <2>5
  <2>7. m - 1 \in Nat /\ m - 1 < m /\ m - 1 < N /\ m - 1 <= N /\ (m - 1) + 1 = m
    BY <2>5, <2>6, SMT
  <2>8. m - 1 \notin Bad
    BY <2>1, <2>4, <2>5, <2>7
  <2>9. m - 1 \in T
    BY <2>7, <2>8
  <2> QED  BY <2>5, <2>7, <2>9
<1>2. \A k \in 0 .. N : k \in Nat /\ k <= N
  BY SMT
<1> QED  BY <1>1, <1>2

\* What string_ptrs[k] is, when g has those behind it: room for the string and
\* its zero.
PtrStep(L, top, len, g) ==
    [k \in 1 .. L + 1 |-> IF k > L THEN top ELSE g[k + 1] - (len[k] + 1)]

\* There are such pointers.
LEMMA PtrsExist ==
    ASSUME NEW L \in Nat, NEW len, \A k \in 1 .. L : len[k] \in Nat, NEW top \in Int
    PROVE  \E g : g = PtrStep(L, top, len, g)
<1> DEFINE Good(d, g) == /\ g \in [L + 1 - d .. L + 1 -> Int] /\ g[L + 1] = top
                         /\ \A k \in L + 1 - d .. L : g[k] = g[k + 1] - (len[k] + 1)
           T == {d \in Nat : d <= L => \E g : Good(d, g)}
<1>1. 0 \in T
  <2> DEFINE g == [k \in L + 1 .. L + 1 |-> top]
  <2>1. L + 1 - 0 = L + 1 /\ L + 1 \in L + 1 .. L + 1 /\ \A k \in L + 1 - 0 .. L : FALSE
    BY SMT
  <2>2. g \in [L + 1 .. L + 1 -> Int] /\ g[L + 1] = top
    BY <2>1
  <2>3. Good(0, g)
    BY <2>1, <2>2
  <2> QED  BY <2>3
<1>2. ASSUME NEW d \in Nat, d < L, d \in T
      PROVE  d + 1 \in T
  <2> DEFINE n == L - d
  <2>1. /\ n \in 1 .. L /\ n \in Nat /\ L + 1 - d = n + 1 /\ L + 1 - (d + 1) = n /\ d <= L
        /\ d + 1 \in Nat /\ n <= L /\ n # L + 1
    BY <1>2, SMT
  <2> HIDE DEF n
  <2>2. PICK g : /\ g \in [n + 1 .. L + 1 -> Int] /\ g[L + 1] = top
                 /\ \A k \in n + 1 .. L : g[k] = g[k + 1] - (len[k] + 1)
    BY <1>2, <2>1
  <2> DEFINE h == [k \in n .. L + 1 |-> IF k = n THEN g[n + 1] - (len[n] + 1) ELSE g[k]]
  <2>3. /\ n \in n .. L + 1 /\ n + 1 \in n + 1 .. L + 1 /\ L + 1 \in n .. L + 1
        /\ \A k \in n .. L + 1 : k # n => k \in n + 1 .. L + 1
        /\ \A k \in n .. L : /\ k \in n .. L + 1 /\ k + 1 \in n .. L + 1 /\ k + 1 # n
                             /\ k # n => k \in n + 1 .. L
    BY <2>1, SMT
  <2>4. g[n + 1] \in Int /\ g[n + 1] - (len[n] + 1) \in Int
    <3>1. g[n + 1] \in Int /\ len[n] \in Nat
      BY <2>1, <2>2, <2>3
    <3>2. \A x \in Int, y \in Nat : x - (y + 1) \in Int
      BY SMT
    <3> QED  BY <3>1, <3>2
  <2>5. h \in [n .. L + 1 -> Int]
    BY <2>2, <2>3, <2>4
  <2>6. h[L + 1] = top
    BY <2>1, <2>2, <2>3
  <2>7. ASSUME NEW k \in n .. L
        PROVE  h[k] = h[k + 1] - (len[k] + 1)
    <3>1. h[k + 1] = g[k + 1]
      BY <2>3
    <3>2. CASE k = n
      BY <2>3, <3>1, <3>2
    <3>3. CASE k # n
      <4>1. h[k] = g[k] /\ k \in n + 1 .. L
        BY <2>3, <3>3
      <4> QED  BY <2>2, <3>1, <4>1
    <3> QED  BY <3>2, <3>3
  <2> HIDE DEF h
  <2>8. Good(d + 1, h)
    BY <2>1, <2>5, <2>6, <2>7
  <2> QED  BY <2>1, <2>8
<1>3. \E g : Good(L, g)
  <2>1. L \in 0 .. L /\ L <= L
    BY SMT
  <2>2. L \in T
    <3> HIDE DEF T
    <3> QED  BY <1>1, <1>2, <2>1, UpTo
  <2> QED  BY <2>1, <2>2
<1>4. PICK g : Good(L, g)
  BY <1>3
<1>5. /\ L + 1 - L = 1
      /\ \A k \in 1 .. L + 1 : IF k > L THEN k = L + 1 ELSE k \in 1 .. L
  BY SMT
<1>6. /\ g \in [1 .. L + 1 -> Int] /\ g[L + 1] = top
      /\ \A k \in 1 .. L : g[k] = g[k + 1] - (len[k] + 1)
  BY <1>4, <1>5
<1>7. ASSUME NEW k \in 1 .. L + 1
      PROVE  g[k] = IF k > L THEN top ELSE g[k + 1] - (len[k] + 1)
  BY <1>5, <1>6
<1>8. g = PtrStep(L, top, len, g)
  BY <1>6, <1>7 DEF PtrStep
<1> QED  BY <1>8

\* One more string of at most A bytes.
LEMMA OneMore ==
    ASSUME NEW d \in Nat, NEW A \in Nat, NEW top \in Int, NEW x \in Int, NEW l \in Nat,
           l + 1 <= A, x <= top, top - d * A <= x
    PROVE  /\ x - (l + 1) \in Int /\ x - (l + 1) <= top
           /\ top - (d + 1) * A <= x - (l + 1)
<1>1. (d + 1) * A = d * A + A /\ d * A \in Nat
  BY SMT
<1> QED  BY <1>1, SMT

\* The strings lie one behind the other, below top and not far from it.
LEMMA PtrsAre ==
    ASSUME NEW L \in Nat, NEW len, NEW A \in Nat,
           \A k \in 1 .. L : len[k] \in Nat /\ len[k] + 1 <= A,
           NEW top \in Int, NEW g, g = PtrStep(L, top, len, g)
    PROVE  /\ g[L + 1] = top /\ g \in [1 .. L + 1 -> Int]
           /\ \A k \in 1 .. L : g[k + 1] = g[k] + (len[k] + 1)
           /\ g[1] <= top /\ top - L * A <= g[1]
<1> DEFINE Good(k, d) == g[k] \in Int /\ g[k] <= top /\ top - d * A <= g[k]
           T == {d \in Nat : d <= L => Good(L + 1 - d, d)}
<1>1. \A k \in 1 .. L + 1 : g[k] = IF k > L THEN top ELSE g[k + 1] - (len[k] + 1)
  BY DEF PtrStep
<1>2. /\ L + 1 \in 1 .. L + 1 /\ L + 1 > L /\ L + 1 - 0 = L + 1
      /\ \A k \in 1 .. L : k \in 1 .. L + 1 /\ k + 1 \in 1 .. L + 1 /\ ~(k > L)
      /\ \A k \in 1 .. L + 1 : /\ L + 1 - k \in 0 .. L /\ L + 1 - k \in Nat
                               /\ L + 1 - k <= L /\ L + 1 - (L + 1 - k) = k
      /\ 1 \in 1 .. L + 1 /\ L + 1 - 1 = L
  BY SMT
<1>3. g[L + 1] = top
  BY <1>1, <1>2
<1>4. \A k \in 1 .. L : g[k] = g[k + 1] - (len[k] + 1)
  BY <1>1, <1>2
<1>5. 0 \in T
  <2>1. top <= top /\ top - 0 * A <= top
    BY SMT
  <2> QED  BY <1>2, <1>3, <2>1
<1>6. ASSUME NEW d \in Nat, d < L, d \in T
      PROVE  d + 1 \in T
  <2> DEFINE n == L - d
  <2>1. /\ n \in 1 .. L /\ L + 1 - d = n + 1 /\ L + 1 - (d + 1) = n /\ d <= L /\ d + 1 \in Nat
    BY <1>6, SMT
  <2> HIDE DEF n
  <2>2. g[n + 1] \in Int /\ g[n + 1] <= top /\ top - d * A <= g[n + 1]
    BY <1>6, <2>1
  <2>3. g[n] = g[n + 1] - (len[n] + 1) /\ len[n] \in Nat /\ len[n] + 1 <= A
    BY <1>4, <2>1
  <2>4. Good(n, d + 1)
    BY <2>2, <2>3, OneMore, SMT
  <2> QED  BY <2>1, <2>4
<1>7. \A d \in 0 .. L : d \in T
  <2> HIDE DEF T
  <2> QED  BY <1>5, <1>6, UpTo
<1>8. \A k \in 1 .. L + 1 : Good(k, L + 1 - k)
  BY <1>2, <1>7
<1>9. g \in [1 .. L + 1 -> Int]
  BY <1>8 DEF PtrStep
<1>10. ASSUME NEW k \in 1 .. L
       PROVE  g[k + 1] = g[k] + (len[k] + 1)
  <2>1. g[k] \in Int /\ g[k + 1] \in Int /\ len[k] \in Nat
    BY <1>2, <1>8
  <2>2. g[k] = g[k + 1] - (len[k] + 1)
    BY <1>4
  <2>3. \A x \in Int, y \in Int, l \in Nat : x = y - (l + 1) => y = x + (l + 1)
    BY SMT
  <2> QED  BY <2>1, <2>2, <2>3
<1>11. g[1] <= top /\ top - L * A <= g[1]
  <2>1. Good(1, L + 1 - 1)
    BY <1>2, <1>8
  <2> QED  BY <1>2, <2>1
<1> QED  BY <1>3, <1>9, <1>10, <1>11

\* One step further in an interval.
LEMMA Further ==
    ASSUME NEW L \in Nat, NEW u \in 1 .. L + 1, NEW d \in Nat, u + (d + 1) <= L + 1
    PROVE  /\ u + d \in 1 .. L /\ u + (d + 1) = (u + d) + 1 /\ u + d <= L + 1
           /\ u + d \in 1 .. L + 1
BY SMT

\* Strings of the lengths len start at g, one behind the other.
Strings(L, len, g) ==
    /\ L \in Nat /\ \A k \in 1 .. L : len[k] \in Nat
    /\ g \in [1 .. L + 1 -> Int] /\ \A k \in 1 .. L : g[k + 1] = g[k] + (len[k] + 1)

\* A later string starts behind an earlier one.
LEMMA PtrsRise ==
    ASSUME NEW L, NEW len, NEW g, Strings(L, len, g),
           NEW u \in 1 .. L + 1, NEW v \in 1 .. L + 1, u <= v
    PROVE  g[u] <= g[v]
<1> USE DEF Strings
<1> DEFINE T == {d \in Nat : u + d <= L + 1 => g[u] <= g[u + d]}
<1>1. 0 \in T
  <2>1. u + 0 = u /\ g[u] \in Int /\ \A x \in Int : x <= x
    BY SMT
  <2> QED  BY <2>1
<1>2. ASSUME NEW d \in Nat, d < L + 1, d \in T
      PROVE  d + 1 \in T
  <2>1. ASSUME u + (d + 1) <= L + 1
        PROVE  g[u] <= g[u + (d + 1)]
    <3>1. /\ u + d \in 1 .. L /\ u + (d + 1) = (u + d) + 1 /\ u + d <= L + 1
          /\ u + d \in 1 .. L + 1
      BY <2>1, Further
    <3>2. /\ g[u] <= g[u + d] /\ g[(u + d) + 1] = g[u + d] + (len[u + d] + 1)
          /\ len[u + d] \in Nat /\ g[u] \in Int /\ g[u + d] \in Int
      BY <1>2, <3>1
    <3>3. \A x \in Int, y \in Int, l \in Nat : x <= y => x <= y + (l + 1)
      BY SMT
    <3> QED  BY <3>1, <3>2, <3>3
  <2>2. d + 1 \in Nat
    BY SMT
  <2> QED  BY <2>1, <2>2
<1>3. /\ L + 1 \in Nat /\ v - u \in 0 .. L + 1 /\ v - u \in Nat /\ u + (v - u) = v /\ v <= L + 1
  BY SMT
<1>4. v - u \in T
  <2> HIDE DEF T
  <2> QED  BY <1>1, <1>2, <1>3, UpTo
<1> QED  BY <1>3, <1>4

\* M arguments of A characters fit into the page of the stack, P is the size of
\* a word.
Room(M, A, P) ==
    /\ M \in Nat /\ A \in Nat /\ P \in Nat /\ 0 < P
    /\ M * A + P - 1 + (M + 5) * P <= PAGE

\* Below strings from p on, L + 5 words fit into the page of the stack.
Fits(L, P, p) ==
    LET base == p - (p % P)
        entry == base - (L + 5) * P
    IN  /\ p \in Nat /\ base \in Nat /\ entry \in Nat
        /\ STACK_TOP - PAGE <= entry /\ base <= p /\ base = entry + (L + 5) * P
        /\ STACK_TOP - PAGE <= p
        /\ entry % P = 0

\* Where there is room, they fit.
LEMMA WordsFit ==
    ASSUME NEW L \in Nat, NEW M, NEW A, NEW P, Room(M, A, P), L <= M,
           NEW p \in Int, p <= STACK_TOP, STACK_TOP - L * A <= p
    PROVE  Fits(L, P, p)
<1> USE DEF Room
<1>1. L * A \in Nat /\ M * A \in Nat /\ L * A <= M * A /\ (L + 5) * P \in Nat
      /\ (M + 5) * P \in Nat /\ (L + 5) * P <= (M + 5) * P
  <2>1. \A x \in Nat : L * x \in Nat /\ M * x \in Nat /\ L * x <= M * x
    <3> SUFFICES ASSUME NEW x \in Nat PROVE L * x \in Nat /\ M * x \in Nat /\ L * x <= M * x
      OBVIOUS
    <3>1. M * x = L * x + (M - L) * x /\ (M - L) * x \in Nat /\ L * x \in Nat /\ M * x \in Nat
      BY SMT
    <3> QED  BY <3>1, SMT
  <2>2. (L + 5) * P = L * P + 5 * P /\ (M + 5) * P = M * P + 5 * P
    BY SMT
  <2> QED  BY <2>1, <2>2, SMT
<1>2. p \in Nat /\ STACK_TOP - PAGE <= p
  BY <1>1, Sizes, SMT
<1>3. /\ p \div P \in Nat /\ p % P \in 0 .. P - 1 /\ p = (p \div P) * P + (p % P)
  BY <1>2, Division
<1> DEFINE r == p % P
           q == p \div P
           m == (L + 5) * P
<1>4. r \in 0 .. P - 1 /\ q \in Nat /\ p = q * P + r /\ m \in Nat
  BY <1>1, <1>3
<1>5. p - r - m >= STACK_TOP - PAGE
  <2> DEFINE la == L * A
             ma == M * A
             mm == (M + 5) * P
  <2>1. la \in Nat /\ ma \in Nat /\ mm \in Nat /\ la <= ma /\ m <= mm
    BY <1>1
  <2>2. ma + P - 1 + mm <= PAGE /\ STACK_TOP - la <= p
    OBVIOUS
  <2> HIDE DEF la, ma, mm, m, r, q
  <2> QED  BY <1>4, <2>1, <2>2, Sizes, SMT
<1>6. p - r = q * P /\ p - r \in Nat /\ p - r <= p
  <2> HIDE DEF r, q, m
  <2>1. q * P \in Nat
    BY <1>4, SMT
  <2> QED  BY <1>4, <2>1, SMT
<1>7. p - r - m \in Nat /\ p - r = (p - r - m) + m
  <2> HIDE DEF r, q, m
  <2> QED  BY <1>4, <1>5, <1>6, Sizes, SMT
<1>8. (p - r - m) % P = 0
  <2>1. p - r - m = (q - (L + 5)) * P
    <3>1. (q - (L + 5)) * P = q * P - (L + 5) * P
      BY <1>4, SMT
    <3> QED  BY <1>6, <3>1
  <2>2. q - (L + 5) \in Nat
    <3> HIDE DEF q, r
    <3>1. ASSUME q - (L + 5) < 0
          PROVE  FALSE
      <4>1. (q - (L + 5)) * P <= 0 - P
        BY <1>4, <3>1, SMT
      <4> QED  BY <1>7, <2>1, <4>1, SMT
    <3> QED  BY <1>4, <3>1, SMT
  <2>3. \A x \in Nat : (x * P + 0) % P = 0 /\ x * P + 0 = x * P
    <3>1. \A x \in Nat : x * P + 0 = x * P
      BY SMT
    <3> QED  BY <3>1, Remainder
  <2> HIDE DEF r, q, m
  <2> QED  BY <2>1, <2>2, <2>3
<1>9. STACK_TOP - PAGE <= p - r - m
  <2> HIDE DEF r, q, m
  <2> QED  BY <1>5, <1>7, Sizes, SMT
<1> QED  BY <1>2, <1>6, <1>7, <1>8, <1>9 DEF Fits

\* Byte r of word q of n words above an aligned address.
ByteOf(e, P, n, q, r) ==
    LET a == e + q * P + r
    IN  /\ a \in Nat /\ e <= a /\ a < e + n * P
        /\ (a - e) \div P = q /\ (a - e) % P = r
        /\ (e + q * P) % P = 0

\* It lies where it is looked for.
LEMMA WordByte ==
    ASSUME NEW e \in Nat, NEW P \in Nat, 0 < P, e % P = 0, NEW n \in Nat,
           NEW q \in 0 .. n - 1, NEW r \in 0 .. P - 1
    PROVE  ByteOf(e, P, n, q, r)
<1>1. q \in Nat /\ r \in Nat /\ r < P /\ q * P \in Nat /\ q + 1 <= n
  BY SMT
<1>2. q * P + r < n * P
  <2>1. n * P = q * P + P + (n - (q + 1)) * P /\ (n - (q + 1)) * P \in Nat
    BY <1>1, SMT
  <2> QED  BY <1>1, <2>1, SMT
<1>3. (e + q * P + r) - e = q * P + r
  BY <1>1, SMT
<1>4. (q * P + r) % P = r /\ (q * P + r) \div P = q
  BY <1>1, Remainder
<1>5. (e + q * P) % P = 0
  <2>1. e = (e \div P) * P + (e % P) /\ e \div P \in Nat
    BY Division
  <2> DEFINE d == e \div P
  <2>2. e = d * P + 0 /\ d \in Nat
    BY <2>1
  <2> HIDE DEF d
  <2>3. e + q * P = (d + q) * P + 0 /\ d + q \in Nat
    BY <1>1, <2>2, SMT
  <2> QED  BY <1>1, <2>3, Remainder, SMT
<1>6. n * P \in Nat
  BY SMT
<1>7. e + q * P + r \in Nat /\ e <= e + q * P + r /\ e + q * P + r < e + n * P
  BY <1>1, <1>2, <1>6, SMT
<1> QED  BY <1>3, <1>4, <1>5, <1>7 DEF ByteOf

\* An address lies in one string only.
LEMMA OneString ==
    ASSUME NEW L, NEW len, NEW g, Strings(L, len, g),
           NEW a \in Int, NEW k \in 1 .. L, g[k] <= a, a < g[k + 1],
           NEW m \in 1 .. L, g[m] <= a, a < g[m + 1]
    PROVE  m = k
<1> USE DEF Strings
<1>1. ASSUME NEW u \in 1 .. L, NEW v \in 1 .. L, u < v, a < g[u + 1], g[v] <= a
      PROVE  FALSE
  <2>1. u + 1 \in 1 .. L + 1 /\ v \in 1 .. L + 1 /\ u + 1 <= v
    <3>1. \A N \in Nat : \A x, y \in 1 .. N :
             x < y => x + 1 \in 1 .. N + 1 /\ y \in 1 .. N + 1 /\ x + 1 <= y
      BY SMT
    <3> QED  BY <1>1, <3>1
  <2>2. g[u + 1] <= g[v]
    BY <2>1, PtrsRise
  <2>3. g[u + 1] \in Int /\ g[v] \in Int
    BY <2>1
  <2>4. \A x, y, z \in Int : ~(z < x /\ x <= y /\ y <= z)
    BY SMT
  <2> QED  BY <1>1, <2>2, <2>3, <2>4
<1>2. \A N \in Nat : \A x, y \in 1 .. N : x < y \/ y < x \/ x = y
  BY SMT
<1> QED  BY <1>1, <1>2

\* The string of length l from x on lies in the page of the stack, not below p.
InStack(x, l, p) ==
    /\ x \in Nat /\ x \in STACK_TOP - PAGE .. STACK_TOP - 1
    /\ x + l \in x .. STACK_TOP - 1
    /\ \A d \in 0 .. l :
          /\ x + d \in STACK_TOP - PAGE .. STACK_TOP - 1 /\ p <= x + d
          /\ x + d \in Int /\ x <= x + d /\ x + d < x + (l + 1)
          /\ (x + d) - x = d

\* The bytes of string k.
LEMMA StringBytes ==
    ASSUME NEW L, NEW len, NEW g, Strings(L, len, g),
           g[L + 1] = STACK_TOP, g[1] \in Nat, STACK_TOP - PAGE <= g[1], NEW k \in 1 .. L
    PROVE  InStack(g[k], len[k], g[1]) /\ g[k + 1] = g[k] + (len[k] + 1)
<1> USE DEF Strings
<1>1. /\ k \in 1 .. L + 1 /\ k + 1 \in 1 .. L + 1 /\ 1 \in 1 .. L + 1 /\ L + 1 \in 1 .. L + 1
      /\ 1 <= k /\ k + 1 <= L + 1
  <2>1. \A N \in Nat : \A x \in 1 .. N :
           /\ x \in 1 .. N + 1 /\ x + 1 \in 1 .. N + 1 /\ 1 \in 1 .. N + 1 /\ N + 1 \in 1 .. N + 1
           /\ 1 <= x /\ x + 1 <= N + 1
    BY SMT
  <2> QED  BY <2>1
<1>2. g[1] <= g[k]
  BY <1>1, PtrsRise
<1>3. g[k + 1] <= g[L + 1]
  BY <1>1, PtrsRise
<1>4. g[k] \in Int /\ g[k + 1] = g[k] + (len[k] + 1) /\ len[k] \in Nat
  BY <1>1
<1>5. g[k] + (len[k] + 1) <= STACK_TOP
  BY <1>3, <1>4
<1> DEFINE x == g[k]
           l == len[k]
           p == g[1]
<1>6. x \in Int /\ l \in Nat /\ p \in Nat /\ p <= x /\ x + (l + 1) <= STACK_TOP
      /\ STACK_TOP - PAGE <= p /\ g[k + 1] = x + (l + 1)
  BY <1>2, <1>4, <1>5
<1> HIDE DEF x, l, p
<1>7. InStack(x, l, p)
  BY <1>6, Sizes, SMT DEF InStack
<1> QED  BY <1>6, <1>7 DEF x, l, p

\* The places of a string of length l from p on.
LEMMA StringPlaces ==
    ASSUME NEW p \in Nat, NEW l \in Nat, p + l \in p .. STACK_TOP - 1
    PROVE  /\ \A m \in p .. p + l : m # p + l => m - p \in 0 .. l - 1 /\ p + (m - p) = m
           /\ \A m \in p .. STACK_TOP - 1 : ~(p + l <= m) => m \in p .. p + l /\ m # p + l
           /\ \A m \in 1 .. l : m - 1 \in 0 .. l - 1 /\ (m - 1) + 1 = m /\ p + (m - 1) = p + m - 1
           /\ \A d \in 0 .. l - 1 : d + 1 \in 1 .. l
           /\ (p + l) - p = l /\ p + l \in Int
           /\ \A m \in p .. (p + l) - 1 : m \in p .. p + l /\ m # p + l
           /\ \A m \in p .. STACK_TOP - 1 : p + l <= m /\ m # p + l => p + l \in p .. m - 1
BY Sizes, SMT

\* A sequence is a function.
LEMMA SeqIs ==
    ASSUME NEW S, NEW s \in Seq(S)
    PROVE  Len(s) \in Nat /\ s \in [1 .. Len(s) -> S] /\ DOMAIN s = 1 .. Len(s)
BY SMT

\* A sequence behind another one.
LEMMA Joined ==
    ASSUME NEW s \in Seq(Int), NEW t \in Seq(Int)
    PROVE  /\ s \o t \in Seq(Int) /\ Len(s \o t) = Len(s) + Len(t)
           /\ \A k \in 1 .. Len(s) : (s \o t)[k] = s[k]
           /\ \A k \in 1 .. Len(t) : (s \o t)[Len(s) + k] = t[k]
BY SMT

\* w is three words, those of f, and two zeros.
IsWordSeq(w, L, f, x, y, z) ==
    /\ w[0 + 1] = x /\ w[1 + 1] = y /\ w[2 + 1] = z
    /\ \A k \in 1 .. L : w[(k + 2) + 1] = f[k]
    /\ w[(L + 3) + 1] = 0 /\ w[(L + 4) + 1] = 0

\* The words below the strings.
LEMMA WordSeq ==
    ASSUME NEW L \in Nat, NEW f \in [1 .. L -> Int], NEW x \in Int, NEW y \in Int, NEW z \in Int
    PROVE  IsWordSeq(<<x, y, z>> \o f \o <<0, 0>>, L, f, x, y, z)
<1>1. f \in Seq(Int) /\ Len(f) = L
  BY SMT
<1> DEFINE u == <<x, y, z>>
           v == u \o f
           w == v \o <<0, 0>>
<1>2. u \in Seq(Int) /\ Len(u) = 3 /\ u[1] = x /\ u[2] = y /\ u[3] = z
  BY SMT
<1> HIDE DEF u
<1>3. /\ v \in Seq(Int) /\ Len(v) = 3 + L
      /\ \A k \in 1 .. 3 : v[k] = u[k]
      /\ \A k \in 1 .. L : v[3 + k] = f[k]
  <2>1. /\ v \in Seq(Int) /\ Len(v) = Len(u) + Len(f)
        /\ \A k \in 1 .. Len(u) : v[k] = u[k]
        /\ \A k \in 1 .. Len(f) : v[Len(u) + k] = f[k]
    BY <1>1, <1>2, Joined
  <2> QED  BY <1>1, <1>2, <2>1
<1> HIDE DEF v
<1>4. /\ \A k \in 1 .. 3 + L : w[k] = v[k]
      /\ w[L + 4] = 0 /\ w[L + 5] = 0
  BY <1>3, SMT
<1>5. /\ 1 \in 1 .. 3 + L /\ 2 \in 1 .. 3 + L /\ 3 \in 1 .. 3 + L /\ 0 + 1 = 1 /\ 1 + 1 = 2
      /\ 2 + 1 = 3 /\ 1 \in 1 .. 3 /\ 2 \in 1 .. 3 /\ 3 \in 1 .. 3 /\ (L + 3) + 1 = L + 4
      /\ (L + 4) + 1 = L + 5 /\ \A k \in 1 .. L : (k + 2) + 1 = 3 + k /\ 3 + k \in 1 .. 3 + L
  BY SMT
<1> HIDE DEF w
<1>6. /\ w[1] = x /\ w[2] = y /\ w[3] = z /\ w[L + 4] = 0 /\ w[L + 5] = 0
      /\ \A k \in 1 .. L : w[3 + k] = f[k]
  <2>1. w[1] = v[1] /\ w[2] = v[2] /\ w[3] = v[3]
    BY <1>4, <1>5
  <2>2. v[1] = x /\ v[2] = y /\ v[3] = z
    BY <1>2, <1>3, <1>5
  <2>3. \A k \in 1 .. L : w[3 + k] = f[k]
    BY <1>3, <1>4, <1>5
  <2> QED  BY <1>4, <2>1, <2>2, <2>3
<1> QED  BY <1>5, <1>6 DEF u, v, w, IsWordSeq

\* The numbers of the words.
LEMMA WordPlaces ==
    ASSUME NEW L \in Nat
    PROVE  /\ 0 \in 0 .. L + 4 /\ 1 \in 0 .. L + 4 /\ 2 \in 0 .. L + 4 /\ L + 3 \in 0 .. L + 4
           /\ L + 4 \in 0 .. L + 4 /\ L \in 0 .. L
           /\ \A k \in 0 .. 2 : k \in 0 .. L + 4
           /\ \A k \in 0 .. L : k + 3 \in 0 .. L + 4
           /\ \A k \in 1 .. L : k + 2 \in 0 .. L + 4 /\ k - 1 \in 0 .. L /\ (k - 1) + 3 = k + 2
           /\ \A k \in 0 .. L - 1 : k + 1 \in 1 .. L /\ (k + 1) - 1 = k
BY SMT

\* The words of the table that starts at the fourth word.
Table(e, P, L) ==
    /\ e + 0 * P = e /\ e + 1 * P = e + P
    /\ \A k \in 0 .. L : (e + 3 * P) + k * P = e + (k + 3) * P

\* They are words of the stack.
LEMMA TablePlaces ==
    ASSUME NEW e \in Nat, NEW P \in Nat, NEW L \in Nat
    PROVE  Table(e, P, L)
<1>1. \A k \in Nat : (e + 3 * P) + k * P = e + (k + 3) * P
  BY SMT
<1>2. \A k \in 0 .. L : k \in Nat
  BY SMT
<1>3. e + 0 * P = e /\ e + 1 * P = e + P
  BY SMT
<1> QED  BY <1>1, <1>2, <1>3 DEF Table

-----------------------------------------------------------------------------
(* The initial stack *)

\* The stack as user_process_build_initial_stack leaves it.
Entry == Aligned(StringPtrs(argv)[1]) - (Len(argv) + 5) * PTR
Laid ==
    LET ptrs == StringPtrs(argv) IN
    /\ stack_entry = Entry
    /\ \A q \in 0 .. Len(argv) + 4 : \A r \in 0 .. PTR - 1 :
          stack[stack_entry + q * PTR + r] = <<"u32", StackWords(argv, stack_entry)[q + 1], r>>
    /\ \A k \in 1 .. Len(argv) :
          /\ \A d \in 0 .. Len(argv[k]) - 1 : stack[ptrs[k] + d] = <<"char", argv[k][d + 1]>>
          /\ stack[ptrs[k] + Len(argv[k])] = NUL

\* The sizes of the arguments.
LEMMA ArgSizes ==
    /\ PTR \in Nat /\ 0 < PTR /\ USER_MAX_ARGS \in Nat /\ USER_ARG_MAX \in Nat
    /\ USER_MAX_ARGS * USER_ARG_MAX + PTR - 1 + (USER_MAX_ARGS + 5) * PTR <= PAGE
    /\ ~(STACK_TOP - PAGE <= 0)
<1>1. /\ PTR \in Nat \ {0} /\ USER_MAX_ARGS \in Nat /\ USER_ARG_MAX \in Nat
      /\ USER_MAX_ARGS * USER_ARG_MAX + PTR - 1 + (USER_MAX_ARGS + 5) * PTR <= PAGE
      /\ STACK_TOP > PAGE
  BY InitialStackAssumption
<1>2. \A x \in Nat \ {0} : 0 < x
  BY SMT
<1>3. \A x, y \in Nat : x > y => ~(x - y <= 0)
  BY SMT
<1> QED  BY <1>1, <1>2, <1>3, Sizes

\* argv is a sequence of strings.
LEMMA ArgvIs ==
    ASSUME NEW C, ArgvType(C)
    PROVE  /\ Len(argv) \in Nat /\ Len(argv) <= USER_MAX_ARGS /\ DOMAIN argv = 1 .. Len(argv)
           /\ argv = [k \in 1 .. Len(argv) |-> argv[k]]
           /\ \A k \in 1 .. Len(argv) :
                 /\ argv[k] = [m \in 1 .. Len(argv[k]) |-> argv[k][m]]
                 /\ \A m \in 1 .. Len(argv[k]) : argv[k][m] \in C
                 /\ Len(argv[k]) \in Nat /\ Len(argv[k]) + 1 <= USER_ARG_MAX
<1>1. argv \in Seq(Seq(C)) /\ Len(argv) <= USER_MAX_ARGS
  BY DEF ArgvType
<1>2. /\ Len(argv) \in Nat /\ argv \in [1 .. Len(argv) -> Seq(C)]
      /\ DOMAIN argv = 1 .. Len(argv)
  BY <1>1, SeqIs
<1>3. ASSUME NEW k \in 1 .. Len(argv)
      PROVE  /\ argv[k] = [m \in 1 .. Len(argv[k]) |-> argv[k][m]]
             /\ \A m \in 1 .. Len(argv[k]) : argv[k][m] \in C
             /\ Len(argv[k]) \in Nat /\ Len(argv[k]) + 1 <= USER_ARG_MAX
  <2>1. argv[k] \in Seq(C) /\ Len(argv[k]) < USER_ARG_MAX
    BY <1>2 DEF ArgvType
  <2>2. Len(argv[k]) \in Nat /\ argv[k] \in [1 .. Len(argv[k]) -> C]
    BY <2>1, SeqIs
  <2>3. \A x, y \in Nat : x < y => x + 1 <= y
    BY SMT
  <2> QED  BY <2>1, <2>2, <2>3, ArgSizes
<1> QED  BY <1>1, <1>2, <1>3

\* string_ptrs, and the stack pointer below the words.
LEMMA PtrsOf ==
    ASSUME NEW C, ArgvType(C)
    PROVE  LET p == StringPtrs(argv)
               L == Len(argv)
           IN  /\ p \in [1 .. L + 1 -> Int] /\ p[L + 1] = STACK_TOP /\ p[1] \in Nat
               /\ \A k \in 1 .. L : p[k + 1] = p[k] + (Len(argv[k]) + 1)
               /\ STACK_TOP - PAGE <= p[1]
               /\ Entry \in Nat /\ STACK_TOP - PAGE <= Entry /\ Entry % PTR = 0
               /\ Aligned(p[1]) <= p[1] /\ Aligned(p[1]) = Entry + (L + 5) * PTR
               /\ Aligned(p[1]) \in Nat /\ p[1] <= STACK_TOP
<1> DEFINE p == StringPtrs(argv)
           L == Len(argv)
           len == [k \in 1 .. L |-> Len(argv[k])]
<1>1. /\ L \in Nat /\ L <= USER_MAX_ARGS
      /\ \A k \in 1 .. L : len[k] = Len(argv[k]) /\ len[k] \in Nat /\ len[k] + 1 <= USER_ARG_MAX
  BY ArgvIs
<1>2. /\ STACK_TOP \in Int /\ USER_ARG_MAX \in Nat
      /\ \A k \in 1 .. L + 1 : ~(k > L) => k \in 1 .. L
  BY <1>1, Sizes, ArgSizes, SMT
<1>3. \A g : PtrStep(L, STACK_TOP, len, g) =
             [k \in 1 .. L + 1 |-> IF k > L THEN STACK_TOP ELSE g[k + 1] - (Len(argv[k]) + 1)]
  BY <1>1, <1>2 DEF PtrStep
<1>4. p = CHOOSE g : g = [k \in 1 .. L + 1 |-> IF k > L THEN STACK_TOP
                                               ELSE g[k + 1] - (Len(argv[k]) + 1)]
  BY DEF StringPtrs
<1> HIDE DEF len, p, L
<1>5. \E g : g = PtrStep(L, STACK_TOP, len, g)
  BY <1>1, <1>2, PtrsExist
<1>6. p = PtrStep(L, STACK_TOP, len, p)
  BY <1>3, <1>4, <1>5
<1>7. /\ p[L + 1] = STACK_TOP /\ p \in [1 .. L + 1 -> Int]
      /\ \A k \in 1 .. L : p[k + 1] = p[k] + (len[k] + 1)
      /\ p[1] <= STACK_TOP /\ STACK_TOP - L * USER_ARG_MAX <= p[1]
  BY <1>1, <1>2, <1>6, PtrsAre
<1>8. p[1] \in Int
  <2>1. \A x \in Nat : 1 \in 1 .. x + 1
    BY SMT
  <2> QED  BY <1>1, <1>7, <2>1
<1>9. /\ p[1] \in Nat /\ STACK_TOP - PAGE <= p[1]
      /\ Entry \in Nat /\ STACK_TOP - PAGE <= Entry /\ Entry % PTR = 0
      /\ Aligned(p[1]) \in Nat
      /\ Aligned(p[1]) <= p[1] /\ Aligned(p[1]) = Entry + (L + 5) * PTR
  <2>1. Aligned(p[1]) = p[1] - (p[1] % PTR)
    BY DEF Aligned
  <2>2. Entry = (p[1] - (p[1] % PTR)) - (L + 5) * PTR
    BY <2>1 DEF Entry, p, L
  <2> DEFINE x == p[1]
             base == x - (x % PTR)
             e == base - (L + 5) * PTR
  <2>3. x \in Int /\ x <= STACK_TOP /\ STACK_TOP - L * USER_ARG_MAX <= x
    BY <1>7, <1>8
  <2>4. Fits(L, PTR, x)
    <3> HIDE DEF x
    <3>1. Room(USER_MAX_ARGS, USER_ARG_MAX, PTR)
      BY ArgSizes DEF Room
    <3> QED  BY <1>1, <2>3, <3>1, WordsFit
  <2>5. /\ x \in Nat /\ base \in Nat /\ e \in Nat /\ STACK_TOP - PAGE <= e /\ base <= x
        /\ base = e + (L + 5) * PTR /\ STACK_TOP - PAGE <= x /\ e % PTR = 0
    BY <2>4 DEF Fits
  <2> QED  BY <2>1, <2>2, <2>5
<1> QED  BY <1>1, <1>7, <1>9 DEF p, L

\* Where the strings lie.
LEMMA StringsOf ==
    ASSUME NEW C, ArgvType(C), NEW k \in 1 .. Len(argv)
    PROVE  LET p == StringPtrs(argv)
               l == Len(argv[k])
           IN  /\ p[k] \in Nat /\ p[k] \in StackPage /\ p[k] + l \in p[k] .. STACK_TOP - 1
               /\ \A d \in 0 .. l :
                     /\ p[k] + d \in StackPage /\ p[1] <= p[k] + d
                     /\ (p[k] + d) - p[k] = d
                     /\ k = CHOOSE j \in 1 .. Len(argv) : p[j] <= p[k] + d /\ p[k] + d < p[j + 1]
<1> DEFINE p == StringPtrs(argv)
           L == Len(argv)
           len == [j \in 1 .. L |-> Len(argv[j])]
<1>1. /\ L \in Nat /\ \A j \in 1 .. L : len[j] = Len(argv[j]) /\ len[j] \in Nat
  BY ArgvIs
<1>2. /\ p \in [1 .. L + 1 -> Int] /\ p[L + 1] = STACK_TOP /\ p[1] \in Nat
      /\ \A j \in 1 .. L : p[j + 1] = p[j] + (len[j] + 1)
      /\ STACK_TOP - PAGE <= p[1]
  BY <1>1, PtrsOf
<1>3. k \in 1 .. L
  OBVIOUS
<1> HIDE DEF len, p, L
<1>4. InStack(p[k], len[k], p[1]) /\ p[k + 1] = p[k] + (len[k] + 1)
  <2>1. Strings(L, len, p)
    BY <1>1, <1>2 DEF Strings
  <2> QED  BY <1>2, <1>3, <2>1, StringBytes
<1>5. ASSUME NEW d \in 0 .. len[k]
      PROVE  k = CHOOSE j \in 1 .. L : p[j] <= p[k] + d /\ p[k] + d < p[j + 1]
  <2> DEFINE x == p[k] + d
  <2>1. x \in Int /\ p[k] <= x /\ x < p[k + 1]
    BY <1>4 DEF InStack
  <2> HIDE DEF x
  <2>2. \A j \in 1 .. L : p[j] <= x /\ x < p[j + 1] => j = k
    <3>1. Strings(L, len, p)
      BY <1>1, <1>2 DEF Strings
    <3> QED  BY <1>3, <2>1, <3>1, OneString
  <2>3. k = CHOOSE j \in 1 .. L : p[j] <= x /\ x < p[j + 1]
    BY <1>3, <2>1, <2>2
  <2> QED  BY <2>3 DEF x
<1>6. len[k] = Len(argv[k])
  BY <1>1, <1>3
<1>7. \A d \in 0 .. len[k] :
        /\ p[k] + d \in STACK_TOP - PAGE .. STACK_TOP - 1 /\ p[1] <= p[k] + d
        /\ (p[k] + d) - p[k] = d
        /\ k = CHOOSE j \in 1 .. L : p[j] <= p[k] + d /\ p[k] + d < p[j + 1]
  BY <1>4, <1>5 DEF InStack
<1> QED  BY <1>4, <1>6, <1>7 DEF p, L, StackPage, InStack

\* Where the words lie.
LEMMA WordsOf ==
    ASSUME NEW C, ArgvType(C), NEW q \in 0 .. Len(argv) + 4, NEW r \in 0 .. PTR - 1
    PROVE  LET x == Entry + q * PTR + r
           IN  /\ x \in StackPage /\ Entry <= x /\ x < Aligned(StringPtrs(argv)[1])
               /\ ~(x >= StringPtrs(argv)[1])
               /\ (x - Entry) \div PTR = q /\ (x - Entry) % PTR = r
               /\ (Entry + q * PTR) % PTR = 0
<1> DEFINE L == Len(argv)
           base == Aligned(StringPtrs(argv)[1])
           e == Entry
           p == StringPtrs(argv)[1]
<1>1. /\ e \in Nat /\ e % PTR = 0 /\ base = e + (L + 5) * PTR /\ STACK_TOP - PAGE <= e
      /\ base \in Nat /\ base <= p /\ p <= STACK_TOP /\ p \in Nat
  BY PtrsOf
<1>2. L + 5 \in Nat /\ q \in 0 .. (L + 5) - 1
  <2>1. \A x \in Nat : x + 5 \in Nat /\ (x + 5) - 1 = x + 4
    BY SMT
  <2> QED  BY <2>1, ArgvIs
<1> DEFINE x == e + q * PTR + r
<1> HIDE DEF L, base, e, p
<1>3. /\ x \in Nat /\ e <= x /\ x < e + (L + 5) * PTR
      /\ (x - e) \div PTR = q /\ (x - e) % PTR = r /\ (e + q * PTR) % PTR = 0
  <2>1. ByteOf(e, PTR, L + 5, q, r)
    BY <1>1, <1>2, ArgSizes, WordByte
  <2> QED  BY <2>1 DEF ByteOf
<1>4. x < base
  BY <1>1, <1>3
<1> HIDE DEF x
<1>5. x \in STACK_TOP - PAGE .. STACK_TOP - 1 /\ ~(x >= p)
  BY <1>1, <1>3, <1>4, Sizes, SMT
<1> QED  BY <1>3, <1>4, <1>5 DEF L, base, e, p, x, StackPage

\* user_process_build_initial_stack finds room, and leaves the stack like that.
LEMMA BuildLays ==
    ASSUME NEW C, ArgvType(C), BuildStack, UNCHANGED argv
    PROVE  Laid'
<1> DEFINE p == StringPtrs(argv)
           L == Len(argv)
           e == Entry
           base == Aligned(p[1])
           w == StackWords(argv, e)
           SB(x) == LET k == CHOOSE j \in DOMAIN argv : p[j] <= x /\ x < p[j + 1]
                    IN  IF x - p[k] < Len(argv[k]) THEN <<"char", argv[k][x - p[k] + 1]>> ELSE NUL
<1>1. DOMAIN argv = 1 .. L
  BY ArgvIs
<1>2. ~(\E k \in DOMAIN argv : p[k] < STACK_TOP - PAGE)
  <2>1. \A x \in STACK_TOP - PAGE .. STACK_TOP - 1 : ~(x < STACK_TOP - PAGE)
    BY Sizes, SMT
  <2> QED  BY <1>1, <2>1, StringsOf DEF StackPage
<1>3. ~(e < STACK_TOP - PAGE)
  <2>1. \A x \in Nat : STACK_TOP - PAGE <= x => ~(x < STACK_TOP - PAGE)
    BY Sizes, SMT
  <2> QED  BY <2>1, PtrsOf
<1>4. /\ stack_entry' = e
      /\ stack' = [x \in StackPage |->
            IF x >= p[1] THEN SB(x)
            ELSE IF e <= x /\ x < base
            THEN <<"u32", w[(x - e) \div PTR + 1], (x - e) % PTR>>
            ELSE stack[x]]
  BY <1>2, <1>3 DEF BuildStack, Entry
<1>5. ASSUME NEW q \in 0 .. L + 4, NEW r \in 0 .. PTR - 1
      PROVE  stack'[e + q * PTR + r] = <<"u32", w[q + 1], r>>
  <2> DEFINE x == e + q * PTR + r
  <2>1. /\ x \in StackPage /\ e <= x /\ x < base /\ ~(x >= p[1])
        /\ (x - e) \div PTR = q /\ (x - e) % PTR = r
    BY WordsOf
  <2> HIDE DEF x, SB, p, w, base, e
  <2>2. stack'[x] = <<"u32", w[(x - e) \div PTR + 1], (x - e) % PTR>>
    BY <1>4, <2>1
  <2> QED  BY <2>1, <2>2 DEF x
<1>6. ASSUME NEW k \in 1 .. L, NEW d \in 0 .. Len(argv[k])
      PROVE  stack'[p[k] + d] = IF d < Len(argv[k]) THEN <<"char", argv[k][d + 1]>> ELSE NUL
  <2> DEFINE x == p[k] + d
  <2>1. /\ x \in StackPage /\ p[1] <= x /\ x - p[k] = d
        /\ k = CHOOSE j \in 1 .. L : p[j] <= x /\ x < p[j + 1]
    BY StringsOf
  <2>2. x >= p[1]
    <3>1. p[1] \in Nat
      BY PtrsOf
    <3>2. \A y \in Nat : \A z \in STACK_TOP - PAGE .. STACK_TOP - 1 : y <= z => z >= y
      BY Sizes, SMT
    <3> QED  BY <2>1, <3>1, <3>2 DEF StackPage
  <2> HIDE DEF x
  <2>3. SB(x) = IF d < Len(argv[k]) THEN <<"char", argv[k][d + 1]>> ELSE NUL
    <3> DEFINE m == CHOOSE j \in DOMAIN argv : p[j] <= x /\ x < p[j + 1]
    <3>1. m = k
      BY <1>1, <2>1
    <3>2. SB(x) = IF x - p[m] < Len(argv[m]) THEN <<"char", argv[m][x - p[m] + 1]>> ELSE NUL
      OBVIOUS
    <3> HIDE DEF m, SB, p
    <3> QED  BY <2>1, <3>1, <3>2
  <2> HIDE DEF SB, p, w, base, e
  <2>4. stack'[x] = SB(x)
    BY <1>4, <2>1, <2>2
  <2> QED  BY <2>3, <2>4 DEF x
<1>7. ASSUME NEW k \in 1 .. L
      PROVE  /\ \A d \in 0 .. Len(argv[k]) - 1 : stack'[p[k] + d] = <<"char", argv[k][d + 1]>>
             /\ stack'[p[k] + Len(argv[k])] = NUL
  <2> DEFINE l == Len(argv[k])
  <2>1. l \in Nat
    BY ArgvIs
  <2> HIDE DEF l
  <2>2. /\ \A d \in 0 .. l - 1 : d \in 0 .. l /\ d < l
        /\ l \in 0 .. l /\ ~(l < l)
    BY <2>1, SMT
  <2> QED  BY <1>6, <2>2 DEF l
<1>8. StringPtrs(argv)' = p /\ Len(argv)' = L /\ Entry' = e /\ StackWords(argv, stack_entry)' = w
  <2>1. StringPtrs(argv)' = p /\ Len(argv)' = L
    BY DEF StringPtrs
  <2>2. Entry' = e
    BY DEF Entry
  <2>3. StackWords(argv, stack_entry)' = w
    <3> HIDE DEF e
    <3> QED  BY <1>4
  <2> QED  BY <2>1, <2>2, <2>3
<1> HIDE DEF p, L, e, w
<1>9. stack_entry' = Entry'
  BY <1>4, <1>8
<1>10. \A q \in 0 .. Len(argv)' + 4 : \A r \in 0 .. PTR - 1 :
          stack'[stack_entry' + q * PTR + r] = <<"u32", StackWords(argv, stack_entry)'[q + 1], r>>
  BY <1>4, <1>5, <1>8
<1>11. argv' = argv
  OBVIOUS
<1>12. \A k \in 1 .. Len(argv)' :
          /\ \A d \in 0 .. Len(argv'[k]) - 1 :
                stack'[StringPtrs(argv)'[k] + d] = <<"char", argv'[k][d + 1]>>
          /\ stack'[StringPtrs(argv)'[k] + Len(argv'[k])] = NUL
  BY <1>7, <1>8, <1>11
<1> QED  BY <1>9, <1>10, <1>12 DEF Laid

\* The start-up code finds every string.
LEMMA StringFound ==
    ASSUME NEW C, "" \notin C, ArgvType(C), Laid, NEW k \in 1 .. Len(argv)
    PROVE  IsString(StringPtrs(argv)[k]) /\ StringAt(StringPtrs(argv)[k]) = argv[k]
<1> DEFINE p == StringPtrs(argv)[k]
           l == Len(argv[k])
           T == STACK_TOP
<1>1. /\ l \in Nat /\ argv[k] = [m \in 1 .. l |-> argv[k][m]]
      /\ \A m \in 1 .. l : argv[k][m] \in C
  BY ArgvIs
<1>2. p \in Nat /\ p \in StackPage /\ p + l \in p .. T - 1
  BY StringsOf
<1>3. (\A d \in 0 .. l - 1 : stack[p + d] = <<"char", argv[k][d + 1]>>) /\ stack[p + l] = NUL
  BY DEF Laid
<1> HIDE DEF p, l
<1>4. /\ \A m \in p .. p + l : m # p + l => m - p \in 0 .. l - 1 /\ p + (m - p) = m
      /\ \A m \in p .. T - 1 : ~(p + l <= m) => m \in p .. p + l /\ m # p + l
      /\ \A m \in 1 .. l : m - 1 \in 0 .. l - 1 /\ (m - 1) + 1 = m /\ p + (m - 1) = p + m - 1
      /\ \A d \in 0 .. l - 1 : d + 1 \in 1 .. l
      /\ (p + l) - p = l /\ p + l \in Int
      /\ \A m \in p .. (p + l) - 1 : m \in p .. p + l /\ m # p + l
      /\ \A m \in p .. T - 1 : p + l <= m /\ m # p + l => p + l \in p .. m - 1
  BY <1>1, <1>2, StringPlaces
<1> DEFINE Byte(c) == <<"char", c>>
<1>0. \A c : Byte(c)[1] = "char" /\ Byte(c)[2] = c
  OBVIOUS
<1>5. ASSUME NEW m \in p .. p + l, m # p + l
      PROVE  \E c \in C : stack[m] = <<"char", c>>
  <2> DEFINE d == m - p
  <2>1. d \in 0 .. l - 1 /\ p + d = m
    BY <1>4, <1>5
  <2> HIDE DEF d
  <2>2. stack[m] = <<"char", argv[k][d + 1]>> /\ argv[k][d + 1] \in C
    BY <1>1, <1>3, <1>4, <2>1
  <2> QED  BY <2>2
<1>6. IsString(p)
  <2>1. \A m \in p .. p + l : stack[m][1] = "char"
    <3> SUFFICES ASSUME NEW m \in p .. p + l PROVE stack[m][1] = "char"
      OBVIOUS
    <3>1. PICK c : stack[m] = Byte(c)
      BY <1>3, <1>5 DEF NUL
    <3> QED  BY <1>0, <3>1
  <2> QED  BY <1>2, <1>3, <2>1 DEF IsString
<1>7. \A m \in p .. p + l : m # p + l => stack[m] # NUL
  <2> SUFFICES ASSUME NEW m \in p .. p + l, m # p + l, stack[m] = NUL PROVE FALSE
    OBVIOUS
  <2>1. PICK c \in C : stack[m] = <<"char", c>>
    BY <1>5
  <2>2. <<"char", c>> = <<"char", "">>
    BY <2>1 DEF NUL
  <2> QED  BY <2>2
<1>8. StringAt(p) = [m \in 1 .. (p + l) - p |-> stack[p + m - 1][2]]
  <2> DEFINE Zero(b) == stack[b] = NUL /\ \A m \in p .. b - 1 : stack[m] # NUL
  <2>1. p + l \in p .. T - 1 /\ Zero(p + l)
    BY <1>2, <1>3, <1>4, <1>7
  <2>2. \A b \in p .. T - 1 : Zero(b) => b = p + l
    BY <1>3, <1>4, <1>7
  <2>3. p + l = CHOOSE b \in p .. T - 1 : Zero(b)
    <3> HIDE DEF Zero
    <3> QED  BY <2>1, <2>2
  <2> QED  BY <2>3 DEF StringAt
<1>9. \A m \in 1 .. l : stack[p + m - 1][2] = argv[k][m]
  BY <1>0, <1>3, <1>4
<1>10. StringAt(p) = argv[k]
  BY <1>1, <1>4, <1>8, <1>9
<1> QED  BY <1>6, <1>10 DEF p

\* Every word of the stack is whole.
LEMMA WordFound ==
    ASSUME NEW C, ArgvType(C), Laid, NEW q \in 0 .. Len(argv) + 4
    PROVE  /\ IsWord(stack_entry + q * PTR)
           /\ Word(stack_entry + q * PTR) = StackWords(argv, stack_entry)[q + 1]
<1> DEFINE e == stack_entry
           a0 == e + q * PTR
           w == StackWords(argv, stack_entry)[q + 1]
<1>1. e = Entry /\ \A r \in 0 .. PTR - 1 : stack[e + q * PTR + r] = <<"u32", w, r>>
  BY DEF Laid
<1>2. 0 \in 0 .. PTR - 1 /\ a0 + 0 = a0
  <2>1. \A x \in Nat : 0 < x => 0 \in 0 .. x - 1
    BY SMT
  <2>2. \A x, z, m \in Nat : \A y \in 0 .. m + 4 : x + y * z + 0 = x + y * z
    BY SMT
  <2>3. e \in Nat /\ Len(argv) \in Nat
    BY <1>1, PtrsOf, ArgvIs
  <2> QED  BY <2>1, <2>2, <2>3, ArgSizes
<1>3. a0 \in StackPage /\ a0 % PTR = 0
  <2>1. Entry + q * PTR + 0 \in StackPage /\ (Entry + q * PTR) % PTR = 0
    BY <1>2, WordsOf
  <2> QED  BY <1>1, <1>2, <2>1
<1>4. stack[a0] = <<"u32", w, 0>>
  <2>1. stack[a0 + 0] = <<"u32", w, 0>>
    BY <1>1, <1>2
  <2> QED  BY <1>2, <2>1
<1> HIDE DEF a0, w
<1>5. \A x : Len(<<"u32", x, 0>>) = 3 /\ <<"u32", x, 0>>[2] = x
  BY SMT
<1>6. Len(stack[a0]) = 3 /\ stack[a0][2] = w
  BY <1>4, <1>5
<1>7. \A r \in 0 .. PTR - 1 : stack[a0 + r] = <<"u32", w, r>>
  BY <1>1 DEF a0
<1>8. IsWord(a0) /\ Word(a0) = w
  BY <1>3, <1>6, <1>7 DEF IsWord, Word
<1> QED  BY <1>8 DEF a0, w

\* The words that the start-up code looks for.
LEMMA WordsAre ==
    ASSUME NEW C, ArgvType(C), Laid
    PROVE  LET w == StackWords(argv, stack_entry)
               L == Len(argv)
           IN  /\ w[0 + 1] = L /\ w[1 + 1] = stack_entry + 3 * PTR
               /\ w[2 + 1] = stack_entry + (L + 4) * PTR
               /\ \A k \in 1 .. L : w[(k + 2) + 1] = StringPtrs(argv)[k]
               /\ w[(L + 3) + 1] = 0 /\ w[(L + 4) + 1] = 0
<1> DEFINE L == Len(argv)
           p == StringPtrs(argv)
           f == [k \in DOMAIN argv |-> p[k]]
           y == stack_entry + 3 * PTR
           z == stack_entry + (L + 4) * PTR
           w == StackWords(argv, stack_entry)
<1>1. L \in Nat /\ DOMAIN argv = 1 .. L /\ stack_entry \in Nat
  BY ArgvIs, PtrsOf DEF Laid
<1>2. f \in [1 .. L -> Int] /\ \A k \in 1 .. L : f[k] = p[k]
  <2>1. \A k \in 1 .. L : k \in 1 .. L + 1
    BY <1>1, SMT
  <2>2. p \in [1 .. L + 1 -> Int]
    BY PtrsOf
  <2> HIDE DEF p, L
  <2> QED  BY <1>1, <2>1, <2>2
<1>3. L \in Int /\ y \in Int /\ z \in Int
  BY <1>1, ArgSizes, SMT
<1>4. w = <<L, y, z>> \o f \o <<0, 0>>
  BY DEF StackWords
<1> HIDE DEF L, p, f, y, z, w
<1>5. /\ w[0 + 1] = L /\ w[1 + 1] = y /\ w[2 + 1] = z
      /\ \A k \in 1 .. L : w[(k + 2) + 1] = f[k]
      /\ w[(L + 3) + 1] = 0 /\ w[(L + 4) + 1] = 0
  <2>1. IsWordSeq(w, L, f, L, y, z)
    BY <1>1, <1>2, <1>3, <1>4, WordSeq
  <2> QED  BY <2>1 DEF IsWordSeq
<1> QED  BY <1>2, <1>5 DEF L, p, y, z, w

\* The start-up code finds the arguments in a stack like that.
LEMMA LaidFound ==
    ASSUME NEW C, "" \notin C, ArgvType(C), Laid
    PROVE  ArgvArrives
<1> DEFINE e == stack_entry
           L == Len(argv)
           w == StackWords(argv, e)
           p == StringPtrs(argv)
           P == PTR
           table == e + 3 * P
           envp == e + (L + 4) * P
<1>1. e \in Nat /\ STACK_TOP - PAGE <= e /\ L \in Nat /\ argv = [k \in 1 .. L |-> argv[k]]
  BY PtrsOf, ArgvIs DEF Laid
<1>2. e # 0
  BY <1>1, ArgSizes
<1>3. \A q \in 0 .. L + 4 : IsWord(e + q * P) /\ Word(e + q * P) = w[q + 1]
  BY WordFound
<1>4. /\ w[0 + 1] = L /\ w[1 + 1] = table /\ w[2 + 1] = envp
      /\ \A k \in 1 .. L : w[(k + 2) + 1] = p[k]
      /\ w[(L + 3) + 1] = 0 /\ w[(L + 4) + 1] = 0
  BY WordsAre
<1>5. \A k \in 1 .. L : IsString(p[k]) /\ StringAt(p[k]) = argv[k]
  BY StringFound
<1>6. /\ 0 \in 0 .. L + 4 /\ 1 \in 0 .. L + 4 /\ 2 \in 0 .. L + 4 /\ L + 3 \in 0 .. L + 4
      /\ L + 4 \in 0 .. L + 4 /\ L \in 0 .. L
      /\ \A k \in 0 .. 2 : k \in 0 .. L + 4
      /\ \A k \in 0 .. L : k + 3 \in 0 .. L + 4
      /\ \A k \in 1 .. L : k + 2 \in 0 .. L + 4 /\ k - 1 \in 0 .. L /\ (k - 1) + 3 = k + 2
      /\ \A k \in 0 .. L - 1 : k + 1 \in 1 .. L /\ (k + 1) - 1 = k
  BY <1>1, WordPlaces
<1>7. /\ e + 0 * P = e /\ e + 1 * P = e + P
      /\ \A k \in 0 .. L : table + k * P = e + (k + 3) * P
  <2>1. Table(e, P, L)
    BY <1>1, ArgSizes, TablePlaces
  <2> QED  BY <2>1 DEF Table
<1> HIDE DEF e, L, w, p, P, table, envp
<1>8. Word(e) = L /\ Word(e + P) = table /\ Word(e + 2 * P) = envp
  BY <1>3, <1>4, <1>6, <1>7
<1>9. \A k \in 0 .. 2 : IsWord(e + k * P)
  BY <1>3, <1>6
<1>10. \A k \in 0 .. L : IsWord(table + k * P) /\ Word(table + k * P) = w[(k + 3) + 1]
  BY <1>3, <1>6, <1>7
<1>11. \A k \in 1 .. L : Word(table + (k - 1) * P) = p[k]
  BY <1>4, <1>6, <1>10
<1>12. \A k \in 0 .. L - 1 : IsString(Word(table + k * P))
  <2> SUFFICES ASSUME NEW k \in 0 .. L - 1 PROVE IsString(Word(table + k * P))
    OBVIOUS
  <2>1. k + 1 \in 1 .. L /\ (k + 1) - 1 = k
    BY <1>6
  <2>2. Word(table + ((k + 1) - 1) * P) = p[k + 1] /\ IsString(p[k + 1])
    BY <1>5, <1>11, <2>1
  <2> QED  BY <2>1, <2>2
<1>13. Word(table + L * P) = 0
  BY <1>4, <1>6, <1>10
<1>14. IsWord(envp) /\ Word(envp) = 0
  BY <1>3, <1>4, <1>6 DEF envp
<1>15. ArgvFound
  BY <1>8, <1>9, <1>10, <1>12, <1>13, <1>14 DEF ArgvFound, e, P
<1>16. ArgsFound = argv
  <2>1. \A k \in 1 .. L : ArgPtr(k) = p[k]
    BY <1>8, <1>11 DEF ArgPtr, e, P
  <2>2. \A k \in 1 .. L : StringAt(ArgPtr(k)) = argv[k]
    BY <1>5, <2>1
  <2>3. ArgsFound = [k \in 1 .. L |-> StringAt(ArgPtr(k))]
    BY <1>8 DEF ArgsFound, e
  <2> QED  BY <1>1, <2>2, <2>3
<1> QED  BY <1>2, <1>15, <1>16 DEF ArgvArrives, e

=============================================================================
