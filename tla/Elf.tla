-------------------------------- MODULE Elf --------------------------------
(***************************************************************************)
(* The ELF loader: elf/elf.c checks the headers, user_map_elf_segments     *)
(* (cpu/user_mode.c) maps the segments page by page.  Addresses, offsets   *)
(* and sizes are words and wrap around.  Byte number j of the file has the *)
(* value j + 1, so that a zero byte is one the file did not provide.       *)
(***************************************************************************)
EXTENDS Integers, Sequences

CONSTANTS
    WORD,              \* 2^32
    PAGE,              \* ELF_PAGE_SIZE, FRAME_SIZE
    STACK_TOP,         \* USER_STACK_TOP
    MAX_FRAMES,        \* USER_MAX_ELF_FRAMES
    MAX_REGIONS,       \* USER_MAX_ELF_REGIONS, one of them for the stack
    LEN                \* bytes of the file

ASSUME ElfAssumption ==
    /\ {WORD, PAGE, STACK_TOP, MAX_FRAMES, MAX_REGIONS, LEN} \subseteq Nat \ {0}
    /\ WORD % PAGE = 0 /\ STACK_TOP % PAGE = 0 /\ STACK_TOP \in PAGE .. WORD - 1

VARIABLES
    headers, e_entry,  \* the file
    i, va,             \* segment and page under way
    pages,             \* page address -> bytes
    frames, regions,   \* elf_frame_count, elf_region_count
    pc

vars == <<headers, e_entry, i, va, pages, frames, regions, pc>>
file == <<headers, e_entry>>

Add(x, y) == (x + y) % WORD
page_down(x) == x - (x % PAGE)
page_up(x) == page_down(Add(x, PAGE - 1))

\* Elf32_Phdr, as far as the loader reads it.
Header == [load : BOOLEAN, exec : BOOLEAN, write : BOOLEAN, offset : 0 .. WORD - 1,
           vaddr : 0 .. WORD - 1, filesz : 0 .. WORD - 1, memsz : 0 .. WORD - 1]

Loads == {k \in DOMAIN headers : headers[k].load}

\* The loader, about to load the file with these headers.
Init ==
    /\ e_entry \in {Add(p.vaddr, d) : p \in {headers[k] : k \in DOMAIN headers}, d \in {0, 1}}
    /\ i = 1 /\ va = 0 /\ pages = [v \in {} |-> <<>>]
    /\ frames = 0 /\ regions = 0 /\ pc = "headers"

-----------------------------------------------------------------------------

\* elf32_program_headers_ok for one PT_LOAD header.
HeaderOk(p) ==
    /\ p.filesz <= p.memsz
    /\ Add(p.offset, p.filesz) >= p.offset /\ Add(p.offset, p.filesz) <= LEN
    /\ p.memsz # 0 /\ p.vaddr # 0
    /\ Add(p.vaddr, p.memsz) >= p.vaddr

\* elf_entry_in_executable_segment.
EntryOk ==
    \E k \in Loads : LET p == headers[k] IN
        p.exec /\ p.vaddr <= e_entry /\ e_entry < Add(p.vaddr, p.memsz)

CheckHeaders ==
    /\ pc = "headers"
    /\ pc' = IF (\A k \in Loads : HeaderOk(headers[k])) /\ EntryOk THEN "segment" ELSE "failed"
    /\ UNCHANGED <<file, i, va, pages, frames, regions>>

\* Mutants of RangeOk: the rounded end may wrap around; the end of the segment
\* may lie in the stack.
RangeOk_Wrap(p) ==
    LET end == Add(p.vaddr, p.memsz)
    IN  end >= p.vaddr /\ ~(p.vaddr < STACK_TOP /\ end > STACK_TOP - PAGE)
RangeOk_Start(p) ==
    LET end == Add(p.vaddr, p.memsz)
    IN  end >= p.vaddr /\ page_up(end) >= p.vaddr /\ page_down(p.vaddr) # STACK_TOP - PAGE

\* elf_segment_range_ok.
RangeOk(p) ==
    LET end == Add(p.vaddr, p.memsz)
    IN  /\ p.memsz # 0 /\ p.filesz <= p.memsz
        /\ end >= p.vaddr /\ page_up(end) >= p.vaddr
        /\ ~(p.vaddr < STACK_TOP /\ end > STACK_TOP - PAGE)

\* user_map_elf_segments: the next header.
NextSegment ==
    /\ pc = "segment" /\ i <= Len(headers)
    /\ LET p == headers[i] IN
       IF ~p.load THEN i' = i + 1 /\ UNCHANGED <<va, pc>>
       ELSE IF ~RangeOk(p) THEN pc' = "failed" /\ UNCHANGED <<i, va>>
       ELSE pc' = "page" /\ va' = page_down(p.vaddr) /\ UNCHANGED i
    /\ UNCHANGED <<file, pages, frames, regions>>

\* Mutant of CopyEnd: the part behind the bytes from the file is copied too.
CopyEnd_Memsz(v, p) ==
    LET end == Add(p.vaddr, p.memsz) IN IF v + PAGE < end THEN v + PAGE ELSE end

\* copy_start and copy_end of elf_fill_page_frame.
CopyStart(v, p) == IF v > p.vaddr THEN v ELSE p.vaddr
CopyEnd(v, p) ==
    LET end == Add(p.vaddr, p.filesz) IN IF Add(v, PAGE) < end THEN Add(v, PAGE) ELSE end

\* elf_fill_page_frame: whether it succeeds, and the bytes of the page at v.
elf_fill_page_frame(v, p) ==
    LET start == CopyStart(v, p)
        end == CopyEnd(v, p)
        off == Add(p.offset, start - p.vaddr)
    IN  [ok |-> /\ Add(p.vaddr, p.filesz) >= p.vaddr /\ Add(v, PAGE) >= v
                /\ start < end => Add(off, end - start) >= off /\ Add(off, end - start) <= LEN,
         bytes |-> [b \in 0 .. PAGE - 1 |->
             IF start <= v + b /\ v + b < end THEN off + (v + b - start) + 1 ELSE 0]]

\* Mutant of EndPage: the page that the segment ends in is left out.
EndPage_Down(p) == page_down(Add(p.vaddr, p.memsz))

EndPage(p) == page_up(Add(p.vaddr, p.memsz))

TooMany == frames >= MAX_FRAMES

\* elf_map_segment: one page; or failure, also when alloc_frame or
\* address_space_map_page fails (NoFrame; see Memory); or the end of the
\* segment and its region.
MapPage ==
    LET p == headers[i]
        r == elf_fill_page_frame(va, p)
    IN
    /\ pc = "page" /\ va < EndPage(p)
    /\ IF TooMany \/ ~r.ok THEN pc' = "failed" /\ UNCHANGED <<va, pages, frames>>
       ELSE /\ pages' = [v \in DOMAIN pages \cup {va} |-> IF v = va THEN r.bytes ELSE pages[v]]
            /\ frames' = frames + 1 /\ va' = Add(va, PAGE) /\ UNCHANGED pc
    /\ UNCHANGED <<file, i, regions>>

NoFrame ==
    /\ pc = "page" /\ va < EndPage(headers[i]) /\ ~TooMany
    /\ pc' = "failed" /\ UNCHANGED <<file, i, va, pages, frames, regions>>

EndSegment ==
    /\ pc = "page" /\ va >= EndPage(headers[i])
    /\ IF regions >= MAX_REGIONS THEN pc' = "failed" /\ UNCHANGED <<i, regions>>
       ELSE pc' = "segment" /\ i' = i + 1 /\ regions' = regions + 1
    /\ UNCHANGED <<file, va, pages, frames>>

\* The stack gets the last region.
Finish ==
    /\ pc = "segment" /\ i > Len(headers)
    /\ IF regions = 0 \/ regions >= MAX_REGIONS THEN pc' = "failed" /\ UNCHANGED regions
       ELSE pc' = "loaded" /\ regions' = regions + 1
    /\ UNCHANGED <<file, i, va, pages, frames>>

Next == CheckHeaders \/ NextSegment \/ MapPage \/ NoFrame \/ EndSegment \/ Finish

-----------------------------------------------------------------------------

\* Every variable has its type, and the arrays of the process are not overrun.
TypeOK ==
    /\ i \in 1 .. Len(headers) + 1 /\ va \in 0 .. WORD - 1
    /\ frames \in 0 .. MAX_FRAMES /\ regions \in 0 .. MAX_REGIONS
    /\ pc \in {"headers", "segment", "page", "image", "loaded", "failed"}

\* The addresses of a segment, counted without wrapping around.
Addresses(p) == p.vaddr .. p.vaddr + p.memsz - 1
PagesOf(p) == {page_down(a) : a \in Addresses(p)}

\* What the segment puts at its address a: a byte of the file, or zero.
ByteAt(p, a) == IF a - p.vaddr < p.filesz THEN p.offset + (a - p.vaddr) + 1 ELSE 0

\* In a program that is started, every address of every segment is mapped and
\* holds the byte that user_map_elf_segments owes it, although segments begin
\* and end inside pages and words wrap around; unless a later segment has a
\* share in the page, whose frame then replaces this one.
LoadedAsLinked ==
    pc = "loaded" => \A k \in Loads : \A a \in Addresses(headers[k]) :
        /\ a < WORD /\ page_down(a) \in DOMAIN pages
        /\ (\A m \in Loads : m > k => page_down(a) \notin PagesOf(headers[m])) =>
              pages[page_down(a)][a % PAGE] = ByteAt(headers[k], a)

\* A byte other than zero in a page is at every time one that a segment puts
\* there: elf_fill_page_frame copies nothing from beside the segment or from
\* behind the file, and leaves nothing of the frame's former use.
NothingElse ==
    \A v \in DOMAIN pages : \A b \in 0 .. PAGE - 1 :
        pages[v][b] # 0 =>
            /\ pages[v][b] <= LEN
            /\ \E k \in Loads : v + b \in Addresses(headers[k]) /\ pages[v][b] = ByteAt(headers[k], v + b)

\* elf_map_segment never maps the page of the stack, although it rounds the
\* segment to pages and elf_segment_range_ok compares bytes.  (Variables have
\* their types.)
StackApart == TypeOK /\ (STACK_TOP - PAGE) \notin DOMAIN pages

=============================================================================
