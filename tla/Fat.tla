-------------------------------- MODULE Fat --------------------------------
(***************************************************************************)
(* The FAT16 file system of fs/fat.c on a disk of small clusters.  The     *)
(* disk has a file allocation table, directories (the root and those that  *)
(* occupy one cluster) and the bytes of the data clusters.  Every          *)
(* operation first reads and decides; what it then writes is a sequence of *)
(* writes to the disk, in the order of the code.                           *)
(*                                                                         *)
(* A path is a sequence of valid 8.3 names.  Both copies of the table get  *)
(* the same writes, so one is kept.                                        *)
(***************************************************************************)
EXTENDS Integers, SequencesExt

CONSTANTS
    Name,
    MAX_DEPTH,         \* components of a path
    LAST,              \* last entry of the table, sectors_per_fat * 256 - 1
    DISK_LAST,         \* last cluster that lies on the disk
    ROOT_SLOTS,        \* entries of the root directory
    DIR_SLOTS,         \* entries of a one-cluster directory
    SECTOR,            \* bytes of a sector
    SPC,               \* sec_per_clus
    MAX_FILE_BYTES,
    Payload            \* byte sequences that callers write

ASSUME FatAssumption ==
    /\ {MAX_DEPTH, ROOT_SLOTS, SECTOR, SPC} \subseteq Nat \ {0}
    /\ DIR_SLOTS \in Nat /\ DIR_SLOTS >= 2
    /\ LAST \in Nat /\ LAST >= 2 /\ DISK_LAST \in 2 .. LAST
    /\ MAX_FILE_BYTES \in Nat
    /\ Payload \subseteq Seq(Nat)

VARIABLES
    disk,              \* [fat, dir, data]
    ret,               \* what the last operation returned
    tree               \* what reading every path of the disk gives

Cluster == 2 .. LAST
Root == 0
EOC == 65535
BYTES == SECTOR * SPC  \* cluster_bytes

Path == UNION {[1 .. n -> Name] : n \in 1 .. MAX_DEPTH}

END == "0x00"          \* first byte of a directory entry never used
DELETED == "0xE5"

Entry(name, isdir, first, size) ==
    [name |-> name, dir |-> isdir, first |-> first, size |-> size]
Blank == Entry(END, FALSE, 0, 0)
Removed == Entry(DELETED, FALSE, 0, 0)   \* the rest of the entry is never read
Slots(d) == 1 .. IF d = Root THEN ROOT_SLOTS ELSE DIR_SLOTS

\* What tools/fat16_mkfs.py writes.
Init ==
    /\ disk = [fat |-> [c \in Cluster |-> 0],
               dir |-> [d \in {Root} \cup Cluster |-> [i \in Slots(d) |-> Blank]],
               data |-> [c \in Cluster |-> [b \in 0 .. BYTES - 1 |-> 0]]]
    /\ ret = "OK"
    /\ tree = [p \in {} |-> <<>>]

-----------------------------------------------------------------------------
(* Reading the disk *)

\* fat_entry, and what a walk along a chain makes of it.
Follow(dk) == [c \in {0, EOC} \cup Cluster |-> IF c \in Cluster THEN dk.fat[c] ELSE 0]

\* The clusters of the chain that starts at c.
Chain(dk, c) ==
    LET at[k \in 0 .. LAST] == IF k = 0 THEN c ELSE Follow(dk)[at[k - 1]]
    IN  [k \in 1 .. Cardinality({j \in 0 .. LAST : at[j] \in Cluster}) |-> at[k - 1]]

\* Mutant of FoundAt: the search also ends at a deleted entry.
FoundAt_Deleted(dk, d, name) ==
    {i \in Slots(d) : /\ dk.dir[d][i].name = name
                      /\ \A j \in 1 .. i - 1 : dk.dir[d][j].name \notin {END, DELETED, name}}

\* dir_find_in_region: the first entry of that name, up to the end mark.
FoundAt(dk, d, name) ==
    {i \in Slots(d) : /\ dk.dir[d][i].name = name
                      /\ \A j \in 1 .. i - 1 : dk.dir[d][j].name \notin {END, name}}

\* find_free_slot_in_region.
FreeAt(d) ==
    LET free == {i \in Slots(d) : disk.dir[d][i].name \in {END, DELETED}}
    IN  {i \in free : \A j \in free : i <= j}

\* resolve_parent_dir: the directory that holds the last component.
Resolved(err, d) == [err |-> err, dir |-> d]
ParentDir(dk, path) ==
    LET down[k \in 1 .. Len(path)] ==
            IF k = 1 THEN Resolved("OK", Root)
            ELSE LET up == down[k - 1]
                     at == IF up.err = "OK" THEN FoundAt(dk, up.dir, path[k - 1]) ELSE {}
                 IN  IF up.err # "OK" THEN up
                     ELSE IF at = {} THEN Resolved("NOT_FOUND", Root)
                     ELSE LET e == dk.dir[up.dir][CHOOSE i \in at : TRUE]
                          IN  IF e.dir /\ e.first >= 2 THEN Resolved("OK", e.first)
                              ELSE Resolved("INVALID", Root)
    IN  down[Len(path)]

\* Mutant of Free: the end of a chain passes for free.
Free_End == {c \in Cluster : disk.fat[c] \in {0, EOC}}

\* What fat_find_free and count_free_clusters look for.
Free == {c \in Cluster : disk.fat[c] = 0}

\* The clusters n calls of fat_find_free take; at most what is free.
FindFree(n) ==
    LET all == SetToSortSeq(Free, <) IN SubSeq(all, 1, IF n < Len(all) THEN n ELSE Len(all))

Ceil(x, y) == (x + y - 1) \div y

TooBig(size) == size > MAX_FILE_BYTES

-----------------------------------------------------------------------------
(* Writing the disk *)

SetFat(c, v) == [to |-> "fat", c |-> c, v |-> v]                 \* fat_set_entry
SetEntry(c, i, e) == [to |-> "dir", c |-> c, i |-> i, e |-> e]   \* dir_write_entry
ZeroCluster(c) == [to |-> "zero", c |-> c]
SetSector(c, s, bytes) == [to |-> "data", c |-> c, s |-> s, bytes |-> bytes]

\* One write; what goes to a cluster behind the end of the disk is lost.
Apply(dk, w) ==
    CASE w.to = "fat" -> [dk EXCEPT !.fat[w.c] = w.v]
      [] w.to # "fat" /\ w.c > DISK_LAST -> dk
      [] w.to = "dir" /\ w.c <= DISK_LAST -> [dk EXCEPT !.dir[w.c][w.i] = w.e]
      [] w.to = "zero" /\ w.c <= DISK_LAST ->
            [dk EXCEPT !.dir[w.c] = [i \in Slots(w.c) |-> Blank],
                       !.data[w.c] = [b \in 0 .. BYTES - 1 |-> 0]]
      [] w.to = "data" /\ w.c <= DISK_LAST ->
            [dk EXCEPT !.data[w.c] =
                [b \in 0 .. BYTES - 1 |-> IF b \div SECTOR = w.s
                                          THEN w.bytes[(b % SECTOR) + 1] ELSE @[b]]]

\* Mutant of FreeChain: only the first cluster is freed.
FreeChain_First(c) == [k \in 1 .. IF c = 0 THEN 0 ELSE 1 |-> SetFat(c, 0)]

\* free_chain.
FreeChain(c) == [k \in 1 .. Len(Chain(disk, c)) |-> SetFat(Chain(disk, c)[k], 0)]

\* The sectors of cluster number k of a file (from 0) that hold some of the
\* positions from .. to - 1, each written once.
Sectors(k, from, to) ==
    SetToSortSeq({s \in 0 .. SPC - 1 : LET p == k * BYTES + s * SECTOR
                                       IN  from < p + SECTOR /\ p < to}, <)

\* Mutant of Filled: what the sector held before is wiped.
Filled_Wipe(c, k, s, from, src, fresh) ==
    SetSector(c, s,
        [b \in 1 .. SECTOR |->
            LET p == k * BYTES + s * SECTOR + b - 1
            IN  IF from <= p /\ p < from + Len(src) THEN src[p - from + 1] ELSE 0])

\* A sector as written: src from position "from" of the file on, around it
\* what the sector held before or, in a fresh one, zeros.
Filled(c, k, s, from, src, fresh) ==
    SetSector(c, s,
        [b \in 1 .. SECTOR |->
            LET p == k * BYTES + s * SECTOR + b - 1
            IN  IF from <= p /\ p < from + Len(src) THEN src[p - from + 1]
                ELSE IF fresh THEN 0 ELSE disk.data[c][s * SECTOR + b - 1]])

FillCluster(c, k, from, src, fresh) ==
    LET ss == Sectors(k, from, from + Len(src))
    IN  [j \in 1 .. Len(ss) |-> Filled(c, k, ss[j], from, src, fresh)]

-----------------------------------------------------------------------------
(* The operations: what they return and what they write. *)

Result(code, writes) == [ret |-> code, writes |-> writes]
Error(code) == Result(code, <<>>)

\* Every operation on an existing entry: resolve_parent_dir, dir_find_in_ref.
WithEntry(path, Op(_, _, _)) ==
    LET p == ParentDir(disk, path)
        at == FoundAt(disk, p.dir, Last(path))
    IN  IF p.err # "OK" THEN Error(p.err)
        ELSE IF at = {} THEN Error("NOT_FOUND")
        ELSE LET i == CHOOSE i \in at : TRUE IN Op(p.dir, i, disk.dir[p.dir][i])

fat_create_file(path) ==
    LET p == ParentDir(disk, path)
    IN  IF p.err # "OK" THEN Error(p.err)
        ELSE IF FoundAt(disk, p.dir, Last(path)) # {} THEN Error("EXISTS")
        ELSE IF FreeAt(p.dir) = {} THEN Error("NO_SPACE")
        ELSE Result("OK", <<SetEntry(p.dir, CHOOSE i \in FreeAt(p.dir) : TRUE,
                                     Entry(Last(path), FALSE, 0, 0))>>)

\* Mutant of MkdirWrites: the directory is entered before it is made.
MkdirWrites_EntryFirst(d, i, name, c) ==
    <<SetFat(c, EOC), SetEntry(d, i, Entry(name, TRUE, c, 0)), ZeroCluster(c),
      SetEntry(c, 1, Entry(".", TRUE, c, 0)), SetEntry(c, 2, Entry("..", TRUE, d, 0))>>

MkdirWrites(d, i, name, c) ==
    <<SetFat(c, EOC), ZeroCluster(c), SetEntry(c, 1, Entry(".", TRUE, c, 0)),
      SetEntry(c, 2, Entry("..", TRUE, d, 0)), SetEntry(d, i, Entry(name, TRUE, c, 0))>>

fat_mkdir(path) ==
    LET p == ParentDir(disk, path)
    IN  IF p.err # "OK" THEN Error(p.err)
        ELSE IF FoundAt(disk, p.dir, Last(path)) # {} THEN Error("EXISTS")
        ELSE IF FreeAt(p.dir) = {} \/ Free = {} THEN Error("NO_SPACE")
        ELSE Result("OK", MkdirWrites(p.dir, CHOOSE i \in FreeAt(p.dir) : TRUE,
                                      Last(path), FindFree(1)[1]))

\* fat_write_file once the entry e, number i of directory d, is found: a new
\* chain is marked, linked and filled, the old one is freed, and the entry is
\* rewritten.  When clusters run out the marked ones are freed again.
WriteFile(d, i, e, src) ==
    LET len == Len(src)
        needed == Ceil(len, BYTES)
        new == FindFree(needed)
        mark == [k \in 1 .. Len(new) |-> SetFat(new[k], EOC)]
        unmark == [k \in 1 .. Len(new) |-> SetFat(new[k], 0)]
        link == [k \in 1 .. needed |-> SetFat(new[k], IF k < needed THEN new[k + 1] ELSE EOC)]
        fill == FlattenSeq([k \in 1 .. needed |-> FillCluster(new[k], k - 1, 0, src, TRUE)])
        entry == <<SetEntry(d, i, Entry(e.name, FALSE, IF len = 0 THEN 0 ELSE new[1], len))>>
    IN  IF TooBig(len) THEN Error("TOO_BIG")
        ELSE IF e.dir THEN Error("INVALID")
        ELSE IF len = 0 THEN Result("OK", FreeChain(e.first) \o entry)
        ELSE IF Len(new) < needed THEN Result("NO_SPACE", mark \o unmark)
        ELSE Result("OK", mark \o link \o fill \o FreeChain(e.first) \o entry)

fat_write_file(path, src) ==
    WithEntry(path, LAMBDA d, i, e : WriteFile(d, i, e, src))

\* The clusters a chain grows by, linked one after the other.
Extend(chain, new) ==
    FlattenSeq([k \in 1 .. Len(new) |->
        <<SetFat(IF k = 1 THEN Last(chain) ELSE new[k - 1], new[k]), SetFat(new[k], EOC)>>])

\* Overwriting and growing in place: the chain first, then the data, then the
\* size.
fat_write_file_at(path, offset, src) ==
    LET WriteAt(d, i, e) ==
          LET size == offset + Len(src)
              chain == Chain(disk, e.first)
              old == Ceil(e.size, BYTES)
              extra == IF Ceil(size, BYTES) > old THEN Ceil(size, BYTES) - old ELSE 0
              new == FindFree(extra)
              all == chain \o new
              lastk == (size - 1) \div BYTES
              fill == FlattenSeq([k \in 1 .. lastk + 1 |->
                                    FillCluster(all[k], k - 1, offset, src, FALSE)])
              entry == IF size > e.size THEN <<SetEntry(d, i, [e EXCEPT !.size = size])>>
                       ELSE <<>>
          IN  IF e.dir \/ offset > e.size THEN Error("INVALID")
              ELSE IF TooBig(size) THEN Error("TOO_BIG")
              ELSE IF e.first = 0
                   THEN IF offset # 0 THEN Error("INVALID") ELSE WriteFile(d, i, e, src)
              ELSE IF Len(new) < extra THEN Error("NO_SPACE")
              ELSE Result("OK", Extend(chain, new) \o fill \o entry)
    IN  IF Len(src) = 0 THEN Error("OK") ELSE WithEntry(path, WriteAt)

\* Appending: the rest of the last cluster, then cluster by cluster a link and
\* its data, then the size.
fat_append_file(path, src) ==
    LET AppendTo(d, i, e) ==
          LET size == e.size + Len(src)
              chain == Chain(disk, e.first)
              tail == IF e.size % BYTES = 0 THEN 0 ELSE BYTES - (e.size % BYTES)
              extra == IF Len(src) > tail THEN Ceil(Len(src) - tail, BYTES) ELSE 0
              new == FindFree(extra)
              first == e.size \div BYTES     \* the cluster that is written first
              link(k) == Extend(IF k = 1 THEN chain ELSE <<new[k - 1]>>, <<new[k]>>)
              intail == IF tail = 0 THEN <<>>
                        ELSE FillCluster(Last(chain), first, e.size, src, FALSE)
              number(k) == IF tail = 0 THEN first + k - 1 ELSE first + k
              grow == FlattenSeq([k \in 1 .. Len(new) |->
                         link(k) \o FillCluster(new[k], number(k), e.size, src,
                                                tail # 0 \/ k > 1)])
          IN  IF e.dir THEN Error("INVALID")
              ELSE IF Len(src) = 0 THEN Error("OK")
              ELSE IF TooBig(size) THEN Error("TOO_BIG")
              ELSE IF e.first = 0 THEN WriteFile(d, i, e, src)
              ELSE IF Len(new) < extra THEN Error("NO_SPACE")
              ELSE Result("OK", intail \o grow \o <<SetEntry(d, i, [e EXCEPT !.size = size])>>)
    IN  WithEntry(path, AppendTo)

fat_delete_file(path) ==
    WithEntry(path, LAMBDA d, i, e :
        IF e.dir THEN Error("INVALID")
        ELSE Result("OK", FreeChain(e.first) \o <<SetEntry(d, i, Removed)>>))

fat_rename_file(path, to) ==
    LET p == ParentDir(disk, path)
        q == ParentDir(disk, to)
    IN  IF p.err # "OK" THEN Error(p.err)
        ELSE IF q.err # "OK" THEN Error(q.err)
        ELSE IF p.dir # q.dir THEN Error("INVALID")
        ELSE WithEntry(path, LAMBDA d, i, e :
                IF FoundAt(disk, d, Last(to)) # {} THEN Error("EXISTS")
                ELSE IF e.dir THEN Error("INVALID")
                ELSE Result("OK", <<SetEntry(d, i, [e EXCEPT !.name = Last(to)])>>))

\* Mutant of EmptyDir: only the first entry after "." and ".." is looked at.
EmptyDir_First(c) == DIR_SLOTS = 2 \/ disk.dir[c][3].name \in {END, DELETED}

\* dir_cluster_is_empty.
EmptyDir(c) ==
    \A i \in Slots(c) :
        (\A j \in 1 .. i : disk.dir[c][j].name # END) =>
            disk.dir[c][i].name \in {DELETED, ".", ".."}

fat_rmdir(path) ==
    WithEntry(path, LAMBDA d, i, e :
        IF ~e.dir THEN Error("INVALID")
        ELSE IF ~EmptyDir(e.first) THEN Error("NO_SPACE")
        ELSE Result("OK", FreeChain(e.first) \o <<SetEntry(d, i, Removed)>>))

-----------------------------------------------------------------------------

\* Paths that lead somewhere, and the entry they lead to.
Leads(dk, path) == ParentDir(dk, path).err = "OK" /\ FoundAt(dk, ParentDir(dk, path).dir, Last(path)) # {}
EntryOf(dk, path) == LET d == ParentDir(dk, path).dir
                 IN  dk.dir[d][CHOOSE i \in FoundAt(dk, d, Last(path)) : TRUE]
Present(dk) == {p \in Path : Leads(dk, p)}

\* fat_read_file_at of the whole file.
Content(dk, e) ==
    LET chain == Chain(dk, e.first)
    IN  IF Len(chain) * BYTES < e.size THEN <<"unreadable">>
        ELSE [i \in 1 .. e.size |-> dk.data[chain[(i - 1) \div BYTES + 1]][(i - 1) % BYTES]]

Tree(dk) == [p \in Present(dk) |-> [dir |-> EntryOf(dk, p).dir,
                            data |-> IF EntryOf(dk, p).dir THEN <<>> ELSE Content(dk, EntryOf(dk, p))]]

Do(r) ==
    /\ ret' = r.ret
    /\ \E dk \in {FoldLeft(Apply, disk, r.writes)} : disk' = dk /\ tree' = Tree(dk)

Next ==
    \E p \in Path :
        \/ Do(fat_create_file(p)) \/ Do(fat_mkdir(p))
        \/ Do(fat_delete_file(p)) \/ Do(fat_rmdir(p))
        \/ \E q \in Path : Do(fat_rename_file(p, q))
        \/ \E src \in Payload :
              \/ Do(fat_write_file(p, src)) \/ Do(fat_append_file(p, src))
              \/ \E offset \in 0 .. MAX_FILE_BYTES : Do(fat_write_file_at(p, offset, src))

vars == <<disk, ret, tree>>

Spec == Init /\ [][Next]_vars

-----------------------------------------------------------------------------
(* Properties *)

\* The entries a walk of directory d sees.
Seen(d) == {i \in Slots(d) : /\ disk.dir[d][i].name # DELETED
                             /\ \A j \in 1 .. i : disk.dir[d][j].name # END}

\* The disk is a well-formed image.
TypeOK ==
    /\ disk.fat \in [Cluster -> {0, EOC} \cup Cluster]
    /\ \A d \in {Root} \cup Cluster : \A i \in Slots(d) :
          LET e == disk.dir[d][i] IN
          /\ e.name \in Name \cup {END, DELETED, ".", ".."}
          /\ e.first \in {0} \cup Cluster /\ e.size \in 0 .. MAX_FILE_BYTES

\* A file has exactly the clusters its size needs, and the last one is marked
\* as the end of the chain, so that append and overwrite find their place.
ChainFitsSize ==
    \A p \in Present(disk) :
        LET e == EntryOf(disk, p)
            chain == Chain(disk, e.first)
        IN  /\ Len(chain) = IF e.dir THEN 1 ELSE Ceil(e.size, BYTES)
            /\ chain # <<>> => disk.fat[Last(chain)] = EOC

\* The chains of two files or directories have no cluster in common, no chain
\* returns to itself, and every allocated cluster is in the chain of an entry:
\* writing, growing, truncating, deleting and failing half way neither
\* cross-links clusters nor loses them.  A chain is as long as the size of the
\* file needs and marked at its end.  (Variables have their types.)
ClustersOwnedOnce ==
    LET chain == [p \in Present(disk) |-> Chain(disk, EntryOf(disk, p).first)]
    IN  /\ TypeOK /\ ChainFitsSize
        /\ \A p \in DOMAIN chain : IsInjective(chain[p])
        /\ \A p, q \in DOMAIN chain : p # q => Range(chain[p]) \cap Range(chain[q]) = {}
        /\ UNION {Range(chain[p]) : p \in DOMAIN chain} = Cluster \ Free

\* A name occurs once in a directory, whatever slots were deleted and reused,
\* and a directory still knows itself and its parent.
DirectoriesSound ==
    LET Dirs == {p \in Present(disk) : EntryOf(disk, p).dir} IN
    /\ \A d \in {Root} \cup {EntryOf(disk, p).first : p \in Dirs} :
          \A i, j \in Seen(d) : disk.dir[d][i].name = disk.dir[d][j].name => i = j
    /\ \A p \in Dirs :
          LET c == EntryOf(disk, p).first
          IN  /\ disk.dir[c][1] = Entry(".", TRUE, c, 0)
              /\ disk.dir[c][2] = Entry("..", TRUE, ParentDir(disk, p).dir, 0)

\* Every cluster that a file or a directory holds lies on the disk.
OnDisk == \A p \in Present(disk) : Range(Chain(disk, EntryOf(disk, p).first)) \subseteq 2 .. DISK_LAST

\* A directory that is not removed because it still has entries is reported
\* with FAT_ERR_NOT_EMPTY, the code for which fs_rmdir says so.
RmdirSaysNotEmpty ==
    \A p \in Present(disk) :
        LET e == EntryOf(disk, p) IN e.dir /\ ~EmptyDir(e.first) => fat_rmdir(p).ret = "NOT_EMPTY"

\* Every operation of fat.c does what Files promises, byte by byte: it takes
\* effect completely or changes no file, and no operation shows bytes that a
\* deleted file left in its clusters.
F == INSTANCE Files WITH ret <- IF ret = "OK" THEN "ok" ELSE "failed"
ImplementsFiles == F!Spec

=============================================================================
