------------------------------- MODULE Files -------------------------------
(***************************************************************************)
(* What the file system promises its callers, with no disk in sight: a     *)
(* tree of directories and files, and operations that either take effect   *)
(* completely or fail and change nothing.  An operation that needs room    *)
(* may fail at any time.                                                   *)
(***************************************************************************)
EXTENDS Integers, Sequences

CONSTANTS
    Path,              \* non-empty sequences of names
    Payload,           \* what callers write: sequences of bytes
    MAX_FILE_BYTES

VARIABLES
    tree,              \* path -> directory or file with its bytes
    ret                \* result of the last operation

Parent(p) == SubSeq(p, 1, Len(p) - 1)
Exists(p) == p \in DOMAIN tree
IsDir(p) == p = <<>> \/ (Exists(p) /\ tree[p].dir)
IsFile(p) == Exists(p) /\ ~tree[p].dir
IsEmpty(p) == \A q \in DOMAIN tree : Parent(q) # p

File(bytes) == [dir |-> FALSE, data |-> bytes]
Directory == [dir |-> TRUE, data |-> <<>>]

Put(p, node) == [q \in DOMAIN tree \cup {p} |-> IF q = p THEN node ELSE tree[q]]
Without(p) == [q \in DOMAIN tree \ {p} |-> tree[q]]

\* bytes with src written over them from offset on.
Overlay(bytes, offset, src) ==
    LET end == offset + Len(src)
    IN  [i \in 1 .. IF end > Len(bytes) THEN end ELSE Len(bytes) |->
            IF offset < i /\ i <= end THEN src[i - offset] ELSE bytes[i]]

Init == tree = [p \in {} |-> Directory] /\ ret = "ok"

Succeed(t) == tree' = t /\ ret' = "ok"
Fail == UNCHANGED tree /\ ret' = "failed"

Create(p) == \/ IsDir(Parent(p)) /\ ~Exists(p) /\ Succeed(Put(p, File(<<>>)))
             \/ Fail

Mkdir(p) == \/ IsDir(Parent(p)) /\ ~Exists(p) /\ Succeed(Put(p, Directory))
            \/ Fail

\* Writing fails for want of room only if there is something to write.
NeedsRoom(src) == src # <<>> /\ Fail

Write(p, src) ==
    IF IsFile(p) /\ Len(src) <= MAX_FILE_BYTES
    THEN Succeed(Put(p, File(src))) \/ NeedsRoom(src)
    ELSE Fail

\* Writing may not leave a hole behind the end of the file.
WriteAt(p, offset, src) ==
    IF src = <<>> THEN Succeed(tree)
    ELSE IF /\ IsFile(p) /\ offset <= Len(tree[p].data)
            /\ offset + Len(src) <= MAX_FILE_BYTES
    THEN Succeed(Put(p, File(Overlay(tree[p].data, offset, src)))) \/ NeedsRoom(src)
    ELSE Fail

Append_(p, src) ==
    IF IsFile(p) /\ (src = <<>> \/ Len(tree[p].data) + Len(src) <= MAX_FILE_BYTES)
    THEN Succeed(Put(p, File(tree[p].data \o src))) \/ NeedsRoom(src)
    ELSE Fail

Delete(p) == IF IsFile(p) THEN Succeed(Without(p)) ELSE Fail

Rename(p, q) ==
    IF Parent(p) = Parent(q) /\ IsFile(p) /\ ~Exists(q)
    THEN Succeed([r \in (DOMAIN tree \ {p}) \cup {q} |-> IF r = q THEN tree[p] ELSE tree[r]])
    ELSE Fail

Rmdir(p) == IF Exists(p) /\ IsDir(p) /\ IsEmpty(p) THEN Succeed(Without(p)) ELSE Fail

Next ==
    \E p \in Path :
        \/ Create(p) \/ Mkdir(p) \/ Delete(p) \/ Rmdir(p)
        \/ \E q \in Path : Rename(p, q)
        \/ \E src \in Payload :
              Write(p, src) \/ Append_(p, src)
              \/ \E offset \in 0 .. MAX_FILE_BYTES : WriteAt(p, offset, src)

Spec == Init /\ [][Next]_<<tree, ret>>

=============================================================================
