------------------------------ MODULE FatCrash ------------------------------
(***************************************************************************)
(* The operations of Fat write by write, and a machine that may lose its   *)
(* power between any two of them.  There is no journal and no recovery:    *)
(* what the disk holds when the power fails is what the next boot finds,   *)
(* and what all later operations work on.                                  *)
(***************************************************************************)
EXTENDS Fat

VARIABLES
    op,                \* the operation under way, or "none"
    target,            \* the paths it is about
    todo,              \* the writes it has still to do
    before,            \* what the paths read when it began
    up                 \* the machine has power

cvars == <<disk, ret, tree, op, target, todo, before, up>>

CInit == Init /\ op = "none" /\ target = {} /\ todo = <<>> /\ before = tree /\ up = TRUE

Begin(name, paths, r) ==
    /\ up /\ op = "none" /\ r.writes # <<>>
    /\ op' = name /\ target' = paths /\ todo' = r.writes /\ ret' = r.ret
    /\ UNCHANGED <<disk, tree, before, up>>

BeginSome ==
    \E p \in Path :
        \/ Begin("create", {p}, fat_create_file(p)) \/ Begin("mkdir", {p}, fat_mkdir(p))
        \/ Begin("delete", {p}, fat_delete_file(p)) \/ Begin("rmdir", {p}, fat_rmdir(p))
        \/ \E q \in Path : Begin("rename", {p, q}, fat_rename_file(p, q))
        \/ \E src \in Payload :
              \/ Begin("write", {p}, fat_write_file(p, src))
              \/ Begin("append", {p}, fat_append_file(p, src))
              \/ \E offset \in 0 .. MAX_FILE_BYTES :
                    Begin("write_at", {p}, fat_write_file_at(p, offset, src))

\* ata_write: the next write reaches the disk; after the last the operation
\* returns.
WriteOne ==
    /\ up /\ todo # <<>>
    /\ \E dk \in {Apply(disk, Head(todo))} : disk' = dk /\ tree' = Tree(dk)
    /\ todo' = Tail(todo)
    /\ IF todo' = <<>> THEN op' = "none" /\ target' = {} /\ before' = tree'
       ELSE UNCHANGED <<op, target, before>>
    /\ UNCHANGED <<ret, up>>

PowerFails ==
    /\ up /\ todo # <<>>
    /\ up' = FALSE /\ todo' = <<>>
    /\ UNCHANGED <<disk, ret, tree, op, target, before>>

\* kernel_main, fs_init: nothing is repaired.  Deleting and replacing free
\* clusters before the entry stops leading to them, and growing links clusters
\* before the entry counts them: a disk that the failure left in that state is
\* not followed further.
Boot ==
    /\ ~up /\ ChainFitsSize
    /\ up' = TRUE /\ op' = "none" /\ target' = {} /\ before' = tree
    /\ UNCHANGED <<disk, ret, tree, todo>>

CNext == BeginSome \/ WriteOne \/ PowerFails \/ Boot

CSpec == CInit /\ [][CNext]_cvars

-----------------------------------------------------------------------------

\* At no moment of an operation, and so at no power failure, is a file or a
\* directory other than the operation's own changed, lost or invented; this
\* goes on for all later operations.
OthersUntouched ==
    \A p \in Path \ target :
        /\ p \in DOMAIN tree <=> p \in DOMAIN before
        /\ p \in DOMAIN tree => tree[p] = before[p]

\* Creating, making a directory, renaming and appending show nothing of their
\* work before their last write, the directory entry: a power failure leaves
\* the whole tree as it was.
EntryCommits ==
    op \in {"create", "mkdir", "rename", "append"} => tree = before

\* A power failure that leaves every chain as long as its entry says never
\* cross-links clusters, neither at once nor through what later operations
\* allocate: at worst clusters are lost.
NoCrossLinks ==
    \A p, q \in Present(disk) :
        p # q => Range(Chain(disk, EntryOf(disk, p).first))
                     \cap Range(Chain(disk, EntryOf(disk, q).first)) = {}

\* An operation that completes has done what Files promises, also on a disk
\* on which earlier ones were cut short and left lost clusters behind.
Promised == INSTANCE Files WITH tree <- before, ret <- IF ret = "OK" THEN "ok" ELSE "failed"
CompletesAsPromised == [][up' /\ todo # <<>> /\ todo' = <<>> => Promised!Next]_cvars

=============================================================================
