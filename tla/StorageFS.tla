------------------------------ MODULE StorageFS ------------------------------
(***************************************************************************)
(* The contract the registry relies on from a storage driver: a tree of    *)
(* paths, each absent, a directory, or a file with some content, changed   *)
(* atomically by PutContent, Delete and Move.  A file write creates the    *)
(* missing directories above it; a delete removes a whole subtree; a move  *)
(* relocates the subtree of the source over the (first removed) subtree of *)
(* the destination.  PlusFiles is checked to implement this specification. *)
(***************************************************************************)
EXTENDS Sequences, SequencesExt

CONSTANTS
    Paths,          \* the non-root paths (sequences of names)
    PutPaths,       \* paths the registry writes files to
    PutContents,    \* contents it writes
    DeletePaths,    \* paths it deletes
    MovePairs,      \* <<source, destination>> pairs it moves
    Absent,         \* no file or directory at this path
    Directory       \* a directory at this path

VARIABLE fs

Ancestors(p) == { SubSeq(p, 1, k) : k \in 1 .. Len(p) - 1 }

\* f with every ancestor of p made a directory
WithParents(f, p) ==
    [q \in Paths |-> IF q \in Ancestors(p) THEN Directory ELSE f[q]]

TypeOK == fs \in [Paths -> PutContents \cup {Absent, Directory}]

Init == fs = [p \in Paths |-> Absent]

\* the tree f after each operation
AfterPut(f, p, c) ==
    WithParents([q \in Paths |-> IF q = p THEN c
                                 ELSE IF IsStrictPrefix(p, q) THEN Absent
                                 ELSE f[q]], p)

AfterDelete(f, p) == [q \in Paths |-> IF IsPrefix(p, q) THEN Absent ELSE f[q]]

\* where q ends up when the subtree at s is moved to d (MovePairs keeps depth)
Relocated(s, d, q) == s \o SubSeq(q, Len(d) + 1, Len(q))

AfterMove(f, s, d) ==
    WithParents([q \in Paths |->
        IF IsPrefix(d, q) THEN f[Relocated(s, d, q)]
        ELSE IF IsPrefix(s, q) THEN Absent
        ELSE f[q]], d)

PutContent(p, c) == fs' = AfterPut(fs, p, c)

Delete(p) == fs' = AfterDelete(fs, p)

Move(s, d) == fs[s] # Absent /\ fs' = AfterMove(fs, s, d)

Next ==
    \/ \E p \in PutPaths, c \in PutContents : PutContent(p, c)
    \/ \E p \in DeletePaths : Delete(p)
    \/ \E m \in MovePairs : Move(m[1], m[2])

Spec == Init /\ [][Next]_fs
=============================================================================
