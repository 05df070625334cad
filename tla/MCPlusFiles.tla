----------------------------- MODULE MCPlusFiles -----------------------------
(***************************************************************************)
(* Model values and bounds for PlusFiles, and the refinement mapping that  *)
(* shows PlusFiles, with one request at a time, implements StorageFS.      *)
(***************************************************************************)
EXTENDS PlusFiles, TLC

CONSTANTS a, b, x, y, l1, l2, l3, c1, c2, Directory

MCNames == {a, b}
MCData == {x, y}
MCLocations == {l1, l2, l3}
MCLocations2 == {l1, l2}
MCClients1 == {c1}
MCClients2 == {c1, c2}

\* files live at depth 3, directories above them, as in the registry's layout
MCPutPaths == {<<a, a, a>>, <<a, b, a>>}
MCGetPaths == MCPutPaths
MCDeletePaths == {<<a>>, <<a, a>>, <<a, a, a>>}
MCMovePairs == {<<<<a, a, a>>, <<b, a, a>>>>, <<<<a, a, a>>, <<a, b, a>>>>}
\* an empty, an inline and a large content (MaxInlineSizeBytes = 1)
MCPutContents == {<<>>, <<x>>, <<x, y>>}

\* the moves the registry never makes: onto the source itself
MCSelfMovePairs == MCMovePairs \cup {<<<<a, a, a>>, <<a, a, a>>>>}

-----------------------------------------------------------------------------
(* Refinement mapping (one client): the tree a reader sees, with the       *)
(* request in flight counted as done from its first statement on          *)

TheClient == CHOOSE c \in Clients : TRUE

View == [p \in Paths |->
            IF files[p] = NoRow THEN NoRow
            ELSE IF IsDir(files[p]) THEN Directory
            ELSE ReadContent(files[p])]

\* the contract's operators on trees (they do not depend on its variable)
Tree == INSTANCE StorageFS WITH fs <- View, Absent <- NoRow

AbsFS ==
    LET c == TheClient
        r == req[c]
    IN
    IF pc[c] = "idle" THEN View
    ELSE CASE r.op = "put" -> Tree!AfterPut(View, r.path, r.data)
           [] r.op = "delete" -> Tree!AfterDelete(View, r.path)
           [] r.op = "move" /\ pc[c] # "mkdir" -> Tree!AfterMove(View, r.path, r.dst)
           [] r.op = "move" -> Tree!WithParents(View, r.dst)
           [] OTHER -> View

FS == INSTANCE StorageFS WITH fs <- AbsFS, Absent <- NoRow

\* PlusFiles, one request at a time, implements the StorageFS contract
RefinesStorageFS == FS!Spec
=============================================================================
