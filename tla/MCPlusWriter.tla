----------------------------- MODULE MCPlusWriter -----------------------------
(***************************************************************************)
(* Model values and bounds for PlusWriter.                                 *)
(***************************************************************************)
EXTENDS PlusWriter, TLC

CONSTANTS a, b, x, y, l1, l2, l3, c1, c2

MCNames == {a, b}
MCNames1 == {a}
MCData == {x, y}
MCLocations == {l1, l2, l3}
MCLocations2 == {l1, l2}
MCLocations1 == {l1}
MCClients1 == {c1}
MCClients2 == {c1, c2}

\* the registry writes blobs at depth 3
MCWriterPaths == {<<a, a, a>>}
\* a shallower tree for the runs with failures: one directory above the file
MCWriterPaths2 == {<<a, a>>}
\* with ChunkSize 1: a write that fits the buffer, and one larger (passed through
\* when the buffer is empty, split across a flush when it is not)
MCWriteData == {<<x>>, <<y, y>>}
\* the same lengths over one byte value (segments differ by their length)
MCNoPaths == {}
MCNoMoves == {}
\* PutContent of an inline and of a large content on the writer's path
MCPutContents == {<<x>>, <<x, y>>}
\* the writer's file is moved to a sibling
MCMovePairs == {<<<<a, a, a>>, <<a, b, a>>>>}
=============================================================================
