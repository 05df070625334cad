------------------------------ MODULE PlusFiles ------------------------------
(***************************************************************************)
(* The swift-plus storage driver (plusDriver): the `files` table of the    *)
(* Postgres database, keyed by (dirname, basename), and the objects in     *)
(* Swift, both shared by concurrent requests.  Every SQL statement and     *)
(* every Swift call is one atomic step; a handler is the sequence of its   *)
(* statements, so requests of different clients interleave between them.  *)
(* A path is a sequence of names; the key (dirname, basename) of path p is *)
(* (Front(p), Last(p)), so the table is a function of the path.            *)
(***************************************************************************)
EXTENDS Integers, Sequences, SequencesExt, FiniteSets

CONSTANTS
    Names,              \* path components
    MaxDepth,           \* longest path
    Data,               \* byte values
    MaxInlineSizeBytes, \* maxInlineSizeBytes (256 in the code)
    Locations,          \* the values plusRandLocation can return
    MaxSegments,        \* highest segment number an object can have
    Clients,            \* concurrent requests
    GetPaths, PutPaths, PutContents, DeletePaths, MovePairs,  \* request inputs
    FailuresEnabled,    \* may a statement fail (error, cancelled ctx, crash)?
    NoRow, NoLoc, NoObj, NotFound, NoRet

VARIABLES
    files,      \* the `files` table: path -> fileInfo or NoRow
    swift,      \* Swift: location -> object name -> object or NoObj
    usedLocs,   \* locations plusRandLocation has returned so far
    pc,         \* per client: the statement it executes next
    req,        \* per client: the request being served
    fi,         \* per client: the fileInfo local of the handler
    stack,      \* per client: the frames of the deleteDownwards recursion
    mk,         \* per client: the fullPath argument of mkdirAll
    ret         \* per client: what the last GetContent returned

fileVars == <<files, swift, usedLocs>>
clientVars == <<pc, req, fi, stack, mk, ret>>
vars == <<fileVars, clientVars>>

Root == <<>>
Paths == UNION { [1 .. k -> Names] : k \in 1 .. MaxDepth }
\* the object names under a location: <location>/content is ContentObj, and
\* segment n (named %016d) is n, numbered from 1
ContentObj == 0
ObjNames == {ContentObj} \cup 1 .. MaxSegments

\* path.Dir
DirName(p) == Front(p)

\* `SELECT ... FROM files WHERE dirname = $1`
Children(p) == { k \in Paths : Len(k) = Len(p) + 1 /\ DirName(k) = p /\ files[k] # NoRow }

\* fileInfo; SizeBytes < 0 marks a directory
FileInfo == [size : Int, content : Seq(Data), loc : Locations \cup {NoLoc}]
DirInfo == [size |-> -1, content |-> <<>>, loc |-> NoLoc]
IsDir(r) == r.size < 0

\* a Swift object: plain bytes, or a Static Large Object manifest written by
\* swift.WriteSLO listing segment numbers with the hashes they had
Object(d) == [kind |-> "object", data |-> d]
Objects == [kind : {"object"}, data : Seq(Data)]
Manifest == [kind : {"slo"}, segs : Seq([number : Nat, hash : Seq(Data)])]
NoObjects == [n \in ObjNames |-> NoObj]

\* GET of <location>/content from Swift: a plain object, or the
\* concatenation of the segments of a manifest (a segment missing or with
\* another hash than the manifest recorded fails the read)
SwiftContent(l) ==
    LET o == swift[l][ContentObj] IN
    IF o = NoObj THEN NotFound
    ELSE IF o.kind = "slo"
         THEN IF \A i \in DOMAIN o.segs : swift[l][o.segs[i].number] = Object(o.segs[i].hash)
              THEN FlattenSeq([i \in DOMAIN o.segs |-> o.segs[i].hash])
              ELSE NotFound
         ELSE o.data

\* what GetContent returns for an existing file record
ReadContent(r) ==
    IF r.size = 0 THEN <<>>
    ELSE IF Len(r.content) > 0 THEN r.content
    ELSE SwiftContent(r.loc)

\* Stat: "/" is answered without a query
Stat(p) == IF p = Root THEN DirInfo
           ELSE IF files[p] = NoRow THEN NotFound ELSE files[p]

\* List: the full paths of the rows whose dirname is p
List(p) == { p \o <<Last(k)>> : k \in Children(p) }

\* mutant: deleteDownwards without the recursion into a directory's children
FrameNoRecursion(k, r) ==
    [key |-> k, fi |-> r, kids |-> {}, phase |-> IF r.loc # NoLoc THEN "blobs" ELSE "row"]

\* a frame of deleteDownwards(fi): the row as read, what it does next, and
\* the children rows its scan returned that it has not recursed into yet
Frame(k, r) ==
    [key |-> k, fi |-> r, kids |-> {},
     phase |-> IF r.loc # NoLoc THEN "blobs" ELSE IF IsDir(r) THEN "scan" ELSE "row"]

Request(op, p, d, data) == [op |-> op, path |-> p, dst |-> d, data |-> data]

Top(c) == Last(stack[c])
SetTop(c, f) == stack' = [stack EXCEPT ![c] = Front(@) \o <<f>>]

\* a handler returns: the client is idle with its locals cleared
Return(c) ==
    /\ pc' = [pc EXCEPT ![c] = "idle"]
    /\ fi' = [fi EXCEPT ![c] = NoRow]
    /\ stack' = [stack EXCEPT ![c] = <<>>]
    /\ mk' = [mk EXCEPT ![c] = Root]

\* mkdirAll(p) after a statement: returns at once for "/"
MkdirAllThen(c, p, next) ==
    IF p = Root THEN pc' = [pc EXCEPT ![c] = next] /\ UNCHANGED mk
    ELSE pc' = [pc EXCEPT ![c] = "mkdir"] /\ mk' = [mk EXCEPT ![c] = p]

\* mutant: PutContent returns before uploading a large content
AfterMkdirNoUpload(c) == "idle"

\* where a handler continues once mkdirAll has returned (a writer's Commit
\* and Close are in PlusWriter)
AfterMkdir(c) ==
    CASE req[c].op = "put" /\ fi[c].loc # NoLoc -> "put_upload"
      [] req[c].op \in {"commit", "close"}      -> "w_committed"
      [] OTHER                                  -> "idle"

\* where a handler continues once deleteDownwards has returned (a writer
\* opened without append deletes the old file first)
AfterDelete(c) ==
    CASE req[c].op = "move"  -> "move_update"
      [] req[c].op = "wopen" -> "w_open"
      [] OTHER               -> "idle"

-----------------------------------------------------------------------------
(* mkdirAll: one INSERT ... ON CONFLICT DO NOTHING per ancestor, bottom up *)

\* mutant: mkdirAll inserts the parent but does not recurse above it
MkdirStepNoRecursion(c) ==
    LET p == mk[c] IN
    /\ pc[c] = "mkdir"
    /\ files' = IF files[p] = NoRow THEN [files EXCEPT ![p] = DirInfo] ELSE files
    /\ pc' = [pc EXCEPT ![c] = AfterMkdir(c)]
    /\ mk' = [mk EXCEPT ![c] = Root]
    /\ fi' = IF AfterMkdir(c) = "idle" THEN [fi EXCEPT ![c] = NoRow] ELSE fi
    /\ UNCHANGED <<swift, usedLocs, req, stack, ret>>

\* mutant: mkdirAll recurses on its own argument instead of its parent
MkdirStepSameDir(c) ==
    LET p == mk[c] IN
    /\ pc[c] = "mkdir"
    /\ files' = IF files[p] = NoRow THEN [files EXCEPT ![p] = DirInfo] ELSE files
    /\ IF Len(p) = 1
       THEN /\ pc' = [pc EXCEPT ![c] = AfterMkdir(c)]
            /\ mk' = [mk EXCEPT ![c] = Root]
            /\ fi' = IF AfterMkdir(c) = "idle" THEN [fi EXCEPT ![c] = NoRow] ELSE fi
       ELSE /\ mk' = [mk EXCEPT ![c] = p]
            /\ UNCHANGED <<pc, fi>>
    /\ UNCHANGED <<swift, usedLocs, req, stack, ret>>

MkdirStep(c) ==
    LET p == mk[c] IN
    /\ pc[c] = "mkdir"
    /\ files' = IF files[p] = NoRow THEN [files EXCEPT ![p] = DirInfo] ELSE files
    /\ IF Len(p) = 1
       THEN /\ pc' = [pc EXCEPT ![c] = AfterMkdir(c)]
            /\ mk' = [mk EXCEPT ![c] = Root]
            /\ fi' = IF AfterMkdir(c) = "idle" THEN [fi EXCEPT ![c] = NoRow] ELSE fi
       ELSE /\ mk' = [mk EXCEPT ![c] = DirName(p)]
            /\ UNCHANGED <<pc, fi>>
    /\ UNCHANGED <<swift, usedLocs, req, stack, ret>>

-----------------------------------------------------------------------------
(* GetContent: read the row, then (for large files) the object in Swift   *)

GetRead(c, p) ==
    LET r == files[p] IN
    /\ pc[c] = "idle"
    /\ req' = [req EXCEPT ![c] = Request("get", p, Root, <<>>)]
    /\ IF r = NoRow \/ IsDir(r) THEN ret' = [ret EXCEPT ![c] = NotFound] /\ UNCHANGED <<pc, fi>>
       ELSE IF r.size = 0 \/ Len(r.content) > 0
            THEN ret' = [ret EXCEPT ![c] = ReadContent(r)] /\ UNCHANGED <<pc, fi>>
            ELSE /\ ret' = [ret EXCEPT ![c] = NoRet]
                 /\ pc' = [pc EXCEPT ![c] = "get_swift"]
                 /\ fi' = [fi EXCEPT ![c] = r]
    /\ UNCHANGED <<fileVars, stack, mk>>

GetSwift(c) ==
    /\ pc[c] = "get_swift"
    /\ ret' = [ret EXCEPT ![c] = SwiftContent(fi[c].loc)]
    /\ Return(c)
    /\ UNCHANGED <<fileVars, req>>

-----------------------------------------------------------------------------
(* PutContent: read the row, delete the old blobs, upsert the row with     *)
(* mkdirAll above it, and only then upload a large content to Swift        *)

\* mutant: PutContent overwrites a row without deleting its old blobs
PutReadKeepBlobs(c, p, d) ==
    /\ pc[c] = "idle"
    /\ Len(d) > MaxInlineSizeBytes => Locations \ usedLocs # {}
    /\ req' = [req EXCEPT ![c] = Request("put", p, Root, d)]
    /\ fi' = [fi EXCEPT ![c] = files[p]]
    /\ pc' = [pc EXCEPT ![c] = "put_upsert"]
    /\ UNCHANGED <<fileVars, stack, mk, ret>>

PutRead(c, p, d) ==
    LET r == files[p] IN
    /\ pc[c] = "idle"
    \* bound: a large content is only written while Locations lasts
    /\ Len(d) > MaxInlineSizeBytes => Locations \ usedLocs # {}
    /\ req' = [req EXCEPT ![c] = Request("put", p, Root, d)]
    /\ fi' = [fi EXCEPT ![c] = r]
    /\ pc' = [pc EXCEPT ![c] = IF r # NoRow /\ r.loc # NoLoc THEN "put_delblobs" ELSE "put_upsert"]
    /\ UNCHANGED <<fileVars, stack, mk, ret>>

\* deleteBlobs: DeleteAll of the prefix <location>/
PutDeleteBlobs(c) ==
    /\ pc[c] = "put_delblobs"
    /\ swift' = [swift EXCEPT ![fi[c].loc] = NoObjects]
    /\ pc' = [pc EXCEPT ![c] = "put_upsert"]
    /\ UNCHANGED <<files, usedLocs, req, fi, stack, mk, ret>>

PutUpsert(c) ==
    LET p == req[c].path
        d == req[c].data
        Upsert(r) ==
            /\ files' = [files EXCEPT ![p] = r]
            /\ fi' = [fi EXCEPT ![c] = IF r.loc = NoLoc /\ DirName(p) = Root THEN NoRow ELSE r]
            /\ MkdirAllThen(c, DirName(p), IF r.loc # NoLoc THEN "put_upload" ELSE "idle")
    IN
    /\ pc[c] = "put_upsert"
    /\ IF Len(d) > MaxInlineSizeBytes /\ Locations \ usedLocs = {}
       \* plusRandLocation fails (only when requests raced for the last location)
       THEN Return(c) /\ UNCHANGED <<files, usedLocs>>
       ELSE IF Len(d) > MaxInlineSizeBytes
       THEN \E l \in Locations \ usedLocs :
                /\ usedLocs' = usedLocs \cup {l}
                /\ Upsert([size |-> Len(d), content |-> <<>>, loc |-> l])
       ELSE /\ Upsert([size |-> Len(d), content |-> d, loc |-> NoLoc])
            /\ UNCHANGED usedLocs
    /\ UNCHANGED <<swift, req, stack, ret>>

PutUpload(c) ==
    /\ pc[c] = "put_upload"
    /\ swift' = [swift EXCEPT ![fi[c].loc][ContentObj] = Object(req[c].data)]
    /\ Return(c)
    /\ UNCHANGED <<files, usedLocs, req, ret>>

-----------------------------------------------------------------------------
(* Delete and deleteDownwards: blobs first, then (for a directory) a scan  *)
(* of the children and a recursion into each, then the row itself          *)

DeleteRead(c, p) ==
    LET r == files[p] IN
    /\ pc[c] = "idle"
    /\ req' = [req EXCEPT ![c] = Request("delete", p, Root, <<>>)]
    /\ IF r = NoRow THEN UNCHANGED <<pc, stack>>
       ELSE /\ pc' = [pc EXCEPT ![c] = "delete"]
            /\ stack' = [stack EXCEPT ![c] = <<Frame(p, r)>>]
    /\ UNCHANGED <<fileVars, fi, mk, ret>>

DeleteBlobs(c) ==
    LET f == Top(c) IN
    /\ pc[c] = "delete"
    /\ f.phase = "blobs"
    /\ swift' = [swift EXCEPT ![f.fi.loc] = NoObjects]
    /\ SetTop(c, [f EXCEPT !.phase = IF IsDir(f.fi) THEN "scan" ELSE "row"])
    /\ UNCHANGED <<files, usedLocs, pc, req, fi, mk, ret>>

\* the rows come back in no particular order: the recursion picks any
DeleteScan(c) ==
    LET f == Top(c)
        kids == { <<k, files[k]>> : k \in Children(f.key) }
    IN
    /\ pc[c] = "delete"
    /\ f.phase = "scan"
    /\ SetTop(c, [f EXCEPT !.kids = kids, !.phase = IF kids = {} THEN "row" ELSE "kids"])
    /\ UNCHANGED <<fileVars, pc, req, fi, mk, ret>>

DeleteChild(c) ==
    LET f == Top(c) IN
    /\ pc[c] = "delete"
    /\ f.phase = "kids"
    /\ \E kid \in f.kids :
         stack' = [stack EXCEPT ![c] = Front(@) \o <<[f EXCEPT !.kids = @ \ {kid}],
                                                   Frame(kid[1], kid[2])>>]
    /\ UNCHANGED <<fileVars, pc, req, fi, mk, ret>>

\* DELETE FROM files WHERE dirname = $1 AND basename = $2, and return
DeleteRow(c) ==
    LET f == Top(c)
        rest == Front(stack[c])
    IN
    /\ pc[c] = "delete"
    /\ f.phase = "row"
    /\ files' = [files EXCEPT ![f.key] = NoRow]
    /\ IF rest = <<>>
       THEN /\ stack' = [stack EXCEPT ![c] = <<>>]
            /\ pc' = [pc EXCEPT ![c] = AfterDelete(c)]
            /\ fi' = IF AfterDelete(c) = "idle" THEN [fi EXCEPT ![c] = NoRow] ELSE fi
       ELSE /\ stack' = [stack EXCEPT ![c] =
                 Front(rest) \o <<[Last(rest) EXCEPT !.phase = IF Last(rest).kids = {} THEN "row" ELSE "kids"]>>]
            /\ UNCHANGED <<pc, fi>>
    /\ UNCHANGED <<swift, usedLocs, req, mk, ret>>

-----------------------------------------------------------------------------
(* Move: read source and destination, deleteDownwards the destination,    *)
(* UPDATE the source row's key, then mkdirAll above the destination        *)

MoveReadSrc(c, s, d) ==
    LET r == files[s] IN
    /\ pc[c] = "idle"
    /\ req' = [req EXCEPT ![c] = Request("move", s, d, <<>>)]
    /\ IF r = NoRow THEN UNCHANGED <<pc, fi>>
       ELSE /\ fi' = [fi EXCEPT ![c] = r]
            /\ pc' = [pc EXCEPT ![c] = "move_dst"]
    /\ UNCHANGED <<fileVars, stack, mk, ret>>

\* the first query fails with an error other than ErrNoRows: the error is
\* overwritten by the second query and Move goes on with a zero fi1
MoveReadSrcError(c, s, d) ==
    /\ FailuresEnabled
    /\ pc[c] = "idle"
    /\ req' = [req EXCEPT ![c] = Request("move", s, d, <<>>)]
    /\ fi' = [fi EXCEPT ![c] = NoRow]
    /\ pc' = [pc EXCEPT ![c] = "move_dst"]
    /\ UNCHANGED <<fileVars, stack, mk, ret>>

MoveReadDst(c) ==
    LET r == files[req[c].dst] IN
    /\ pc[c] = "move_dst"
    /\ IF r = NoRow THEN pc' = [pc EXCEPT ![c] = "move_update"] /\ UNCHANGED stack
       ELSE /\ pc' = [pc EXCEPT ![c] = "delete"]
            /\ stack' = [stack EXCEPT ![c] = <<Frame(req[c].dst, r)>>]
    /\ UNCHANGED <<fileVars, req, fi, mk, ret>>

\* UPDATE files SET dirname, basename WHERE (dirname, basename) = fi1's key:
\* no row matches for a zero fi1 or a source gone meanwhile; a row at the
\* destination created meanwhile violates the primary key and fails it
MoveUpdate(c) ==
    LET s == req[c].path
        d == req[c].dst
    IN
    /\ pc[c] = "move_update"
    /\ fi' = [fi EXCEPT ![c] = NoRow]
    /\ IF fi[c] # NoRow /\ files[s] # NoRow /\ s # d /\ files[d] # NoRow
       THEN Return(c) /\ UNCHANGED <<files>>
       ELSE /\ IF fi[c] = NoRow \/ files[s] = NoRow
               THEN UNCHANGED <<files>>
               ELSE /\ files' = [files EXCEPT ![s] = NoRow, ![d] = files[s]]
            /\ MkdirAllThen(c, DirName(d), "idle")
            /\ UNCHANGED stack
    /\ UNCHANGED <<swift, usedLocs, req, ret>>

-----------------------------------------------------------------------------
(* A statement fails (database or Swift error, cancelled context, or the   *)
(* process dies): the handler returns the error with what it did so far    *)
(* left in place; nothing is rolled back                                   *)

\* (of the writer's steps in PlusWriter, a failed Write of a segment is no
\* error return, as bufio keeps the error; bufio's loop and the flag
\* updates make no call that could fail; Cancel handles its own failure)
Fail(c) ==
    /\ FailuresEnabled
    /\ pc[c] \notin {"idle", "pw_upload", "pw_insert", "bw_loop", "w_committed", "w_cancel"}
    /\ Return(c)
    /\ UNCHANGED <<fileVars, req, ret>>

-----------------------------------------------------------------------------

Init ==
    /\ files = [p \in Paths |-> NoRow]
    /\ swift = [l \in Locations |-> NoObjects]
    /\ usedLocs = {}
    /\ pc = [c \in Clients |-> "idle"]
    /\ req = [c \in Clients |-> Request("none", Root, Root, <<>>)]
    /\ fi = [c \in Clients |-> NoRow]
    /\ stack = [c \in Clients |-> <<>>]
    /\ mk = [c \in Clients |-> Root]
    /\ ret = [c \in Clients |-> NoRet]

\* the steps of the handlers started by one client
ClientNext(c) ==
    \/ \E p \in GetPaths : GetRead(c, p)
    \/ GetSwift(c)
    \/ \E p \in PutPaths, d \in PutContents : PutRead(c, p, d)
    \/ PutDeleteBlobs(c) \/ PutUpsert(c) \/ PutUpload(c)
    \/ MkdirStep(c)
    \/ \E p \in DeletePaths : DeleteRead(c, p)
    \/ DeleteBlobs(c) \/ DeleteScan(c) \/ DeleteChild(c) \/ DeleteRow(c)
    \/ \E m \in MovePairs : MoveReadSrc(c, m[1], m[2]) \/ MoveReadSrcError(c, m[1], m[2])
    \/ MoveReadDst(c) \/ MoveUpdate(c)
    \/ Fail(c)

Next == \E c \in Clients : ClientNext(c)

Spec == Init /\ [][Next]_vars

-----------------------------------------------------------------------------

\* the statements of the handlers above
FilePcs == {"idle", "get_swift", "put_delblobs", "put_upsert", "put_upload",
            "mkdir", "delete", "move_dst", "move_update"}

\* the stores and the clients' locals, with pc ranging over pcs
StateTypeOK(pcs) ==
    /\ files \in [Paths -> FileInfo \cup {NoRow}]
    /\ \A l \in Locations, n \in ObjNames :
          swift[l][n] \in Objects \cup Manifest \cup {NoObj}
    /\ usedLocs \subseteq Locations
    /\ pc \in [Clients -> pcs]
    /\ \A c \in Clients :
          /\ req[c].path \in Paths \cup {Root} /\ req[c].dst \in Paths \cup {Root}
          /\ fi[c] \in FileInfo \cup {NoRow}
          /\ stack[c] \in Seq([key : Paths, fi : FileInfo, phase : {"blobs", "scan", "kids", "row"},
                               kids : SUBSET (Paths \X FileInfo)])
          /\ mk[c] \in Paths \cup {Root}
          /\ ret[c] \in Seq(Data) \cup {NotFound, NoRet}

TypeOK == StateTypeOK(FilePcs)

-----------------------------------------------------------------------------
(* Properties                                                              *)

\* no request is between two of its statements
Quiescent == \A c \in Clients : pc[c] = "idle"

\* The spec's FileRecord invariant, which writeFileInfo and Move maintain by
\* calling mkdirAll: once no request is in flight, the row of every path
\* below the root has a directory row as its parent.
TreeConnected ==
    Quiescent =>
        \A p \in Paths : files[p] # NoRow /\ Len(p) > 1 =>
            /\ files[DirName(p)] # NoRow
            /\ IsDir(files[DirName(p)])

NoOrphanBlobs ==
    \A l \in Locations : swift[l] # NoObjects =>
        \E p \in Paths : files[p] # NoRow /\ files[p].loc = l

\* Once no request is in flight, every file row can be read back: its
\* inline content is there, or its Swift object is.
NoDanglingRows ==
    Quiescent =>
        \A p \in Paths : files[p] # NoRow /\ ~IsDir(files[p]) =>
            ReadContent(files[p]) # NotFound
=============================================================================
