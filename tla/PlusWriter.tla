------------------------------ MODULE PlusWriter ------------------------------
(***************************************************************************)
(* The segmented writer of the swift-plus driver (src/unnamed/part_000):  *)
(* plusDriver.Writer, newPlusWriter, plusWriter.Write/Commit/Cancel/Close  *)
(* and the bufferedWriter around it, on top of the handlers of PlusFiles.  *)
(*                                                                         *)
(* A client holds at most one writer object. The writer's fields are       *)
(* local to it; its statements (the SELECTs of newPlusWriter, each Swift   *)
(* upload, each INSERT into `segments`, WriteSLO, the upsert of Commit)    *)
(* are steps of the client and interleave with other requests. The        *)
(* bufio.Writer of bufferedWriter is modelled by what it does: a buffer of *)
(* ChunkSize bytes, large writes passed through when the buffer is empty,  *)
(* and a sticky error after the first failed Write of the writer below.    *)
(* A segment's hash is modelled by the bytes it hashes.                    *)
(***************************************************************************)
EXTENDS PlusFiles

CONSTANTS
    ChunkSize,      \* p.swift.ChunkSize, the size of bufio's buffer
    WriterPaths,    \* paths the registry opens writers on
    WriteData,      \* byte strings it passes to Write
    WriterMisuse,   \* does the caller use a writer after Commit or Cancel?
    NoWriter, NoSeg

ASSUME ChunkSize \in Nat \ {0}

VARIABLES
    segtab,     \* the `segments` table: location -> number -> hash or NoSeg
    wr          \* per client: its writer object, or NoWriter

writerVars == <<segtab, wr>>
allVars == <<vars, writerVars>>

WriterPcs == {"w_open", "bw_loop", "pw_upload", "pw_insert", "w_commit",
              "w_upsert", "w_committed", "w_cancel"}

Segment == [number : 1 .. MaxSegments, hash : Seq(Data)]

\* A writer: the plusWriter fields, bufio's buffer and sticky error, the
\* bytes of the Write call in progress (pend), which bytes the pending
\* plusWriter.Write uploads (src) and where bufio goes on after it (after);
\* base and data are ghosts: the content the writer appends to, and every
\* byte the caller has written.
Writers == [path : Paths, loc : Locations, segs : Seq(Segment),
            cancelled : BOOLEAN, committed : BOOLEAN, closed : BOOLEAN,
            buf : Seq(Data), pend : Seq(Data), src : {"buf", "pend"},
            after : {"bw_loop", "w_commit", "w_cancel"}, err : BOOLEAN,
            base : Seq(Data) \cup {NotFound}, data : Seq(Data)]

\* readSegmentInfo: the segment rows of a location, ordered by number
SegList(l) ==
    LET ns == SetToSortSeq({n \in 1 .. MaxSegments : segtab[l][n] # NoSeg}, <)
    IN [i \in DOMAIN ns |-> [number |-> ns[i], hash |-> segtab[l][ns[i]]]]

\* plusWriter.Size: the sum of the segment sizes
WriterSize(w) == FoldLeft(LAMBDA n, s : n + Len(s.hash), 0, w.segs)

\* Mutant: the first segment is numbered 0.
NextNumberFromZero(w) == IF w.segs = <<>> THEN 0 ELSE Last(w.segs).number + 1

\* Mutant: the number of the last segment is taken again.
NextNumberReuseLast(w) == IF w.segs = <<>> THEN 1 ELSE Last(w.segs).number

\* plusWriter.Write's segment number: 1, or one above the last segment
NextNumber(w) == IF w.segs = <<>> THEN 1 ELSE Last(w.segs).number + 1

\* the bytes the pending plusWriter.Write uploads, and the writer once
\* bufio has accounted them as written (n = len(buf))
Chunk(w) == IF w.src = "pend" THEN w.pend ELSE w.buf
Consumed(w) == IF w.src = "pend" THEN [w EXCEPT !.pend = <<>>] ELSE [w EXCEPT !.buf = <<>>]

SetWriter(c, w) == wr' = [wr EXCEPT ![c] = w]

-----------------------------------------------------------------------------
(* newPlusWriter: read the row; without append, deleteDownwards it first; *)
(* then choose the location and, when appending, read its segments       *)

\* The caller is done with a writer once it committed or cancelled it, or
\* once the writer failed: its sticky error blocks Commit and Cancel alike.
Finished(w) == IF w = NoWriter THEN TRUE ELSE w.committed \/ w.cancelled \/ w.err

WOpen(c, p, append) ==
    LET r == files[p] IN
    /\ pc[c] = "idle"
    /\ Finished(wr[c])
    \* bound: a writer needing a fresh location opens only while Locations lasts
    /\ (~append \/ r = NoRow \/ r.loc = NoLoc) => Locations \ usedLocs # {}
    /\ req' = [req EXCEPT ![c] = Request(IF append THEN "wappend" ELSE "wopen", p, Root, <<>>)]
    /\ fi' = [fi EXCEPT ![c] = r]
    /\ SetWriter(c, NoWriter)
    /\ IF ~append /\ r # NoRow
       THEN /\ pc' = [pc EXCEPT ![c] = "delete"]
            /\ stack' = [stack EXCEPT ![c] = <<Frame(p, r)>>]
       ELSE /\ pc' = [pc EXCEPT ![c] = "w_open"]
            /\ UNCHANGED stack
    /\ UNCHANGED <<fileVars, segtab, mk, ret>>

\* exists && appendFlag in newPlusWriter: the file is still there
AppendsTo(c) == req[c].op = "wappend" /\ fi[c] # NoRow

\* Mutant: an append does not load the segments already recorded.
InitialSegmentsNone(c, l) == <<>>

\* Lines 652-659: the segments an append continues after.
InitialSegments(c, l) == IF AppendsTo(c) THEN SegList(l) ELSE <<>>

NewWriter(c, l) ==
    [path |-> req[c].path, loc |-> l, segs |-> InitialSegments(c, l),
     cancelled |-> FALSE, committed |-> FALSE, closed |-> FALSE,
     buf |-> <<>>, pend |-> <<>>, src |-> "buf", after |-> "bw_loop", err |-> FALSE,
     base |-> IF AppendsTo(c) /\ ~IsDir(fi[c]) THEN ReadContent(fi[c]) ELSE <<>>,
     data |-> <<>>]

\* Lines 647-658: an existing file (still there only when appending) keeps
\* its location, otherwise plusRandLocation chooses one, and fails once
\* racing requests took the last.
WOpenLocation(c) ==
    /\ pc[c] = "w_open"
    /\ IF AppendsTo(c) /\ fi[c].loc # NoLoc
       THEN SetWriter(c, NewWriter(c, fi[c].loc)) /\ UNCHANGED usedLocs
       ELSE IF Locations \ usedLocs = {}
       THEN UNCHANGED <<wr, usedLocs>>
       ELSE \E l \in Locations \ usedLocs :
                /\ usedLocs' = usedLocs \cup {l}
                /\ SetWriter(c, NewWriter(c, l))
    /\ Return(c)
    /\ UNCHANGED <<files, swift, segtab, req, ret>>

-----------------------------------------------------------------------------
(* bufferedWriter.Write: bufio.Writer.Write over plusWriter.Write          *)

\* a writer the caller may still use: not committed or cancelled, unless
\* the caller misuses it
Usable(w) == w # NoWriter /\ (WriterMisuse \/ ~(w.committed \/ w.cancelled))

BWrite(c, d) ==
    LET w == wr[c] IN
    /\ pc[c] = "idle"
    /\ Usable(w)
    \* bound: every segment number stays an object name of Swift, and a
    \* writer takes at most MaxSegments bytes
    /\ Len(w.segs) + Len(w.buf) + Len(d) <= MaxSegments
    /\ Len(w.data) + Len(d) <= MaxSegments
    /\ req' = [req EXCEPT ![c] = Request("write", w.path, Root, d)]
    /\ SetWriter(c, [w EXCEPT !.pend = d, !.data = @ \o d])
    /\ pc' = [pc EXCEPT ![c] = "bw_loop"]
    /\ UNCHANGED <<fileVars, segtab, fi, stack, mk, ret>>

\* One turn of bufio's loop "for len(p) > b.Available() && b.err == nil":
\* with an empty buffer the whole of p goes to plusWriter.Write, otherwise
\* the buffer is filled from p and flushed; after the loop p is buffered,
\* or the sticky error returned.
BufLoop(c) ==
    LET w == wr[c]
        avail == ChunkSize - Len(w.buf)
    IN
    /\ pc[c] = "bw_loop"
    /\ IF Len(w.pend) > avail /\ ~w.err
       THEN /\ pc' = [pc EXCEPT ![c] = "pw_upload"]
            /\ SetWriter(c, IF w.buf = <<>>
                            THEN [w EXCEPT !.src = "pend", !.after = "bw_loop"]
                            ELSE [w EXCEPT !.buf = @ \o SubSeq(w.pend, 1, avail),
                                           !.pend = SubSeq(w.pend, avail + 1, Len(w.pend)),
                                           !.src = "buf", !.after = "bw_loop"])
            /\ UNCHANGED <<fi, stack, mk>>
       ELSE /\ SetWriter(c, IF w.err THEN [w EXCEPT !.pend = <<>>]
                            ELSE [w EXCEPT !.buf = @ \o w.pend, !.pend = <<>>])
            /\ Return(c)
    /\ UNCHANGED <<fileVars, segtab, req, ret>>

\* plusWriter.Write, lines 670-684: number the chunk and upload it to
\* <location>/<number>; the segment joins the in-memory list at once.
PWUpload(c) ==
    LET w == wr[c]
        s == [number |-> NextNumber(w), hash |-> Chunk(w)]
    IN
    /\ pc[c] = "pw_upload"
    /\ swift' = [swift EXCEPT ![w.loc][s.number] = Object(s.hash)]
    /\ SetWriter(c, [w EXCEPT !.segs = Append(@, s)])
    /\ pc' = [pc EXCEPT ![c] = "pw_insert"]
    /\ UNCHANGED <<files, usedLocs, segtab, req, fi, stack, mk, ret>>

\* Lines 686-695: INSERT INTO segments; a row already there for this
\* (location, number) violates the primary key. Either way Write returns
\* len(buf), so bufio counts the chunk as written.
PWInsert(c) ==
    LET w == wr[c]
        s == Last(w.segs)
    IN
    /\ pc[c] = "pw_insert"
    /\ IF segtab[w.loc][s.number] # NoSeg
       THEN SetWriter(c, [Consumed(w) EXCEPT !.err = TRUE]) /\ UNCHANGED segtab
       ELSE /\ segtab' = [segtab EXCEPT ![w.loc][s.number] = s.hash]
            /\ SetWriter(c, Consumed(w))
    /\ pc' = [pc EXCEPT ![c] = w.after]
    /\ UNCHANGED <<fileVars, req, fi, stack, mk, ret>>

\* The Swift upload fails (Write returns 0 bytes) or the INSERT fails for
\* another reason (Write returns len(buf)): bufio keeps the error.
PWFail(c) ==
    LET w == wr[c] IN
    /\ FailuresEnabled
    /\ pc[c] \in {"pw_upload", "pw_insert"}
    /\ SetWriter(c, IF pc[c] = "pw_upload" THEN [w EXCEPT !.err = TRUE]
                    ELSE [Consumed(w) EXCEPT !.err = TRUE])
    /\ pc' = [pc EXCEPT ![c] = w.after]
    /\ UNCHANGED <<fileVars, segtab, req, fi, stack, mk, ret>>

\* bufio.Writer.Flush, then go on at next: the sticky error is returned at
\* once, an empty buffer needs no Write.
FlushThen(c, next) ==
    LET w == wr[c] IN
    IF w.err THEN Return(c) /\ UNCHANGED wr
    ELSE IF w.buf = <<>> THEN pc' = [pc EXCEPT ![c] = next] /\ UNCHANGED <<wr, fi, stack, mk>>
    ELSE /\ pc' = [pc EXCEPT ![c] = "pw_upload"]
         /\ SetWriter(c, [w EXCEPT !.src = "buf", !.after = next])
         /\ UNCHANGED <<fi, stack, mk>>

-----------------------------------------------------------------------------
(* Commit and Close (bufferedWriter, then plusWriter): flush, check the    *)
(* writer's state, WriteSLO the manifest, then writeFileInfo and mkdirAll  *)

WCommit(c, op) ==
    /\ pc[c] = "idle"
    /\ wr[c] # NoWriter
    /\ req' = [req EXCEPT ![c] = Request(op, wr[c].path, Root, <<>>)]
    /\ FlushThen(c, "w_commit")
    /\ UNCHANGED <<fileVars, segtab, ret>>

\* Mutant: Commit goes on when the flush in this call failed.
WCommitManifestIgnoreFlush(c) ==
    LET w == wr[c] IN
    /\ pc[c] = "w_commit"
    /\ IF w.closed \/ w.cancelled \/ w.committed
       THEN Return(c) /\ UNCHANGED swift
       ELSE /\ swift' = [swift EXCEPT ![w.loc][ContentObj] = [kind |-> "slo", segs |-> w.segs]]
            /\ pc' = [pc EXCEPT ![c] = "w_upsert"]
            /\ UNCHANGED <<fi, stack, mk>>
    /\ UNCHANGED <<files, usedLocs, segtab, wr, req, ret>>

\* The flush's error ends the call (lines 772-777, 792-797). Close of a
\* committed or cancelled writer returns nil and Commit an error, both with
\* nothing changed (lines 705-713, 725-733); otherwise WriteSLO writes the
\* manifest of the segment list to <location>/content (lines 734-745).
WCommitManifest(c) ==
    LET w == wr[c] IN
    /\ pc[c] = "w_commit"
    /\ IF w.err \/ w.closed \/ w.cancelled \/ w.committed
       THEN Return(c) /\ UNCHANGED swift
       ELSE /\ swift' = [swift EXCEPT ![w.loc][ContentObj] = [kind |-> "slo", segs |-> w.segs]]
            /\ pc' = [pc EXCEPT ![c] = "w_upsert"]
            /\ UNCHANGED <<fi, stack, mk>>
    /\ UNCHANGED <<files, usedLocs, segtab, wr, req, ret>>

\* Mutant: Commit upserts the row without mkdirAll above it.
WUpsertNoMkdir(c) ==
    LET w == wr[c] IN
    /\ pc[c] = "w_upsert"
    /\ files' = [files EXCEPT ![w.path] = [size |-> WriterSize(w), content |-> <<>>, loc |-> w.loc]]
    /\ pc' = [pc EXCEPT ![c] = "w_committed"]
    /\ UNCHANGED <<swift, usedLocs, segtab, wr, req, fi, stack, mk, ret>>

\* Lines 745-749: writeFileInfo of a row with the summed size, the
\* location and no inline content, then mkdirAll above it.
WUpsert(c) ==
    LET w == wr[c] IN
    /\ pc[c] = "w_upsert"
    /\ files' = [files EXCEPT ![w.path] = [size |-> WriterSize(w), content |-> <<>>, loc |-> w.loc]]
    /\ MkdirAllThen(c, DirName(w.path), "w_committed")
    /\ UNCHANGED <<swift, usedLocs, segtab, wr, req, fi, stack, ret>>

\* Lines 750-751.
WCommitted(c) ==
    /\ pc[c] = "w_committed"
    /\ SetWriter(c, [wr[c] EXCEPT !.committed = TRUE])
    /\ Return(c)
    /\ UNCHANGED <<fileVars, segtab, req, ret>>

-----------------------------------------------------------------------------
(* Cancel: flush, mark the writer cancelled, Delete its path              *)

WCancel(c) ==
    /\ pc[c] = "idle"
    /\ Usable(wr[c])
    /\ req' = [req EXCEPT ![c] = Request("cancel", wr[c].path, Root, <<>>)]
    /\ FlushThen(c, "w_cancel")
    /\ UNCHANGED <<fileVars, segtab, ret>>

\* Lines 715-723 after the flush (784-789): the writer is cancelled and
\* its segment list dropped (nothing else sees it in between), and
\* plusDriver.Delete reads the row and deleteDownwards it; when that read
\* fails, the writer is cancelled all the same.
WCancelDelete(c) ==
    LET w == wr[c]
        r == files[w.path]
    IN
    /\ pc[c] = "w_cancel"
    /\ IF w.err \/ w.closed
       THEN Return(c) /\ UNCHANGED wr
       ELSE /\ SetWriter(c, [w EXCEPT !.cancelled = TRUE, !.segs = <<>>])
            /\ \/ r = NoRow /\ Return(c)
               \/ /\ r # NoRow
                  /\ pc' = [pc EXCEPT ![c] = "delete"]
                  /\ stack' = [stack EXCEPT ![c] = <<Frame(w.path, r)>>]
                  /\ UNCHANGED <<fi, mk>>
               \/ FailuresEnabled /\ Return(c)
    /\ UNCHANGED <<fileVars, segtab, req, ret>>

-----------------------------------------------------------------------------

WInit ==
    /\ Init
    /\ segtab = [l \in Locations |-> [n \in 1 .. MaxSegments |-> NoSeg]]
    /\ wr = [c \in Clients |-> NoWriter]

\* the steps of one client: the file handlers and the writer's
WriterClientNext(c) ==
    \/ ClientNext(c) /\ UNCHANGED writerVars
    \/ \E p \in WriterPaths, append \in BOOLEAN : WOpen(c, p, append)
    \/ WOpenLocation(c)
    \/ \E d \in WriteData : BWrite(c, d)
    \/ BufLoop(c) \/ PWUpload(c) \/ PWInsert(c) \/ PWFail(c)
    \/ \E op \in {"commit", "close"} : WCommit(c, op)
    \/ WCommitManifest(c) \/ WUpsert(c) \/ WCommitted(c)
    \/ WCancel(c) \/ WCancelDelete(c)

WNext == \E c \in Clients : WriterClientNext(c)

WSpec == WInit /\ [][WNext]_allVars

\* A step of a request in flight. Every statement is a blocking call that
\* returns (with a result or an error) and no handler waits for another
\* request, so a request in flight is never stopped forever.
Proceed(c) == pc[c] # "idle" /\ WriterClientNext(c)

WFairSpec == WSpec /\ \A c \in Clients : WF_allVars(Proceed(c))

WriterTypeOK ==
    /\ StateTypeOK(FilePcs \cup WriterPcs)
    /\ segtab \in [Locations -> [1 .. MaxSegments -> Seq(Data) \cup {NoSeg}]]
    /\ wr \in [Clients -> Writers \cup {NoWriter}]

-----------------------------------------------------------------------------
(* Properties                                                              *)

(***************************************************************************)
(* A commit makes the file read back as what it appended to followed by   *)
(* every byte written to the writer (spec section 8, property 3): the     *)
(* manifest of the loaded and the new segments, read through Swift, is    *)
(* the old content and the new, and bufio lost or repeated no byte.       *)
(***************************************************************************)
AppendKeepsContent ==
    \A c \in Clients :
        pc[c] = "w_committed" =>
            ReadContent(files[wr[c].path]) = wr[c].base \o wr[c].data

(***************************************************************************)
(* Every segment a manifest in Swift lists has its row in the segments    *)
(* table with the same hash, so the next append (which numbers after the  *)
(* rows it reads) never overwrites a segment a file is made of. It rests  *)
(* on bufio's sticky error: a Write whose INSERT failed keeps the segment *)
(* in the writer's list, and only the error stops Commit from using it.   *)
(***************************************************************************)
ManifestSegmentsRecorded ==
    \A l \in Locations :
        LET m == swift[l][ContentObj] IN
        m # NoObj /\ m.kind = "slo" =>
            \A i \in DOMAIN m.segs : segtab[l][m.segs[i].number] = m.segs[i].hash

(***************************************************************************)
(* Every request returns: deleteDownwards, mkdirAll and bufio's loop all  *)
(* end, and no handler waits for another.                                 *)
(***************************************************************************)
RequestsReturn == \A c \in Clients : pc[c] # "idle" ~> pc[c] = "idle"

(***************************************************************************)
(* A writer that is committed or cancelled uploads nothing and deletes    *)
(* nothing more: "any operation on a record already in Committed,         *)
(* Cancelled, or post-Close state fails" (spec section 4.3 and property   *)
(* 6). Write checks none of the flags and Cancel checks only closed.     *)
(***************************************************************************)
WriterMisuseRejected ==
    \A c \in Clients :
        wr[c] # NoWriter /\ (wr[c].committed \/ wr[c].cancelled) =>
            pc[c] \notin {"pw_upload", "w_cancel"}

(***************************************************************************)
(* No two rows share a Swift location: a location is "generated once per  *)
(* logical object's external lifetime" (spec section 4.1), and deleting   *)
(* one row deletes everything under its location.                        *)
(***************************************************************************)
LocationsUnique ==
    \A p, q \in Paths :
        p # q /\ files[p] # NoRow /\ files[q] # NoRow /\ files[p].loc # NoLoc =>
            files[p].loc # files[q].loc
=============================================================================
