# TLA+ models of keppel

This directory holds the TLA+ specifications kept beside the keppel sources.
They cover two groups of code:
- The `swift-plus` storage driver (`src/unnamed/part_000`, package
  `swiftplus`). The driver stores registry files in two places: rows of a
  Postgres `files` table, and objects in OpenStack Swift. No transaction
  spans the two stores, and none spans two statements of one request.
- The authentication side: `ParseScope`, the token endpoint, the registry
  proxy handlers (all in `src/pkg/auth/scope.go`), and the AuthDriver
  registry (`src/pkg/keppel/auth_driver.go`).

## 1. Inventory

| Component | Source | State it keeps | Operations |
|---|---|---|---|
| Metadata repository | part_000 `files`/`segments` tables, `readFileInfo`, `writeFileInfo`, `readSegmentInfo` | rows `(dirname, basename) -> size, mtime, content, location`; rows `(location, number) -> size, hash` | select, upsert, insert-if-absent, update of a key, delete |
| Tiering policy | `PutContent`, `maxInlineSizeBytes` | none | inline if `len <= 256`, else a fresh random location |
| Directory tree maintainer | `mkdirAll`, `deleteDownwards`, `List`, `Move` | the same rows (size -1 marks a directory) | insert ancestors bottom-up; recursive delete (scan children, recurse, delete own row); one-level listing; rename a single row |
| Driver facade | `GetContent`, `PutContent`, `Reader`, `Writer`, `Stat`, `List`, `Move`, `Delete`, `URLFor` | none besides the stores | one handler per request, concurrent across requests |
| Segmented writer | `plusWriter`, `bufferedWriter` | per writer: location, segment list, the flags cancelled/committed/closed; per bufio: buffer and a sticky error | Write (upload a segment, then INSERT its row), Commit (WriteSLO, then upsert the row), Cancel (Delete the path), Close |
| Object store adapter | `swiftInterface` (not in `src/`) | objects by name | Write, Reader, DeleteAll(prefix), WriteSLO, MakeTempURL |
| Bootstrap | `NewDriver`, `connectToPostgres`, `initializeSchema` | none | runs once at startup |
| Scope parsing | `scope.go` `ParseScope` | none (a pure function) | split on `:` and `,`, validation |
| Token endpoint | `scope.go` `handleGetAuth`, `filterRegistryActions`, `filterRepoActions` | none across requests | parse, account lookup, access level, filter, then `panic("unimplemented")` |
| Registry proxy | `scope.go` `requireBearerToken`, `handleProxy*` | none | token check, account lookup, forward to the account's backend |
| AuthDriver registry | `src/pkg/keppel/auth_driver.go` | a name -> factory map filled at init | register, look up |

How the parts interact. The facade reads the row of a path. It applies the
tiering policy and calls Swift by location, never by path. The tree
maintainer runs inside the handlers: `writeFileInfo` upserts a row and then
calls `mkdirAll`, and `Move` and `Delete` call `deleteDownwards`. A writer
calls `Delete`, `deleteDownwards` and `writeFileInfo` of the driver. All of
this state lives in the two stores, which concurrent requests share.

What makes it hard:
- Interleaving. Requests run concurrently, there is no per-path lock, and
  every statement and Swift call is its own atomic step.
- Partial failure. A handler stops at the first error. It returns that error
  and rolls back none of the statements it already ran.
- Ordering. Blobs are deleted before rows, rows are upserted before blobs
  are uploaded, and a segment is uploaded before its row is inserted.

What correct means, per component:
- Tree: every row's parent is a directory row.
- Facade: the handlers behave like atomic operations on a tree (`StorageFS`).
  Every file row can be read back. No Swift blob is left unreferenced.
- Writer: segments are numbered 1..n in order. An append keeps the old
  content. Cancel leaves no new content behind. Operations after
  Commit/Cancel fail.
- Token endpoint: a token grants only requested actions that the user's
  access level allows on an existing account.
- Proxy: a 401 carries the route's challenge and the API version header. A
  forwarded request reaches the right backend with the right path.
- AuthDriver registry: the driver main gets does not depend on init order.

## 2. Plan

1. **StorageFS** (done). The abstract contract: a function from paths to
   absent / directory / content, with atomic `PutContent`, `Delete` and `Move`.
2. **PlusFiles** (done). The files table and Swift, with clients that run
   `GetContent`, `PutContent`, `Delete`, `Move`, `mkdirAll` and
   `deleteDownwards` one statement per step, plus failure steps.
   `MCPlusFiles` maps one client's state onto StorageFS (refinement).
3. **PlusWriter** (done). `EXTENDS PlusFiles`. It adds the segments table,
   writer objects (`newPlusWriter`, `Write`, `Commit`, `Cancel`, `Close`),
   `bufferedWriter` with bufio's sticky error, and Swift SLO manifests.
   Not done: an append/commit operation in StorageFS for a refinement of the
   writer.
4. **Reader/URLFor** as operators over ReadContent (offset past the end,
   inline slicing), checked against a reference slice.
5. **ScopeParse, TokenAuth, RegistryProxy, AuthDriverRegistry** (done).
6. More violation runs for the documented gaps: a Put over a directory, a
   Move of a directory, mkdirAll over a file, and the error Move swallows.

## 3. Modules

### StorageFS.tla
`fs : Paths -> contents ∪ {Absent, Directory}`. `PutContent(p, c)` writes
`c` at `p`, clears p's subtree and makes every ancestor a directory.
`Delete(p)` clears the subtree of p. `Move(s, d)` needs `s` present. It
relocates s's subtree over d's cleared subtree and makes d's ancestors
directories. `AfterPut`, `AfterDelete` and `AfterMove` are these effects as
operators on trees; the refinement mapping reuses them.

### PlusFiles.tla
State and how it matches the code:
- `files`: the `files` table as a function of the path. The key
  `(dirname, basename)` is `(Front(p), Last(p))`.
- `swift`: location -> object name (`"content"` or a segment number) ->
  object. A row's blob lives under `<location>/`.
- `usedLocs`: the values `plusRandLocation` has returned. A fresh location is
  never reused, as with 64 random bits.
- Per client: `pc` (the next statement), `req`, `fi` (the handler's
  `fileInfo` local), `stack` (frames of the `deleteDownwards` recursion, each
  with the row as read, the next phase, and the children snapshot its SELECT
  returned), `mk` (mkdirAll's argument) and `ret` (GetContent's result).

Actions, one per statement:
- mkdirAll: `MkdirStep` (one INSERT ... ON CONFLICT DO NOTHING per ancestor).
- GetContent: `GetRead`, then `GetSwift`.
- PutContent: `PutRead`, `PutDeleteBlobs`, `PutUpsert` (chooses inline or a
  fresh location, upserts, then mkdirAll), then `PutUpload`.
- Delete and deleteDownwards: `DeleteRead`, then `DeleteBlobs`, `DeleteScan`,
  `DeleteChild` (the rows come back in any order) and `DeleteRow`.
- Move: `MoveReadSrc`, `MoveReadSrcError` (the error that line 506
  overwrites), `MoveReadDst`, deleteDownwards of the destination, then
  `MoveUpdate`. The UPDATE matches no row when the source is gone, and it
  fails on the primary key when a destination row appeared meanwhile.
- `Fail(c)`: the statement at `pc` fails (database or Swift error, cancelled
  context, or the process dies). The handler returns, and what it already did
  stays.

Abstracted: mtime, the object-name prefix, and the formatting of object
paths. Content is a byte sequence over `Data`, and the inline threshold is a
constant (1 in the runs instead of 256). Stat and List are read-only single
queries, so they are operators rather than actions.

### MCPlusFiles.tla
Model values and bounds:
- Names `{a, b}`, depth 3 (14 paths). Files are written at depth 3, so
  mkdirAll inserts two levels and Delete recurses two levels.
- Contents: `<<>>`, `<<x>>` (inline) and `<<x, y>>` (Swift).
- Three locations (two in the crash run). A large PutContent starts only
  while a location is free. When racing requests took the last one,
  `PutUpsert` takes the `plusRandLocation` error path.
- Move pairs keep the depth. The registry's moves go from an upload path to
  a blob path, never onto the source itself.

`AbsFS` is the refinement mapping: the tree a reader sees (`View`), with the
request in flight counted as done from its first statement.
`RefinesStorageFS == FS!Spec`.

### PlusWriter.tla
`EXTENDS PlusFiles`: the writer's steps run as further statements of the same
per-client `pc` machine, interleaved with the file operations.

State added:
- `segtab`: the `segments` table, location -> number -> hash (or `NoSeg`).
  Rows are inserted by `plusWriter.Write` and never deleted, as in the code.
- `wr`: each client's writer object (or `NoWriter`). It holds the
  `plusWriter` fields (`path`, `loc`, `segs`, `cancelled`, `committed`,
  `closed`) and bufio's state (`buf`, the pending bytes `pend` of the Write
  in progress, and the sticky `err`). `base` and `data` are ghosts: the
  file's content when the writer opened, and every byte passed to `Write`.
- Swift objects are named `ContentObj` (the manifest, `<location>/content`)
  or a segment number.

Actions:
- `WOpen` then `WOpenLocation`: `newPlusWriter`. Without append it first runs
  deleteDownwards on an existing row (the PlusFiles delete steps). An append
  keeps the row's location and loads the location's segment rows in order;
  otherwise `plusRandLocation` picks a fresh location, or fails when none is
  left.
- `BWrite` and `BufLoop`: `bufferedWriter.Write`, which is bufio's loop. A
  write larger than the buffer goes straight through when the buffer is
  empty. Otherwise the buffer is filled and flushed. Once the sticky error is
  set, the bytes are dropped.
- `PWUpload` and `PWInsert`: `plusWriter.Write`. The segment is numbered last+1
  and uploaded to Swift, and joins the in-memory list. Then its row is
  INSERTed. A primary-key conflict is an error, and the chunk counts as
  written. `PWFail` is a failed upload (nothing written) or a failed INSERT
  (all written).
- `WCommit`, `WCommitManifest`, `WUpsert`, `WCommitted`: bufio's Flush, then
  `plusWriter.Commit`. The state checks come first. Then `WriteSLO` writes the
  manifest, `writeFileInfo` upserts the row, and mkdirAll runs (PlusFiles'
  `MkdirStep`). Only then is `committed` set. Close runs the same path.
- `WCancel`, `WCancelDelete`: Flush, then `plusWriter.Cancel`. It sets
  `cancelled` and drops the segment list, then runs the driver's Delete. A
  Delete whose read fails still leaves the writer cancelled.
- `Fail` (from PlusFiles) fails any statement that makes a call. bufio's
  loop, the flag updates and Cancel make no such call, or handle their own
  failure, so it skips them.

A client opens a new writer only once its previous one is committed,
cancelled or failed (`Finished`). `WriterMisuse` lets the caller keep using
a writer after Commit or Cancel.

### MCPlusWriter.tla
Model values: names `{a, b}`, data `{x, y}`, locations `l1..l3`, clients
`c1, c2`. The writer path is `<<a, a, a>>` (depth 3, so the commit's mkdirAll
inserts two levels), or `<<a, a>>` in the failure run. `ChunkSize` is 1 and
writes are `<<x>>` or `<<y, y>>`. A one-byte write is buffered, and the
two-byte write takes bufio's pass-through path. `MaxSegments` 3 bounds both
the segment numbers and the bytes a writer takes.

### ScopeParse.tla
`ParseScope` as an operator. A string is a sequence of *atoms*: one
punctuation character, or a whole lower-case word (`"registry"`,
`"catalog"`, `"pull"`, `"a"`, ...). No word is spelt by other atoms, so two
atom sequences denote the same string exactly when they are equal. The
length of a string is the sum of its atoms' lengths.
- `Split` is `strings.Split`, including `Split("") = [""]`.
- `RegexpRun` is the automaton that `repoNameRegexp` compiles to.
- `ParseScope` keeps the code's early returns in their order.

A reference grammar written independently of the code (`IsRepoName`,
`IsRepoScopeString`, `ScopeString`) is what the code is checked against. `IsRepoScopeString` takes the length limit as a parameter, so that the boundary can be stated separately.

### TokenAuth.tla
`handleGetAuth`, one step per call: `Receive`, `ParseRequest`,
`FindAccount`, `GetAccessLevel`, `Filter` (the two filters) and `ToJWT`
(the panic). Each call may fail with its own response. Two callees are not
under `src/`, so they are inputs:
- `auth.ParseRequest` gives the `scope` parameter to `ParseScope`, or fails
  on the Authorization header.
- An openstack `AccessLevel` is modelled by the three predicates the filters
  call.

One request at a time: the handler keeps no state across requests.

### RegistryProxy.tla
`requireBearerToken` with its two callers, and `handleProxyToAccount`. Each
request is served in one step, because the handlers share no state.
- `last` is the request answered, `w` the response, `fwd` the request sent
  to the backend.
- `seen` is a ghost: the account existence and status of each account-route
  request made without a token.
- The token check, `FindAccount`, `http.DefaultClient.Do` and the backend's
  answer are inputs.

### AuthDriverRegistry.tla
`authDriverFactories`, `RegisterAuthDriver` and `NewAuthDriver`. A binary
links any subset of the driver packages, and their `init()` functions run
in any order. A duplicate name makes `init()` panic (phase `"panicked"`).
Then `main` calls `NewAuthDriver` with a configured name, which may be
unknown.

### MCTokenAuth, MCRegistryProxy, MCAuthDriverRegistry
- Token endpoint inputs:
  - every string of up to 3 atoms over 12 atoms;
  - every well-formed `type:name:actions` string, with names of up to 3
    atoms over `{a, -, /, catalog, registry}` and up to 2 actions.
  - Two accounts and 12 access levels.
- `RepoNameMaxLen` is 9 instead of 256. The limit is scaled, so a name of
  exactly the limit is reachable with 3 atoms.
- Proxy: one existing and one missing account, three rest paths, clients
  with and without `X-Forwarded-For`, and with and without a remote address.
- Registry: two packages register `"keystone"`, plus `trivial` and `ldap`.
  The configuration may also ask for the unknown `"oauth"`.

## 4. Runs

| Run | Expect | What it shows |
|---|---|---|
| files_seq | pass | Served one at a time, the handlers implement StorageFS. Every row has the shape of the spec's FileRecord (§3): a directory has neither content nor location, and a file is empty, inline with the content of its size, or in Swift with no inline content. Every row sits under a directory row, and every file row is readable once no request is in flight. (122k states) |
| files_crash | pass | With any statement failing, no Swift blob is ever left without a row: upsert before upload, blobs deleted before rows. (1.3M states) |
| files_race_tree | violation | Delete of `/a/a` scans, PutContent of `/a/a/a` upserts and finds `/a/a` still there, and Delete drops `/a/a`. The file's parent row is gone. |
| files_moveself | violation | `Move(p, p)` deletes p. |
| token_auth | pass | `ParseScope` agrees with the grammar on repository scopes: what it accepts is in the grammar, and it accepts every scope of the grammar whose name is shorter than the limit. A name of exactly the limit is left out, since the check on line 90 and the error text of line 39 disagree on it (see `MCTokenAuth_namelimit.cfg` below). The token about to be issued grants only requested actions that the access level allows, on an account that exists. (193k states) |
| scope_empty_actions | violation | `registry:catalog:` is accepted with actions `["*"]`: `Split("", ",")` is `[""]`, so the empty-actions check (scope.go:79-81, which returns `errorScopeActionInvalid`) never fires. `errorScopeActionUndefined` ("actions must not be empty", line 41) is defined but never returned. |
| auth_registry | pass | Whatever packages are linked and whatever the init order, the driver main gets is the only one registered under its name. A duplicate panics first. |
| proxy | pass | `/v2/` and `/v2/_catalog` answer 401 exactly without a valid token, with the route's challenge and the version header. A forwarded request goes to the named account's backend with the account segment removed and the right `X-Forwarded-For`. |
| writer_seq | pass | One client opens, appends to, writes, commits and cancels writers through the buffer. A commit leaves the old bytes followed by what was written, the tree stays connected, every row stays readable, and every call returns (`RequestsReturn`, under weak fairness). (178k states) |
| writer_fail | pass | With every Swift and database call able to fail, a manifest names only segments whose rows were recorded with the same hash: a failed Write's sticky error stops the commit. (58k states) |
| writer_orphan_segments | violation | A commit's mkdirAll fails after its upsert. A later Write and Cancel record a segment, and Cancel's Delete fails. The next append loads that segment, so the file holds bytes nobody committed (spec §8 property 3). |
| writer_misuse | violation | A second Cancel is not refused: `Cancel` checks only `closed`, which nothing sets, and `Write` checks nothing (spec §4.3, §8 property 6). |

Further configurations show violations that are kept out of the listed
runs. Each states its property in the module, and each is a hazard note in
PROJECT.json:
- `MCPlusFiles_race_dangling.cfg` (NoDanglingRows): Delete deletes a file's
  blobs, Move renames its row, and Delete's DELETE by key misses it.
- `MCTokenAuth_namelimit.cfg` (RepoNameBelowLimit): a name of exactly 256
  characters is accepted, though the error says "less than 256".
- `MCRegistryProxy_existence.cfg` (AccountExistenceHidden): without a token,
  a missing account gets 404 and an existing one gets 401 (the TODO at
  scope.go:185-190).
- `MCPlusWriter_append_put.cfg` (AppendKeepsContent): appending to a file
  PutContent stored inline drops its bytes.
- `MCPlusWriter_move.cfg` (LocationsUnique): Move of a file with an open
  writer, then Commit, leaves two rows on one location.
- `MCPlusWriter_two_appenders.cfg` (NoDanglingRows): an appender that read
  the row before a concurrent truncating open commits a manifest of deleted
  objects.

Each passing property has a mutant, a plausible bug that the property catches
(PROJECT.json "mutants"): mkdirAll not recursing, deleteDownwards not
recursing, PutContent returning before its upload, PutContent not deleting
the old blobs, and PutContent keeping the inline content of a row it tiers to Swift (no `fi.Contents = nil`). On the writer
side: segment numbers starting at 0, or reusing the last number; an append
that does not load the existing segments; a commit that ignores bufio's
error; a commit upsert without mkdirAll; and mkdirAll stuck on one
directory, which `RequestsReturn` catches. On the authentication side: a
regexp accepting a trailing separator, push granted on the view permission,
the missing nil check of `FindAccount` or of the factory lookup, registration
without the duplicate check, the version header set only on success,
`X-Forwarded-For` without `SplitHostPort`, and the account prefix trimmed
without its slash.

Fairness: writer_seq checks `RequestsReturn` (a request in flight eventually
returns) under `WFairSpec`, weak fairness on each client's steps while it
has a request in flight. Each step is a blocking call that returns, and no
handler waits on another request, so the code justifies this. The other
runs check safety only.

Deadlock is checked in every run but auth_registry: a client can always
start a new request. The AuthDriver registry really stops. After `main` has
its driver, or after an `init()` panicked, nothing in it runs again. Its cfg
says `CHECK_DEADLOCK FALSE` for that reason.

## 5. Not modelled, and why

- Bootstrap and schema migration: one-time startup I/O. The model starts
  from the empty tables the migration creates.
- The proxy's response body copy (`io.Copy`, scope.go:219) and header
  copying: pure I/O. A failed copy after the status line is listed as a
  hazard.
- `auth.ParseRequest`, openstack `AccessLevel` and `Token.ToJWT` are not in
  `src/`. They are inputs of TokenAuth, and `ToJWT` is only the step before
  the panic.
- The `AuthDriver` and `Authorization` interfaces (auth_driver.go 25-82)
  have no implementation in `src/`. A driver is identified by the package
  that registered it.
- `Reader` and `URLFor` of the driver facade, and `Stat`/`List` beyond their
  use as read-only operators. They change no state, and Reader's ranged
  slicing is planned as an operator.
- The Swift adapter is not in `src/`. It is modelled from the spec (§6) as a
  map of objects with prefix delete and SLO manifests, and its definitions
  are marked `spec_modelled`.
