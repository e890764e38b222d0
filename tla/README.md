# A TLA+ model of goydb

goydb is a CouchDB-compatible document database in Go on top of bbolt. This
directory models how it takes writes, serves changes, queries and attachments,
builds indices, replicates, compacts and manages databases. TLC checks the
models on small instances; for every value of the constants, TLAPS proves what
matters most of the document store, of the requests that write to it, of its
changes feed and push feeds, of compaction, of attachments, of index builds, of
the storage manager, of the replication service, and that a replication job does
what a one-way copy promises until transactions overlap. Paths below are relative
to the repository (`internal/...`, `pkg/...`).

## What matters most: transactions in two steps

`DB.WriteTransaction` (`internal/adapter/bbolt_engine/db.go`) runs the
transaction's function in a bbolt *read* transaction and collects its writes in
an operation log. Afterwards the log is applied in a bbolt *write* transaction.
Two things follow, and much of this project is about them:

* **Nothing compares the snapshot with the database the log is applied to.**
  Two transactions overlap whenever both take their snapshot before either
  applies its log.
* **A transaction does not see its own writes.** What it puts and reads back is
  the value from before.

Every write of the models has these two steps, `Begin...` and `Commit...`.

## Inventory

| Component | State | Operations | Hard because of | Correct when |
|---|---|---|---|---|
| Storage engine (`adapter/bbolt_engine`) | the bbolt file and its handle | read and write transactions, `PutWithSequence`, compaction | snapshots and late logs; replacing the file under running transactions | a committed log stays |
| Document store (`adapter/storage/db_trx.go`, `db_doc.go`, `pkg/model/doc.go`) | `docs` (winning revisions), `doc_leaves` | `PutDocument`, `PutDocumentForReplication`, `DeleteDocument`, reads | conflicts, revisions in any order, cut histories, overlap | nothing accepted is lost, the winner is the greatest leaf |
| Changes and deleted indices (`adapter/index`) | `_changes` by sequence, its invalidation records, `_deleted` | hooks `DocumentStored`, `DocumentDeleted` | two counters must agree; hooks delete what a snapshot knew | each document has its one entry |
| Document requests (`handler/db_doc_put.go`, `db_doc_delete.go`, `db_doc_copy.go`, `db_docs_bulk.go`) | none | PUT, multipart PUT, POST, DELETE, COPY, `_bulk_docs` | checks, validation, transaction and attachments are separate | what is replaced is what was validated |
| Changes feed (`db_changes.go`, `handler/db_changes.go`) | none on the server; readers keep `since` | `Database.Changes`, normal feed | entries move between two pages | pages leave no gap |
| Listeners and push feeds (same files, `db_change_listener.go`) | the listener map, a channel per request | `NotifyDocumentUpdate`, continuous, eventsource, longpoll | a goroutine per update, timers, full channels | the last change arrives, longpolls are answered |
| Compaction (`db_meta.go`, `bbolt_engine/db.go`, `handler/db_compact.go`) | `.compact.tmp`, `_revs_limit` | `compactDocuments`, `DB.Compact` | runs next to writers; crashes; failed renames | nothing else is lost |
| Attachments (`db_attachment.go`, `db_trx.go`) | blobs named by digest, `att_refs` | put, delete, stubs, inline delivery | counts in a transaction, files outside of it | content in use is on disk |
| Local documents (`db_trx.go`) | `_local/...` | put with revisions `0-N` | hold the replication checkpoints | a checkpoint never claims too much |
| Index builder and tasks (`adapter/index`, `controller/design_doc.go`, `controller/task.go`, `db_task.go`) | index buckets, invalidation records, the task queue | update in a transaction, build, rebuild in pages, complete | a rebuild races updates; crashes and failed tasks | rows are those of the stored function |
| Listings, views, Mango (`db_iter.go`, `db_all_docs.go`, `db_view.go`, `pkg/model/find.go`, `db_find_docs.go`, reducers) | none on the server; clients keep skip, bookmark or key | `_all_docs`, views, `_find`, `_partition/_find` | paging while others write; tombstones; collation | pages miss nothing, reductions are exact |
| Replicator (`controller/replicator.go`, `adapter/replication`) | checkpoints at both peers | pages of changes, revs_diff, delivery, checkpoint | a stop anywhere; lost saves; cursors | a resumed run misses nothing |
| Replication service (`service/replication.go`) | running jobs, `_replicator` documents | scan, submit, cancel, state updates | jobs that end while others start; conflicts; backoff | wanted ones run, deleted ones end |
| Storage manager (`storage.go`, `storage_db.go`) | open databases, files | create, open, delete, reload, close | requests that hold a database that is closed | what was created is served |
| Search (`db_index_search.go`, bleve) | the bleve index | documents and queries passed on | - | - |
| Security, sessions, HTTP decoding | security object, cookies | checks before a request | - | - |
| View servers, configuration, logging | none that lasts | interpreters, start-up | - | - |

How they interact: a handler calls one or several operations of a `Database`,
each in a transaction on the engine; inside it the index hooks run; after it
`NotifyDocumentUpdate` starts a goroutine that calls the listeners, which are
streams, longpolls and the replication service. A replicator uses a database
like a client does, through `LocalDB` or HTTP. Design documents put tasks in
the queue, and the task controller builds the index. `PROJECT.json` lists the
hazards of all of them, by line.

## Modules

| Module | Models | Built on |
|---|---|---|
| `DocTx` | one document transaction as pure operators: the order of revisions, reads of a snapshot, the operation log of each kind of write, applying a log | - |
| `DocStore` | the document store: writers, peers, histories of what was minted and accepted; its properties and inductive invariants | `DocTx` |
| `DocTxProofs` | lemmas about the operators of a transaction and of a page, and about numbers, finite sets and sequences | `DocTx`, `Changes` |
| `WriteRequests` | the HTTP requests that write, from their checks to their answer, batches included | `DocTx` |
| `Changes` | reading a page of the changes feed | `DocTx` |
| `ChangesFeed` | readers that page through the feed while writers write | `DocStore`, `Changes` |
| `LiveFeed` | notifications, streams and longpolls next to writers | `DocStore`, `Changes` |
| `Compaction` | compaction, failed renames and crashes next to writers | `DocStore` |
| `DatabaseProofs` | theorems of the store and of what runs next to its writers | `DocTxProofs`, `ChangesFeed`, `LiveFeed`, `Compaction` |
| `Attachments` | attachments, counts and blobs, in two-step transactions | - |
| `OneWayCopy` | abstract specification: what a replication promises | - |
| `Replicator` | one replication job between local and HTTP peers | `Changes`, implements `OneWayCopy` |
| `ReplicationService` | the loop and goroutines that run `_replicator` documents | - |
| `IndexBuilder` | one index with all that writes it: hooks, design documents, rebuilds | - |
| `Storage` | creating, deleting and using databases, down to files and locks | - |
| `WriteRequestsProofs`, `AttachmentsProofs`, `ReplicatorProofs`, `IndexBuilderProofs`, `StorageProofs` | their theorems | each of them; `DocTxProofs` under requests and replicator |
| `ReplicationProofs` | theorems of the replication service | `ReplicationService` |
| `Iterator`, `Selector`, `ViewRows` | pure operators: listings in key order, Mango selectors, collation and reduction of views | - |
| `Queries` | clients that page through them next to writers | the three above |
| `MC...` | values, symmetry and bounds for TLC | each of them |

### How state and actions correspond to the code

*Revisions.* "3-ab12" is `[gen |-> 3, hash |-> h]`. The hash is a number, so that
comparing strings is comparing numbers. The hash covers the content and the
revision edited (the `_rev` in `doc.Data`), hence `Mint` gives a revision one
lineage and one deleted flag wherever it is made. Bodies play no part.

*Buckets.* `db` is a record of the buckets: `docs`, `leaves`, `changes` and
`inval` with their counters `changesSeq` and `invalSeq`, `deleted`. An operation
log (`OpLog`) says which document is put and which entries and leaves are put or
removed; `Apply` is `WriteTransaction.Commit`. `pend[w]` is the log that writer
`w` has yet to apply.

*Document store.* `BeginPut`, `BeginDelete` and `BeginReplicate` are the three
operations up to the end of the transaction's function, guards included;
`Commit` is the rest. `PeerEdit` is the environment: a CouchDB peer that edits
the same documents. `BeginReplicate` delivers any revision known anywhere, any
number of times, with its true history cut at any length. `known`, `anc`, `dead`
and `acked` are history variables that no action reads except to keep minting
consistent. `overlapped` remembers whether a transaction ever began while another
was pending: what only holds of transactions one at a time (`Serial...`) is
stated for behaviours of any number of writers, as long as it is false.

*Requests.* `Put`, `Multipart`, `Post`, `Delete`, `Copy` and `BulkDocs` take the
limit check against `Stats` and leave an open request; `Validate` reads the
document `validate_doc_update` is given, in a transaction of its own; `Begin`
computes the log of the one transaction that stores the documents, all from one
snapshot (`Refused` when nothing is stored); `Commit` applies it; `Attach`
stores the inline attachments of a PUT. What the limit check cannot count is
history: `todo` is how many documents a request has yet to store, `Unstored` lists
them for all open requests, and `unseen` counts what a request stores under a
revision, those that waited when it was checked, and those that arrived since. A
deletion of a missing or conflicting
document in a batch panics and takes the batch along (`Panics`). A limit of 0
is no limit (`Limited`).

*Changes.* An entry's place in the feed is its rank, the number of sequences up
to it (`Entries`). `since` is a sequence, or `Start` (`""`, `"0"`), `Now` (`"now"`), or
`MinusOne`. The last is what the longpoll's listener computes: `LocalSeq-1` of
a document whose `LocalSeq` is 0 prints as "-1", which is not "0" and parses as
an error and 0. `After` seeks the first entry at or after `since` and moves on
by one, as the cursor does. `Result` gives the document as it is now.

*Live feed.* A note is a notification goroutine; it ranges over the listeners in
any order and deletes the ones that asked for it at its end, as
`NotifyDocumentUpdate` does. A stream registers, reads the feed once, and then
takes notifications from its buffer. Longpolls have a channel of one per
attempt, a timer per attempt and a listener per attempt. Sending is an action of
its own, because it blocks when the channel is full.

*Compaction.* `TrimBegins`/`TrimCommits` are the transaction of
`compactDocuments`; `Copies`, `Closes` and `Swaps` are `DB.Compact`. While the
file is closed a commit fails and no transaction begins. `Crash` may come at any
time, and leaves the copy beside the file when it comes before the rename. Every
bbolt transaction that committed is on disk (bbolt syncs). `bbolt.Compact` is
external: it copies one snapshot and fails on a destination that has the
buckets already.

*Attachments.* `MoveUpload`, `PutAttachment`, `Commit` and `RemoveBlob` are the
four parts of `Database.PutAttachment`. `PutDocument` stores whatever stubs a
request names, any content under any name, and counts nothing, as the handlers
do; the parts of a multipart PUT and the inline data of a PUT are a `PutDocument`
and then `PutAttachment`s. `PutDocumentForReplication` writes and counts what
comes with its content, once for each content of a transaction, and stores other
entries uncounted; the documents of one transaction are `Deliveries`, each at
most once, and `winners` those that come to be stored. An attachment is its
digest and how many times "md5-" stands before it, since GET answers with a
prefix that PUT keeps. An entry without a digest counts as none. `disturbed` is
history: the contents that were stored for a name that did not have them
(`stub`), delivered for two attachments at once (`twice`), or touched by two
requests that were open at once (`race`).

*Replicator.* One call of the peers is one action: `VerifyPeers`,
`LoadsCheckpoint` or `LoadFails`, `GetChanges`, `RevsDiff`, `BulkGet`,
`SaveSource`, `SaveTarget`; the delivery of a batch is two, as every transaction
that changes documents: `BulkDocs` takes its snapshot and `CommitBatch` applies
its log. Clients and peers write with `SourceWrite` and `SourceCommit`, and
`TargetWrite` and `TargetCommit`. `overlapped` remembers whether a transaction
ever began on a database that had another open. `run.at` says which call is
next; `Stops` breaks a run off before any of them, a save may be lost,
`TargetRemoved` takes the target away. Documents arrive with the history numbered
anew by the `_revisions` they were sent with (`Renumbered`). What an empty page
answers differs by kind of peer (`LastSeqWhenEmpty`): goydb's handler answers
`"0"`, `LocalDB` the `since` it was given. `src` and `tgt` are the buckets of
`DocTx`, and deliveries are its `PutDocumentForReplication`.

*Replication service.* The scan takes one document at a time (`ScanBegins`,
`Submit`, `SubmitWrites`, `Passes`, `ScanEnds`); a document of whose source or
target no peer can be built (`valid` is false) gets the state "error" and no job
(`Refuses`, `RefusalWrites`). A goroutine writes its state
(`PutsRunning`, `PutsFailure`, `PutsCompleted`), runs and ends (`RunSucceeds`,
`RunFails`, `Ends`). The loop and the goroutines share `active` under the mutex,
so each step under it is one action. A put may come to nothing if its document
was written since it was read. `Ends` removes the entry of the id, whoever's it
is by then; `orphaned` remembers when it was another's.

*Index builder.* A transaction of a document write computes the rows and the
records to add and remove for its index (`BeginWrite`, `CommitWrite`); that of a
design document replaces the function in memory at once and its buckets and task
at commit (`BeginDesign`, `CommitDesign`, `RejectDesign`). The task runner takes
tasks, reads a page, updates, commits, saves its progress, and completes what it
took (`TakeTasks` to `CompleteTasks`); a rebuild may fail, and `Restart` is a
crash. A row's key is the emitted key with the sequence (views) or the id
(Mango). A view's records begin with the id of their document, and the code takes
those whose length is that of the id and a sequence (`OldKeys`,
`db_index_regular.go:150`); `OldByPrefix`, a mutant, leaves the length out. Two
history variables tell what may go wrong in the code: `built` says by which
function a document was last indexed, and `Mixed` if what the log was computed
from, records, body or function, was changed by another transaction before the
log was applied; `astray` says that the function in memory was once another than
the stored one while no design document was being written. A page and
the logs computed for it are functions on documents, whose order is that of the
ids. That a Mango index has at most one key per document, as its function emits
one row, is an assumption on `Emits`.

*Storage.* `CreateRequest`, `CheckLimit`, `LockToCreate`, `OpenFile`, `Build` or
`BuildFails`; `DeleteRequest`, `CloseFile`, `RemoveFile`, `RemoveDir` or
`RemoveFails`; `Lookup` and then `BeginTx` and `EndView`, or these two with
`BeginUpdate` and `CommitTx`, for every other request, since a write transaction
of the engine is two of bbolt's and a deletion may come between them; `StoreBlob`
is what `PutAttachment` does before its transaction. Opening
waits for the file's lock, closing for the bbolt transactions on it, both while
`Storage.mu` is held. `Restart` loads the files without a dot in their names,
then `Seed` and `Secure` see to `_users`.

*Queries.* `ListDocs`, `FindDocs`, `PartitionFind`, `LookupEq` and `LoadDoc`,
`ViewMap`, `ViewReduce` answer one page each, and the client goes on by skip,
bookmark or start key until a page is not full. `LookupEq` reads the ids in one
transaction, each `LoadDoc` a document in another. `Write` stores a document or a
tombstone in between. Keys are ranks in byte order, of documents, design
documents and local documents; a value is its type and numbers.

### Abstract specifications

`OneWayCopy` is what a replication promises: documents change at the source,
the target comes to have their current revisions and never gives one back, and
the resume point moves only to where everything before it is at the target,
unless a reader read on from a change that was overtaken. It promises nothing
once two transactions on one database overlapped. `Replicator` is shown to
implement it with

    Copy == INSTANCE OneWayCopy WITH current <- src.inval, has <- ..., resume <- ...

where `resume` is what `loadCheckpoint` would return for the two checkpoint
documents, were a run to start now. `IsOneWayCopy` is checked by TLC and proved, step by
step, for every behaviour in which no history at the target is cut
(`ReplicationIsOneWayCopy`). The history variables `gap` and `overlapped` are part
of both: they name the two cases in which the promise fails, and TLC shows both
failures (below). That the replicator resumes safely, `ResumeIsSafe` of this
specification, is proved of the replicator itself (`ResumeSafe`).

In the document store the revision tree (`anc`, `acked`) is the abstract
document: `AckedNotLost` and `WinnerOfAccepted` relate the buckets to it. In
`Queries` the selectors, collation and reducers are checked against definitions
over sets (`Wanted`, `Reduced`).

## Runs

Each run is `MC*.tla` with the `.cfg` of the table. Bounds are constants:
`MaxGen` generations, `MaxSeq` sequences, `HistCap` for the 1000 of the code,
`Max...` for requests, writes, faults and crashes. Times are of two workers.

| Run | Configuration | Instance | Checks |
|---|---|---|---|
| `docstore` | `DocStore` | one document, two hashes, 3 generations; two writers that overlap and 3 revisions, or one at a time and 4 revisions (2 min) | `FeedCovers`, `AckedNotLost`, `IInv`, `FeedMovesOn`; `SerialWinnerRule`, `SerialIndicesExact`, `SerialWinnerOfAccepted`, `SerialRevsDiffKnowsLeaves`, `SerialEditExtendsLeaf` |
| `write_requests` | `WriteRequests` | two documents, two clients, batches of two, a limit of one document (1 min) | `ValidatedOnBase`, `LimitOverrunBounded`, `RequestsKeepWinners` |
| `changes_feed` | `ChangesFeed` | two documents, two writers until their transactions overlap, a replicator and a client, pages of one (2 min) | `NoGapWhileAnchored`, `ClientsCatchUp` |
| `live` | `Live` | two documents, one writer, a stream with a buffer of one, a longpoll, two goroutines (2 min) | `WaitingIsListening`, `LastChangeDelivered`, `PollsAnswer` |
| `compaction` | `Compaction` | one document, one writer, 3 generations, `_revs_limit` 1 | `LossOnlyWhileCopying`, `CompactionBetweenWritesHarmless` |
| `compaction_acked_lost_violated` | `CompactionAckedNotLost` | one writer | `AckedNotLost` fails under compaction |
| `attachments` | `Attachments` | two documents, two names, two contents, two clients, any stubs and deliveries of up to two attachments, crashes; three attachments in use at once, one when a content is disturbed | `BlobsPersist`, `RefsCoverReferences` |
| `replicator` | `Replicator` | two documents, four kinds of job, faults, until transactions overlap (1 to 2 min) | `CompletedMeansCopied`, `IsOneWayCopy`, `ContinuousConverges` |
| `replication_service` | `ReplicationService` | one replication document, with peers or without, two goroutines, two retries, stops (2 min) | `ActiveIsAlive`, `OneJobPerId`, `CompletedIsDone`, `WantedRuns`, `DeletedIsCancelled` |
| `index_builder` | `IndexBuilder` | two documents, two clients, two functions, a refused design document, a crash and a failure (2 min) | `RowsRemovable`, `RowsExact`, `NoTaskMeansBuilt`, `TasksDrain` |
| `storage` | `Storage` | two names and `_users`, two clients, a fault and a restart (1 min) | `TxOnCurrentFile`, `AckedIsServed`, `AnsweredUnlessHanging` |
| `queries` | `Queries` | five keys, two contents, all kinds of query, two writes (1 min) | `PagesMissNothing`, `QuietPagesExact`, `ReduceExact`, `PagingEnds` |

Most modules also have a type invariant (`TypeOK`, `FeedTypeOK`, `LiveTypeOK`,
`CompactionTypeOK`, `ReplicatorTypeOK`, `ServiceTypeOK`, `StorageTypeOK`, ...) and
the ones that are proved an inductive invariant (`SerialInv`, `CompactionInv`,
`ReadersInv`, `ListenInv`, `AttachmentsInv`, `ReplicatorInv`, `ServiceInv`,
`IndexInv`, `StorageInv`). They hold on the same
instances and cost time, so only `IInv`, which contains `TypeOK` of `DocStore`,
is in a run; add them to a `.cfg` when you change a module, before its proof.

### What they show

*However transactions overlap* (`docstore`): a stored document is in the feed, at
the sequence its record names (`FeedCovers`); when what is served changes, it
moves behind every sequence given out before (`FeedMovesOn`); an accepted
revision stays a leaf or an ancestor of one (`AckedNotLost`).

*With one writer at a time*: the winner is the greatest leaf and the greatest
revision ever accepted, in whatever order revisions arrived; the indices are
exact; `_revs_diff` never asks for a leaf that is stored, although histories get
mixed; an edit extends a leaf. With two writers these fail: both edits of one
revision are acknowledged.

*Requests*: although validation reads the document in a transaction of its own,
what a client's write replaces is what was validated: had the document changed,
the revision the client names would be stale (`ValidatedOnBase`; a deletion of a
conflicting leaf is the exception, it is validated against the winner). The
document limit is checked before the transaction, so it is exceeded, but by no
more than what the check did not count (`LimitOverrunBounded`). Batches whose
ids are distinct leave winners and indices right (`RequestsKeepWinners`); the
same id twice in one batch leaves two entries of it in the feed.

*Reading the feed*: as long as no two transactions overlapped, pages leave no
gap, provided that the entry a reader resumes
from is still there. When it was replaced in between, the cursor skips the
entry of another document, and a replicator misses that document until it is
edited again. A client of the normal feed recovers by accident: an empty answer
says `"last_seq":"0"` and sends it back to the start, and so it comes to have
every current revision, if no two transactions ever overlap (`ClientsCatchUp`).
If two do, a stale entry stays in the feed, from which the client jumps to the
end, from there to the start and so on, and never gets the documents in between
(`ClientsAlwaysCatchUp`).

*Push feeds*: a stream that is open and never had a full buffer gets the
document changed last. Nothing more can be said of a stream: a notification
overtaken by a later one is skipped, because its sequence is no longer after
`since`. A longpoll that waits can always be woken, and is answered.

*Compaction*: only what was accepted between the copy and the closing of the
file is lost, and only when the copy is put in place; a crash or a failed rename
loses nothing. As long as neither the trim nor the swap comes between the steps
of a transaction, winners, indices and `_revs_diff` stay right, however short
the histories are cut.

*Attachments*: of each content it is claimed that it is on disk while it is in
use, and counted at least as often as it is used, until it is disturbed: stored
as a stub for a name that did not have it, delivered for two attachments at once,
or touched by two requests that were open at once. Other contents may be. The
first needs no concurrency: a client that copies a stub into another document and
then deletes the attachment it was counted for loses the content of both
(`PersistDespiteStubs`).

*Replication*: until two transactions on one database overlap, every step of a
job, with runs that break off at any call, lost saves, a session recorded at one
end only and a target that is removed, is a step of the one-way copy, so a run
never resumes beyond what was copied. A one-shot run that completes has copied
everything, unless it read on from a replaced entry. A continuous job that reads
from a goydb over HTTP converges in spite of that, through the same accident as
above. Two overlapping writes at the source leave a stale entry, and a run or a
checkpoint jumps over documents that were never copied (`AlwaysConverges`).

*Replication service*: what the service believes to be running is alive. A
replication that is wanted comes to run, whatever conflicts, crashes and
restarts came before; one whose document was deleted is told to stop, unless a
goroutine that ended took the entry of its successor along; from then on the
service does not know the successor any more, and starts another beside it. A
document that can get no peers is taken up again by every scan
(`RefusedIsLeftAlone`).

*Index builder*: the index holds what the function emits for each document whose
last indexing was not overtaken by another (`RowsExact`), and no row of a view
gets out of reach (`RowsRemovable`), with a rebuild next to edits and changes of
the function. When the task count is zero, for which a view query waits, every
document was indexed by the stored function or by a write that overlapped
another, unless a rebuild failed or the function in memory went astray: a refused
design document, or two that commit in another order than they compute, leave it
there although another is stored (`NoTaskMeansBuilt`; `BuiltEvenAstray` shows the
last). The count does get there (`TasksDrain`).

*Storage manager*: a transaction runs, in both its halves, on the file that bears
its name, however the name is deleted and created again; a database whose
creation was answered is served until it is deleted, if its name has no dot;
requests are answered, unless two creations of one name pass the lookup together.
A file that `PutAttachment` moves before its transaction outlives a deletion
(`BlobsAreItsOwn`).

*Queries*: paging by skip or start key misses no document that nobody wrote
meanwhile, whatever else is written, since tombstones keep their place; without
writes the pages are exactly what was asked for; the built-in reducers are exact
for every group, although rows are not in the order of their keys.

### Further counterexamples

TLC finds each of these violated. They are kept for whoever changes the code:
most say what a comment, a name or a test of the code suggests, or what a reader
would expect. The first group has configurations of its own.

| Configuration | Module | What it shows |
|---|---|---|
| `NothingMissed` | `MCChangesFeed` | a page that resumes from a replaced entry skips another document |
| `NoGapWhileAnchored` (states `NoGap`) | `MCChangesFeed` | two overlapping writers leave a stale entry that makes a page's last sequence jump |
| `NotifierNeverStuck` | `MCLiveFeed` | a goroutine that sends to a longpoll's channel blocks for ever |
| `TimeoutReturnsNothing` | `MCLiveFeed` | a longpoll with `since=now` that times out answers with the whole feed |
| `PollReturnsNew` | `MCLiveFeed` | a longpoll woken by the first document does not answer with it |
| `CompactionKeepsFeed` | `MCCompaction` | a transaction across a swap removes another document's entry |
| `AttachmentsPrefixed` (states `PersistDespiteStubs`) | `MCAttachments` | one client, one document: a digest put back as GET spells it is counted as another content, and content in use is removed |
| `AttachmentsRaces` (states `PersistDespiteRaces`) | `MCAttachments` | overlapping requests remove content in use |
| `AttachmentsReplicated` (states `PersistDespiteTwice`) | `MCAttachments` | content delivered twice in one document is counted once, and removed with the first |
| `BlobsRemoved` | `MCAttachments` | deleting a document leaves its blob |

The second group needs the property put in the place of those of the run's
configuration, and what the last column says.

| Property | Module | What it shows | With |
|---|---|---|---|
| `WinnerRule`, `IndicesExact`, `EditExtendsLeaf` | `MCDocStore` | two overlapping writers leave a loser in `docs`, stale entries, and both edits of a revision acknowledged | - |
| `LeavesAreLeaves` | `MCDocStore` | a revision delivered again becomes a leaf next to its descendant | - |
| `HistoryIsChain` | `MCDocStore` | an edit of a document with conflicts stores the other branches in its history | `HistCap = 3` |
| `TrimKeepsRevisions` | `MCCompaction` | the trim takes back an edit | as a `PROPERTY` |
| `ClientsAlwaysCatchUp` | `MCChangesFeed` | a stale entry keeps a client of the normal feed from a document for ever | as a `PROPERTY`, without `CONSTRAINT` |
| `PersistDespiteStubs` | `MCAttachments` | a stub in a second document is not counted; deleting the attachment of the first removes the content of both | without `CONSTRAINT` |
| `OneShotReturnsWhenComplete` | `MCReplicator` | a one-shot job completes without a document whose predecessor in the feed was replaced | - |
| `LocalConverges` | `MCReplicator` | a job from a local database never gets that document | - |
| `AlwaysConverges` | `MCReplicator` | after two overlapping writes at the source, a job from an HTTP peer goes from the start to the end of the feed and back, past a document | without `CONSTRAINT` |
| `IsOneWayCopy` | `MCReplicator` | unreadable or rejected documents and a target made anew are passed over by the checkpoint | `LossySpec` |
| `IsOneWayCopy` | `MCReplicator` | an edit at the target whose history is cut makes the target forget a revision that is current at the source | `HistCap = 1` |
| `CompletedFinishedSuccessfully` | `MCReplicationService` | a job cancelled at shutdown is written down as completed | `MoreBounds` |
| `RefusedIsLeftAlone` | `MCReplicationService` | a document with invalid peers has no time of a last retry, so every scan takes it up again (`service/replication.go:329`) | - |
| `DeletedAreCancelled` | `MCReplicationService` | a goroutine the service lost sight of outlives its document | `MoreBounds` |
| `QueryAfterWaitIsCurrent` | `MCIndexBuilder` | overlapping transactions leave a row of an older version | - |
| `BuiltEvenAstray` | `MCIndexBuilder` | a refused design document has replaced the function in memory, and documents written since are indexed by it | - |
| `RegisteredHasBucket` | `MCIndexBuilder` | a rejected design document leaves its function registered without buckets | - |
| `CompletedMeansBuilt` | `MCIndexBuilder` | a failed rebuild is completed with the rest | - |
| `CreateNeverHangs` | `MCStorage` | two creations of one name: the second waits for the file's lock with the mutex held (`db_create.go:24`) | - |
| `LimitKept` | `MCStorage` | two creations pass `max_dbs` together | `MaxDbs = 2` |
| `RegisteredHasFile` | `MCStorage` | a deletion that fails half way leaves a database that can be neither used nor deleted | - |
| `BlobsAreItsOwn` | `MCStorage` | an attachment stored while its database is deleted is found in a database created later under the name | - |
| `UsersSecured` | `MCStorage` | a crash between the two parts of its seeding leaves `_users` without a security object for good | - |
| `DottedIsServed` | `MCStorage` | a database with a dot in its name is gone after a restart | - |
| `NonStringsDoNotMatch` | `MCQueries` | `$regex` on a field that is no string fails the query (`find.go:415`) | - |
| `MapOnlyKeepsRows` | `MCQueries` | a view without a reduce function answers one row per key (`design_doc.go:146`) | - |
| `PartitionFindComplete` | `MCQueries` | the limit counts documents of other partitions | - |
| `RangeRespected` | `MCQueries` | a descending listing begins at longer ids than its start key (`db_iter.go:121`) | `Sessions <- Descending` |
| `PagingEnds` | `MCQueries` | pages of one by bookmark repeat the same document for ever (`find.go:50`) | `Sessions <- OneByOne` |
| `RequestsKeepWinners` | `MCWriteRequests` | the same id twice in a batch | without the clause of `serial'` in `Begin` on distinct ids |

### Bounds, and why they are enough

*Documents and feeds.* Two generations make an edit, three an edit after a
conflict; two hashes make a conflict and its tie-break; two writers make every
overlap of two transactions, and the effects above need two. Three sequences let
a document move twice while a transaction that saw the first position is still
open. A history of two entries (`HistCap`) is already cut. `docstore` has one
document; what may go wrong between two, a stale log that removes another
document's entry, is covered by the theorems. Pages of one entry make every
position a page end. One stream is enough, since streams share nothing but the
goroutines; two goroutines are needed for one to overtake the other, and a
buffer of one is full after one. A longpoll makes at most two attempts.

*`docstore`'s two modes, `live`'s two kinds.* `MCDocStore` fixes at the start
whether transactions may overlap, since the serial properties, which say nothing
once one has, need a revision more than the others can afford, and begins no transaction that `MaxSeq` would keep
from committing. `MCLiveFeed` cuts off behaviours with a stream and a
longpoll at once: the longpoll can block the goroutines for ever
(`NotifierNeverStuck`), and the stream with them. Both cuts remove requests and
writes, which no fairness asks for. `MCWriteRequests` cuts off what follows an
overlap of two transactions: all its properties are conditional on there having
been none, and what overlaps break is `docstore`'s subject. For the same reason
`MCChangesFeed` and `MCReplicator` follow a behaviour up to the state in which two
transactions overlap and no further (`UntilOverlap`): from there on their
properties claim nothing. The properties that do are in the tables above.

*Attachments.* Two documents and two names make references to one content from
one document and from two; three attachments in use make an upload next to two of
them. `Calm` bounds those, and follows a behaviour with a disturbed content only
while another content is not disturbed, and with one attachment in use: what is
still claimed is claimed of that other content. The proofs have no such bound.

*Requests.* Two documents in a batch are enough for one to fail and the other to
be stored; three documents in all requests together are a batch next to a
request, or three requests.

*Replicator.* The four jobs are those in which the peers differ where the code
does; their bounds (`MCBounds`) are the writes and faults that each kind can
turn into a gap: two faults for the push, to record a session at one end and then
resume from the other; three writes where the reader falls behind. The client at
the target and that at the source write next to the job's own transactions. Two
documents make one that is skipped and one that was replaced.

*Replication service.* Documents do not touch one another, so one is enough,
which may be edited from peers that can be built to others; two
goroutines are the running one and the one that replaces it. Two retries are the
first and the last. A stop of the process is a shutdown and a restart.

*Index builder.* Two documents in pages of one make a rebuild of two pages, with
every edit between them; the two functions disagree on every body, and one emits
a key twice.

*Storage.* Six handles are more than four requests, a fault and a restart open.

*Queries.* The keys are one before the design and local documents and two after,
one a prefix of the other; `X` and `Y` differ in the type of one field and the
order of the other; two writes are a deletion and an insertion around a page
end.

Actions that would exceed a bound are disabled, so instances stop and deadlock
is not checked. What could wait for ever is stated instead: `PollsAnswer`,
`TasksDrain`, `AnsweredUnlessHanging`, `PagingEnds`, `WantedRuns`.

### Fairness

Only liveness properties use it.

| Module | Assumed | Because |
|---|---|---|
| `ChangesFeed` | a client that polls goes on polling | otherwise nobody reads |
| `LiveFeed` | goroutines that can proceed do, a live stream handles its buffer, timers expire | Go's scheduler and timers |
| `Replicator` | a job that is running goes on (`WF` of `Runs`); faults are bounded, so calls are answered in the end | the loop retries |
| `ReplicationService` | the loop and goroutines are scheduled, backoff ends, a stopped process is restarted, a cancelled run notices its context; a run need not end | scheduler, timers, the operator |
| `IndexBuilder` | the task loop goes on; crashes and failures are bounded | its ticker |
| `Storage` | strong fairness of every request's next step: mutex and file locks are granted, as Go's mutex does in starvation mode | a request competes with others for the mutex |
| `Queries` | a client that is not done asks and is answered (`Served`) | as `ChangesFeed` |

`Served` is weak fairness of the client's steps, one of which is enabled until
it is done; stated without `ENABLED`, which is slow to evaluate here. No
fairness is assumed of writers, of clients that open requests, of requests that
close, or of documents in a bounded number of requests.

## Proofs

Each theorem holds for every value of the constants: any documents, revisions,
writers, clients, functions and bounds. The proofs use the assumptions the
modules state about their constants (numbers are numbers, bounds of pages and
buffers are positive, sentinels are not elements; clients, documents, hashes and
names are finite sets where something is counted) and the library's facts about
finite sets, functions and sequences. `DocTxProofs` has no theorem of its own: it says
what each operator of a transaction puts, removes and preserves, and what a page
of the feed contains.

Folds and recursive functions over the documents of a batch, the keys of a
document or the entries of a page are reasoned about with `SetInduction` there: a
set of numbers that holds 0 and the successor of each of its members is `Nat`. It
takes a set and not an operator, and is proved from the well-foundedness of the
order on numbers, through `LeastNumber`.

| Module | Theorem | States |
|---|---|---|
| `DatabaseProofs` | `Inductive`, `TypeCorrect` | `Spec => []IInv`, `Spec => []TypeOK` |
| | `FeedAlwaysCovers`, `AckedNeverLost`, `FeedAlwaysMovesOn` | `FeedCovers`, `AckedNotLost`, `FeedMovesOn`, however transactions overlap |
| | `SerialWinner`, `SerialIndices`, `SerialConvergence`, `SerialRevsDiff`, `SerialEdits` | the `Serial...` property of each, until two transactions overlap |
| | `ReadersRunTheStore` | `FeedSpec => Spec`: readers leave the store alone, so its theorems hold |
| | `PagesLeaveNoGap` | `NoGapWhileAnchored` |
| | `FeedRunsTheStore` | `LiveSpec => Spec`: under push feeds the store does what it does alone, so its theorems hold |
| | `WaitingPollsListen` | `WaitingIsListening` |
| | `CompactionInductive` | `CompactionInv` |
| | `LossOnlyInWindow`, `QuietCompactionHarmless` | `LossOnlyWhileCopying`, `CompactionBetweenWritesHarmless` |
| `WriteRequestsProofs` | `RequestsInductive` | `RequestsInv` |
| | `WinnersKept`, `ReplacesWhatWasValidated`, `LimitHolds` | `RequestsKeepWinners`, `ValidatedOnBase`, `LimitOverrunBounded` |
| `AttachmentsProofs` | `AttachmentsInductive` | `AttachmentsInv` |
| | `CountsCoverReferences`, `BlobsAlwaysPersist` | `RefsCoverReferences`, `BlobsPersist` |
| `ReplicatorProofs` | `ReplicatorInductive` | `ReplicatorInv`, while `NeverCut` |
| | `CompletedRunsCopied` | `CompletedMeansCopied`, while `NeverCut` |
| | `ResumeSafe` | `Copy!ResumeIsSafe`, while `NeverCut` and until transactions overlap: a run that resumes misses nothing, unless a change was overtaken under a reader |
| | `ReplicationIsOneWayCopy` | `IsOneWayCopy`, while `NeverCut`: the replicator implements `OneWayCopy` |
| `ReplicationProofs` | `ServiceInvariant` | `ServiceInv` |
| | `ActiveAlive`, `OneJob`, `CompletedDone` | `ActiveIsAlive`, `OneJobPerId`, `CompletedIsDone` |
| `IndexBuilderProofs` | `IndexInvariant` | `IndexInv` |
| | `RowsStayRemovable`, `RowsStayExact`, `NoTaskIsBuilt` | `RowsRemovable`, `RowsExact`, `NoTaskMeansBuilt` |
| `StorageProofs` | `StorageInvariant` | `StorageInv` |
| | `TxAlwaysOnCurrentFile`, `AckedAlwaysServed` | `TxOnCurrentFile`, `AckedIsServed` |

Each proof has one lemma per action and, under it, one step per conjunct the
action can disturb; PTL combines them.

### The inductive invariants, and why they are needed

*`IInv`, transactions that overlap.* `FeedCovers` is not inductive: a log that is
applied late deletes the changes entry that was the document's when it began.
That this cannot hit another document needs `SequencesOK` (no sequence is used
twice, the two counters agree) and, of every pending log, that the sequence it
deletes belongs to its own document or to nobody (`PendChgOK`, `ChgOwn`).
`AckedNotLost` needs of every pending log that it writes the accepted revision
as a leaf and removes only ancestors of it, whatever has been committed since
(`PendOK`); that what a log removes *is* an ancestor comes from `TreeOK`
(ancestors are closed and older) and `StoredKnown` (what is stored was minted, and
sits at its key). `StoreInv` is the part of `IInv` that stays true even when the
buckets are put back to an older state. `FeedMovesOn` follows from `IInv` and
`IInv'` of a step: only a commit changes `docs`, and the record it writes is the
next sequence.

*`SerialInv`, transactions one at a time.* The winner, the indices and the
histories that begin with their leaf (`SoundAt`) are broken in the middle of
nothing, since a commit is atomic; but what a commit leaves was computed by the
first step. So the invariant says of every pending log that *applying it* leaves
its document sound (`PendSound`), with a winner that is at least the accepted
revision and at least the winner before. The last makes `WinnerOfAccepted`
inductive although it speaks of everything ever accepted: the winner never gets
smaller. That deleting the winner keeps that true is where generations come in:
the tombstone is newer than what it replaces. `DeadAt` (a leaf is a deletion
exactly if its revision was minted as one) is needed for a leaf that is delivered
again. `RevsDiffKnowsLeaves` follows from the histories that begin with their
leaf.

*`RequestsInv`.* A request takes steps in transactions of its own, so the
invariant says of each step what the next one relies on, for the database as it
is by then. `RequestsShaped` is what holds however transactions overlap: types,
that a revision has one document (`MintedOnce`), and what a request of each kind
carries. `RequestsSound` is what holds until two overlap. The log of an open
transaction, which a batch computes from one snapshot, has one write per document,
each as it would be computed now (`LogIsCurrent`); that applying it from the first
to the last keeps the buckets sound (`LogApplied`) needs that a write leaves every
other document alone and that no two documents share a sequence
(`SequencesApart`), or the hooks would delete another's entry. `ValidatedOnBase`
comes from `SeenIsCurrent`: what was read for `validate_doc_update` is the document
that is there, if the client names its revision. It survives other requests'
commits because the revision named was stored once (`ItemsKnown`) and the winner
has not been less since (`WinnerOfAcked`): once replaced, it is never the winner
again. `LimitOverrunBounded` is the end of `LimitInReach`: the live documents and
all that are yet to be stored exceed the limit by no more than what a checked
request did not count. A commit makes at most as many documents live as it takes
from those waiting, and attachments none, since they store a document as live or
deleted as it was (`LogOfAttachment`). That `Stats` counts live documents at all is
`DocCountIsLive`, which needs exact indices. TLC agrees that `RequestsInv` holds on
the instance of `write_requests`, which states its three consequences only.

*`ReadersInv`.* A page that begins at an entry that is still there contains what
comes after it, in order and without a gap (`PageLeavesNoGap` in `DocTxProofs` and the
lemmas before it, on sequences that list the feed by rank). That the page's last sequence
answers for everything up to it needs exact indices, which is why transactions
must not have overlapped: a stale entry answers with the document's later
sequence. A write between two pages only moves a document behind every sequence
given out (`FeedMovesOn`), and no reader is ahead of those (`GivenOut`).

*`CompactionInv`.* The swap puts an older file under pending logs, so `IInv` is
lost with it: a log may then delete the entry of another document
(`CompactionKeepsFeed`). What is left is `StoreInv`, and it must hold of the copy
too (`CopyOK`). `LossOnlyWhileCopying` needs that the copy covers whatever was
accepted and is neither in the window nor lost already (`CopyCovers`); a commit
keeps it, because what it accepts is in the window, and the trim never removes a
leaf. For `CompactionBetweenWritesHarmless`, `QuietSound` says that as long as
nothing came between the steps of a transaction or of a trim, the copy is as
sound as the buckets are, and the log of the trim is for the buckets as they are:
it then only cuts histories, which keeps their first entry, as `_revs_limit` is
positive.

*`ListenInv`.* A poll waits with a listener registered, or with a notification in
its channel. What could break it is a notification goroutine of an earlier
attempt that deletes the listener of the present one, or one that deletes it
without having sent: goroutines hold no listener of an attempt that is yet to be
made (`NoneAhead`), send to one channel at a time (`OneSend`), and whoever is about
to delete the listener has sent to a channel nobody received from since
(`GoneHasSent`).

*`AttachmentsInv`* speaks of each content that is not disturbed, whatever happens
to the others. Counts are computed by the first step of a transaction and stored
by the second, so it says of every request that touches the content that applying
its log leaves the count covering (`Covers`), and of what the request is about to
remove that it is not counted any more, before the commit and after (`Sound`). An
upload is on disk before it is counted. That only one request touches it
(`OneAtATime`) is what not being disturbed gives; that a log of another request
leaves its count alone follows from what `Touched` contains. The count goes down
by the contents a document gives up and not by its attachments, and a digest is
compared as it is spelt (`Plain` says that all are spelt alike), so the lemmas
compare cardinalities of the references, before and after.

*`ReplicatorInv`.* What a run resumes from is decided by two documents at two
peers that may be saved, lost and removed apart. `ResumesSafely` says that every
session recorded at both of them, and the last one if it is the same, stands at a
sequence up to which the target has everything (`Safe`). A run overwrites one of
them before the other; that this is harmless needs the same of what it records
(`RunsSafely`), and that no checkpoint knows a session newer than the run's
(`CheckpointsSound`: sessions are numbered as they come, so a new session meets
no entry of an old one). `Safe` of the next resume point follows a page through
the calls: what the page answers for is at the target or in the page, then at the
target or among what was fetched, then at the target. A write at the source
moves its document behind every sequence, so it disturbs nothing; where the page
was read from a replaced entry, `gap` is set and nothing is claimed. All this is a claim
until two transactions on one database overlap. A transaction computes its log at
its snapshot; `LogsSound` says that a log that waits is what would be computed
now, as no other one has begun, so that a commit is what an edit or a delivery in
one step would be. Finally the
target must not forget: a delivery or an edit there keeps every revision that its
documents are known by, as long as no history is cut. That is the hypothesis
`NeverCut` of these theorems. The code cuts at 1000 entries
(`db_trx.go:169`); with `HistCap = 1` TLC shows an edit that makes the target
forget a revision that is current at the source, which is then delivered again.
TLC's own run does not assume `NeverCut`: with `HistCap = 3` it includes
histories that are cut, and finds nothing wrong there.

*`ServiceInv`.* That a document says "completed" only after a run that was, needs
the same of every goroutine about to write it (`FinishingIsDone`), that a
cancelled one has left its mark on the document (`CancelledIsDisturbed`), and that
a document made anew says nothing (`DeletedSaysNothing`).

*`IndexInv`.* `RowsRemovable` and `RowsExact` need that a sequence of a view names one
entry for ever, whether it is stored or remembered by an open transaction
(`SequencesUnique`), or a late log would remove another document's row.
`NoTaskMeansBuilt` is the end of `StaleIsAhead`: a document nobody indexed by the
stored function is ahead of some task, in the page in hand, behind a full page,
or of a task not yet taken. Documents do not leave their place while pages are
read, since deletions leave tombstones, so what is behind a page stays behind it;
the lemmas about ranks (`RankRises`, ...) say so. And a function about to be
stored is registered and brings a task (`StoredIsRegistered`).

*`StorageInv`.* A transaction stays on the current file because what a request
found out under the mutex stays true until it has used it (`FoundStays`), which
takes that only one request is between taking and releasing the mutex
(`MutexHeld`) and that a handle is registered under its own name
(`RegisteredByName`). `AckedStays` says of the start of the server, too, that
what was created has its file and is registered.

### What is only model-checked, and why

* *Liveness* under fairness (`ClientsCatchUp`, `LastChangeDelivered`, `PollsAnswer`,
  `ContinuousConverges`, `WantedRuns`, `DeletedIsCancelled`, `TasksDrain`,
  `AnsweredUnlessHanging`, `PagingEnds`) is out of the prover's reach.
* *Recursion over data*: `PagesMissNothing`, `QuietPagesExact` and `ReduceExact` are
  about what selectors, iterators and reducers compute, in recursive definitions
  over rows and nested conditions that the provers cannot use.
* Replications whose target cuts histories, by TLC only (see `ReplicatorInv`).

## Observations

What modelling showed and no property of a run states. None of it is in the way
of the properties above; the models behave like the code in each point.

* A scan by `_find` returns design and local documents, a Mango index does not;
  a scan's skip counts raw keys, indices and sorts count matches and ignore the
  bookmark. Sorting by several fields is not lexicographic. `$mod` never matches,
  since JSON numbers are floats. `$exists` ignores its boolean.
* `_local_docs` is empty when a database has only local documents; `_all_docs`
  by GET ignores `descending`; `startkey_docid` filters all rows; `keys` with
  reduce and without group filters everything away; reduce ignores skip and
  limit; `include_docs` reads in another transaction.
* PUT multipart, COPY, DELETE, `new_edits=false` and writes with a `_rev` skip
  the document limit; COPY skips validation and copies tombstones as live
  documents; attachments of a PUT are stored without validation or a revision
  check.
* A function that is dropped leaves its rows when the process restarts before
  the document is deleted; the map of indices is not synchronised;
  `ProcessAllTasks` stops at the first database that fails.
* `BulkGet` ignores the revisions asked for; the history of a checkpoint grows
  without bound; the failure counter never exceeds one, since it is read back as
  a float, so nothing is given up after ten failures as
  `service/replication.go` says.

## Not modelled

Search keeps its state in bleve; view servers are interpreters; security and
sessions have no state across steps; HTTP decoding, configuration and logging
carry none of the properties.

Of the modelled parts: documents written before `RevHistory` or `doc_leaves`
existed, filters and `include_docs` of the feed, `descending` changes, races on
fields of one Go struct, two compactions at once, the migration of old
attachment layouts and attachments copied by COPY, size limits and passwords of
`_users`, local documents other than checkpoints, `_approx_count_distinct` and
custom reducers, several views of one design document together, text operators
other than `$regex`, several replications of one service together.

## What is left

1. Which revisions a target whose histories are cut may forget, and that it gets
   them again.
2. Attachments within `WriteRequests`, and replication of them.
3. Several indices of one design document, and the feed's filters.
4. What a batch that names a document twice leaves behind, as a theorem.
