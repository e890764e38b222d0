---------------------------- MODULE IndexBuilder ----------------------------
(***************************************************************************)
(* One index of a database - a view (ViewIndex over RegularIndex) or a     *)
(* Mango index - with everything that writes it: the hooks a document      *)
(* write runs inside its transaction, the design document that defines     *)
(* the index, and the task runner that rebuilds it in the background.      *)
(*                                                                         *)
(* A transaction computes its operation log from a snapshot and applies    *)
(* it later (WriteTransaction of the engine), so a writer has two steps    *)
(* and other commits may come between them.  The function an index runs    *)
(* lives in memory only and is replaced as soon as the design document's   *)
(* transaction computes, before it commits and even when it fails.         *)
(*                                                                         *)
(* Abstractions.  A document is a number, in the order of the bucket's     *)
(* keys, and its body decides what it emits.  The revision check of a      *)
(* write is DocTx's.  The design document holds at most this one function. *)
(***************************************************************************)
EXTENDS Integers, FiniteSets, Sequences

CONSTANTS Ids,         \* documents, numbered in key order
          Bodies,      \* bodies a client may store
          Fns,         \* sources of the index function
          Keys,        \* keys an index may hold
          Emits,       \* Emits[kind][fn][body]: the keys emitted, in order
          Writers,     \* clients
          BatchSize,   \* documents read per page of a rebuild (1000)
          TakeCount,   \* tasks taken at a time (10)
          MaxWrites, MaxDesigns, MaxCrashes, MaxFailures   \* bounds

None    == "none"       \* no such document
Deleted == "deleted"    \* a tombstone
NoFn    == "nofn"       \* the function is not defined or not registered
Mixed   == "mixed"      \* rows of a document that overlapping commits left

Kinds == {"view", "mango"}

\* A Mango index holds one key per document, a view whatever is emitted.
ASSUME IndexAssumption ==
  /\ Ids \subseteq Nat /\ IsFiniteSet(Ids)
  /\ {BatchSize, TakeCount} \subseteq Nat \ {0}
  /\ {NoFn, Mixed} \cap Fns = {}
  /\ {None, Deleted} \cap Bodies = {}
  /\ \A k \in Kinds, f \in Fns, b \in Bodies : Emits[k][f][b] \in Seq(Keys)
  /\ \A f \in Fns, b \in Bodies : Len(Emits["mango"][f][b]) <= 1

\* An entry of the index.  A row's key is the emitted key with a sequence (a
\* view) or the document id (Mango); an invalidation record points to the row.
Entry == [id : Ids, key : Keys, seq : Nat]

VARIABLES
  kind,        \* what the index is
  docs,        \* the docs bucket
  ddoc,        \* the function in the stored design document
  bucket,      \* whether the two buckets of the index exist
  rows,        \* the index bucket
  inval,       \* the invalidation bucket
  rowSeq,      \* the sequence of the index bucket
  tasks,       \* the tasks bucket: ids
  taskSeq,     \* its sequence
  source,      \* the function of the registered index (memory)
  writer,      \* the open transaction of each client
  runner,      \* the task runner
  built,       \* ghost: the function each document was last indexed by
  abandoned,   \* ghost: a task was completed although its rebuild failed
  astray,      \* ghost: source was not the stored function, nor was another
               \* design document being written that could have set it
  budget       \* writes, designs, crashes and failures so far

vars == <<kind, docs, ddoc, bucket, rows, inval, rowSeq, tasks, taskSeq,
          source, writer, runner, built, abandoned, astray, budget>>

disk == <<docs, ddoc, bucket, rows, inval, rowSeq, tasks, taskSeq>>
ghosts == <<built, abandoned, astray>>

-----------------------------------------------------------------------------
(* The hooks of the index. *)

\* Mutant: every record whose document id starts with this one's.
OldByPrefix(id) == {e \in inval : e.id >= id}

\* RemoveOldKeys: the records of the snapshot that name the document.
OldKeys(id) == {e \in inval : e.id = id}

\* Documents that are missing or deleted emit nothing.
KeysOf(fn, body) ==
  IF fn = NoFn \/ body \in {None, Deleted} THEN <<>> ELSE Emits[kind][fn][body]

\* UpdateStored for one document: what the operation log deletes and adds.
Log(id, body) ==
  [id |-> id, body |-> body, fn |-> source,
   old |-> IF source = NoFn THEN {} ELSE OldKeys(id),
   new |-> KeysOf(source, body)]

\* Whether deleting the row of e removes r.
SameRow(e, r) == r.key = e.key /\ r.seq = e.seq /\ (kind = "mango" => r.id = e.id)

\* The entries a log adds when the sequence of the bucket stands at n.
Added(log, n) ==
  {[id |-> log.id, key |-> log.new[i], seq |-> IF kind = "view" THEN n + i ELSE 0]
     : i \in DOMAIN log.new}

\* Mutant: the record takes the sequence before the row's.
RecordsLate(log, n) ==
  {[e EXCEPT !.seq = IF kind = "view" THEN @ - 1 ELSE 0] : e \in Added(log, n)}

\* PutWithReusedSequence: the record takes the sequence of the row.
Records(log, n) == Added(log, n)

\* The invalidation records a log deletes: those it read and, in a Mango
\* index, whatever stands under the document's id.
Dropped(log) ==
  IF kind = "mango" /\ log.fn # NoFn THEN OldKeys(log.id) ELSE log.old

\* The operation log of a transaction holds one log per document, applied in
\* the order of the documents; a put needs the bucket to exist.
Commits(logs) == bucket \/ \A d \in DOMAIN logs : logs[d].new = <<>>

\* The keys the logs add, each as its document and its place.
Puts(logs) == UNION {{d} \X DOMAIN logs[d].new : d \in DOMAIN logs}

\* Where the sequence stands when the log of d is applied.
SeqBefore(logs, d) == rowSeq + Cardinality({p \in Puts(logs) : p[1] < d})

AllAdded(logs) == UNION {Added(logs[d], SeqBefore(logs, d)) : d \in DOMAIN logs}
AllRecords(logs) == UNION {Records(logs[d], SeqBefore(logs, d)) : d \in DOMAIN logs}

Apply(logs) ==
  LET Gone(r) == \E d \in DOMAIN logs : \E e \in logs[d].old : SameRow(e, r)
  IN  /\ rows' = {r \in rows : ~Gone(r)} \cup AllAdded(logs)
      /\ inval' = (inval \ UNION {Dropped(logs[d]) : d \in DOMAIN logs}) \cup AllRecords(logs)
      /\ rowSeq' = IF kind = "view" THEN rowSeq + Cardinality(Puts(logs)) ELSE rowSeq

\* A transaction that stores the design document is open.
DesignOpen == \E w \in Writers : writer[w].op = "design"

\* Ghost: the log leaves the document indexed by log.fn, unless another
\* transaction overlapped: the records or the body it read have changed since,
\* or its function is not the stored one and a design document is being written
\* or has replaced the function since.
Settles(log, body) ==
  IF /\ log.old = OldKeys(log.id) /\ log.body = body
     /\ log.fn = ddoc \/ (log.fn = source /\ ~DesignOpen)
  THEN log.fn ELSE Mixed

-----------------------------------------------------------------------------
(* Document writes. *)

Idle == [op |-> "idle"]

Spend(what, max) ==
  /\ budget[what] < max
  /\ budget' = [budget EXCEPT ![what] = @ + 1]

\* A client opens a transaction that stores or deletes a document; the log is
\* computed from what is committed now and the function in memory now.
BeginWrite(w, id, body) ==
  /\ writer[w].op = "idle"
  /\ body = Deleted => docs[id] \in Bodies
  /\ Spend("writes", MaxWrites)
  /\ writer' = [writer EXCEPT ![w] = [op |-> "doc", log |-> Log(id, body)]]
  /\ UNCHANGED <<kind, disk, source, runner, ghosts>>

\* It commits, or fails as a whole when a row has no bucket to go to.
CommitWrite(w) ==
  /\ writer[w].op = "doc"
  /\ writer' = [writer EXCEPT ![w] = Idle]
  /\ LET log == writer[w].log
         logs == [d \in {log.id} |-> log]
     IN  IF Commits(logs)
         THEN /\ Apply(logs)
              /\ docs' = [docs EXCEPT ![log.id] = log.body]
              /\ built' = [built EXCEPT ![log.id] = Settles(log, log.body)]
         ELSE UNCHANGED <<rows, inval, rowSeq, docs, built>>
  /\ UNCHANGED <<kind, ddoc, bucket, tasks, taskSeq, source, runner, abandoned,
                 astray, budget>>

-----------------------------------------------------------------------------
(* The design document. *)

\* Mutant: a task is queued only for an index that did not exist.
TaskForNew(fn) == fn # NoFn /\ source = NoFn

\* UpdateAllDocuments: every accepted function queues a rebuild.
QueuesTask(fn) == fn # NoFn

\* Ghost: the function in memory is and stays another than the stored one.
GoesAstray == astray' = (astray \/ (ddoc' # NoFn /\ source' # ddoc' /\ ~DesignOpen'))

\* BuildFnIndices: an index that exists takes the new source at once; a new
\* one is registered at once, while its buckets come with the commit.  A
\* function that is gone leaves its index as it is.
BeginDesign(w, fn) ==
  /\ writer[w].op = "idle"
  /\ Spend("designs", MaxDesigns)
  /\ writer' = [writer EXCEPT ![w] =
       [op |-> "design", fn |-> fn, task |-> QueuesTask(fn),
        ensure |-> fn # NoFn /\ source = NoFn]]
  /\ source' = IF fn = NoFn THEN source ELSE fn
  /\ UNCHANGED <<kind, disk, runner, ghosts>>

CommitDesign(w) ==
  /\ writer[w].op = "design"
  /\ writer' = [writer EXCEPT ![w] = Idle]
  /\ ddoc' = writer[w].fn
  /\ bucket' = (bucket \/ writer[w].ensure)
  /\ IF writer[w].task
     THEN tasks' = tasks \cup {taskSeq + 1} /\ taskSeq' = taskSeq + 1
     ELSE UNCHANGED <<tasks, taskSeq>>
  /\ UNCHANGED <<kind, docs, rows, inval, rowSeq, source, runner, built, abandoned,
                 budget>>
  /\ GoesAstray

\* The design document is refused because another of its functions does not
\* compile; the source of this one has been replaced all the same.
RejectDesign(fn) ==
  /\ Spend("designs", MaxDesigns)
  /\ source' = fn
  /\ UNCHANGED <<kind, disk, writer, runner, built, abandoned>>
  /\ GoesAstray

-----------------------------------------------------------------------------
(* The task runner. *)

\* The tasks taken, those of them not done, the one at work being the smallest,
\* and the page: the bodies read by document, and their logs.
Resting == [at |-> "idle", todo |-> {}, left |-> {}, page |-> 0, batch |-> <<>>,
            logs |-> <<>>]

\* The place of n among the members of S.
Rank(n, S) == Cardinality({m \in S : m <= n})

\* The n smallest members of S.
Smallest(n, S) == {m \in S : Rank(m, S) <= n}

\* The tasks with the smallest ids, at most TakeCount.
FirstTasks == Smallest(TakeCount, tasks)

\* The next task, or CompleteTasks when none is left.
NextTask(r) ==
  [r EXCEPT !.at = IF r.left = {} THEN "complete" ELSE "read", !.page = 0]

TaskDone(r) ==
  NextTask([r EXCEPT !.left = @ \ Smallest(1, @), !.batch = <<>>, !.logs = <<>>])

\* GetTasks
TakeTasks ==
  /\ runner.at = "idle"
  /\ tasks # {}
  /\ runner' = NextTask([Resting EXCEPT !.todo = FirstTasks, !.left = FirstTasks])
  /\ UNCHANGED <<kind, disk, source, writer, ghosts, budget>>

\* ProcessTask without an index: the task is passed over.
NoIndex ==
  /\ runner.at = "read" /\ runner.page = 0
  /\ source = NoFn
  /\ runner' = TaskDone(runner)
  /\ UNCHANGED <<kind, disk, source, writer, ghosts, budget>>

\* Mutant: the pages of a rebuild skip the documents they return.
SkipLive(page) ==
  LET live == {d \in Ids : docs[d] \in Bodies}
  IN  Smallest(BatchSize, {d \in live : Rank(d, live) > page * (BatchSize + 1)})

\* The iterator of a rebuild skips keys of the bucket, tombstones included,
\* and returns live documents.
Stored == {d \in Ids : docs[d] # None}
Unread(page) == {d \in Stored : docs[d] \in Bodies /\ Rank(d, Stored) > page * BatchSize}
PageOf(page) == Smallest(BatchSize, Unread(page))

\* Rebuild reads a page in a transaction of its own.
ReadPage ==
  /\ runner.at = "read"
  /\ runner.page = 0 => source # NoFn
  /\ LET page == PageOf(runner.page)
     IN  runner' = IF page = {} THEN TaskDone(runner)
                   ELSE [runner EXCEPT !.at = "update", !.batch = [d \in page |-> docs[d]]]
  /\ UNCHANGED <<kind, disk, source, writer, ghosts, budget>>

\* ... opens another that indexes what it read ...
UpdatePage ==
  /\ runner.at = "update"
  /\ runner' = [runner EXCEPT !.at = "commit", !.logs =
       [d \in DOMAIN runner.batch |-> Log(d, runner.batch[d])]]
  /\ UNCHANGED <<kind, disk, source, writer, ghosts, budget>>

\* ... commits it, or gives the task up when it fails.
CommitPage ==
  /\ runner.at = "commit"
  /\ IF Commits(runner.logs)
     THEN /\ Apply(runner.logs)
          /\ built' = [d \in Ids |-> IF d \in DOMAIN runner.logs
                                     THEN Settles(runner.logs[d], docs[d]) ELSE built[d]]
          /\ runner' = [runner EXCEPT !.at = "touch"]
          /\ UNCHANGED abandoned
     ELSE /\ runner' = TaskDone(runner)
          /\ abandoned' = TRUE
          /\ UNCHANGED <<rows, inval, rowSeq, built>>
  /\ UNCHANGED <<kind, docs, ddoc, bucket, tasks, taskSeq, source, writer, astray, budget>>

\* UpdateTask saves the progress; a page that is not full is the last.
SaveProgress ==
  /\ runner.at = "touch"
  /\ tasks' = tasks \cup Smallest(1, runner.left)
  /\ runner' = IF Cardinality(DOMAIN runner.batch) < BatchSize THEN TaskDone(runner)
               ELSE [runner EXCEPT !.at = "read", !.page = @ + 1,
                                   !.batch = <<>>, !.logs = <<>>]
  /\ UNCHANGED <<kind, docs, ddoc, bucket, rows, inval, rowSeq, taskSeq, source,
                 writer, ghosts, budget>>

\* A transaction of the rebuild fails, because the file is being swapped by a
\* compaction; the error is logged and the task counts as done.
RebuildFails ==
  /\ runner.at \in {"read", "commit", "touch"}
  /\ Spend("failures", MaxFailures)
  /\ runner' = TaskDone(runner)
  /\ abandoned' = TRUE
  /\ UNCHANGED <<kind, disk, source, writer, built, astray>>

\* Mutant: the tasks stay.
CompletedNone == tasks

\* The tasks that remain after CompleteTasks.
Completed == tasks \ runner.todo

CompleteTasks ==
  /\ runner.at = "complete"
  /\ tasks' = Completed
  /\ runner' = Resting
  /\ UNCHANGED <<kind, docs, ddoc, bucket, rows, inval, rowSeq, taskSeq, source,
                 writer, ghosts, budget>>

-----------------------------------------------------------------------------
(* Crash and restart. *)

\* CreateDatabase registers the functions of the stored design documents and
\* ensures their buckets; no task is queued, those queued before are kept.
Restart ==
  /\ Spend("crashes", MaxCrashes)
  /\ source' = ddoc
  /\ bucket' = (bucket \/ ddoc # NoFn)
  /\ writer' = [w \in Writers |-> Idle]
  /\ runner' = Resting
  /\ UNCHANGED <<kind, docs, ddoc, rows, inval, rowSeq, tasks, taskSeq, ghosts>>

-----------------------------------------------------------------------------
Init ==
  /\ kind \in Kinds
  /\ docs = [d \in Ids |-> None]
  /\ ddoc = NoFn /\ source = NoFn
  /\ bucket = FALSE
  /\ rows = {} /\ inval = {} /\ rowSeq = 0
  /\ tasks = {} /\ taskSeq = 0
  /\ writer = [w \in Writers |-> Idle]
  /\ runner = Resting
  /\ built = [d \in Ids |-> NoFn]
  /\ abandoned = FALSE /\ astray = FALSE
  /\ budget = [writes |-> 0, designs |-> 0, crashes |-> 0, failures |-> 0]

RunnerStep ==
  \/ TakeTasks
  \/ NoIndex
  \/ ReadPage
  \/ UpdatePage
  \/ CommitPage
  \/ SaveProgress
  \/ CompleteTasks

Next ==
  \/ \E w \in Writers, id \in Ids, body \in Bodies \cup {Deleted} : BeginWrite(w, id, body)
  \/ \E w \in Writers : CommitWrite(w)
  \/ \E w \in Writers, fn \in Fns \cup {NoFn} : BeginDesign(w, fn)
  \/ \E w \in Writers : CommitDesign(w)
  \/ \E fn \in Fns : RejectDesign(fn)
  \/ RunnerStep
  \/ RebuildFails
  \/ Restart

\* The ticker of the runner fires again and again.
Spec == Init /\ [][Next]_vars /\ WF_vars(RunnerStep)

-----------------------------------------------------------------------------
(* Properties. *)

\* Every invalidation record points to a row, and every row of a view has a
\* record: whatever overlaps, no row of a view is ever out of reach of the
\* next write of its document (RegularIndex.UpdateStored and RemoveOldKeys).
RowsRemovable ==
  /\ inval \subseteq rows
  /\ kind = "view" => rows \subseteq inval

EntriesUnder(k, entries) == Cardinality({e \in entries : e.key = k})
TimesIn(k, keys) == Cardinality({i \in DOMAIN keys : keys[i] = k})

\* When the last transaction that indexed a document was not overtaken by
\* another, the index holds exactly what the function emits for the document:
\* nothing of its earlier versions, nothing twice, nothing of other documents.
RowsExact ==
  \A d \in Ids : built[d] \in Fns =>
    LET keys == KeysOf(built[d], docs[d])
        mine == {e \in inval : e.id = d}
    IN  /\ \A k \in Keys : EntriesUnder(k, mine) = TimesIn(k, keys)
        /\ mine \subseteq rows

\* A query that waits for the task count to reach zero reads an index in which
\* every live document was indexed by the stored function (or by a write that
\* overlapped another), so DBView's wait is enough - unless a rebuild failed, or
\* the function in memory went astray: a refused design document, or two of them
\* that commit in another order than they compute, leave it there although
\* another is stored.
NoTaskMeansBuilt ==
  tasks = {} /\ ~abandoned /\ ~astray =>
    \A d \in Ids : docs[d] \in Bodies => built[d] \in {ddoc, Mixed} \/ ddoc = NoFn

\* That wait ends: once clients stop changing the design document the task
\* count reaches zero and stays there, crashes and failures notwithstanding.
TasksDrain == <>[](tasks = {})

-----------------------------------------------------------------------------
(* What the proofs of the three invariants need besides. *)

Functions == Fns \cup {NoFn}

\* What a log computed at some time looks like at any later one.
IsLog(log) ==
  /\ log.id \in Ids /\ log.body \in Bodies \cup {Deleted} /\ log.fn \in Functions
  /\ log.old \subseteq Entry /\ \A e \in log.old : e.id = log.id
  /\ log.fn = NoFn => log.old = {}
  /\ log.new = KeysOf(log.fn, log.body)

\* The logs of the open transactions, and every entry stored or named by one.
Pending ==
  {writer[w].log : w \in {v \in Writers : writer[v].op = "doc"}} \cup
  {runner.logs[d] : d \in IF runner.at = "commit" THEN DOMAIN runner.logs ELSE {}}
Known == rows \cup inval \cup UNION {log.old : log \in Pending}

TypeOK ==
  /\ kind \in Kinds
  /\ docs \in [Ids -> Bodies \cup {None, Deleted}]
  /\ {ddoc, source} \subseteq Functions
  /\ rows \cup inval \subseteq Entry
  /\ rowSeq \in Nat /\ taskSeq \in Nat
  /\ tasks \subseteq 1..taskSeq
  /\ built \in [Ids -> Functions \cup {Mixed}]
  /\ DOMAIN writer = Writers
  /\ \A log \in Pending : IsLog(log)

\* The runner works on tasks that are still queued, has one in hand while it
\* rebuilds, and its page and logs are about the same documents.
RunnerOK ==
  /\ DOMAIN runner = DOMAIN Resting
  /\ runner.at \in {"idle", "read", "update", "commit", "touch", "complete"}
  /\ runner.todo \subseteq tasks /\ runner.left \subseteq runner.todo
  /\ runner.page \in Nat
  /\ runner.at = "idle" => runner.todo = {}
  /\ runner.at = "complete" <=> runner.left = {} /\ runner.at # "idle"
  /\ runner.at \in {"update", "commit", "touch"} =>
       DOMAIN runner.batch \subseteq Ids /\ \A d \in DOMAIN runner.batch : runner.batch[d] \in Bodies
  /\ runner.at = "commit" =>
       DOMAIN runner.logs = DOMAIN runner.batch /\ \A d \in DOMAIN runner.logs : runner.logs[d].id = d

\* A sequence of a view names one entry for ever, whether it is still stored or
\* only remembered by an open transaction; Mango entries have none.
SequencesUnique ==
  IF kind = "view"
  THEN \A e \in Known : e.seq \in 1..rowSeq /\ \A f \in Known : f.seq = e.seq => f = e
  ELSE \A e \in Known : e.seq = 0

\* The stored function is registered, and so is one about to be stored, whose
\* transaction brings a task.
StoredIsRegistered ==
  /\ ddoc # NoFn => source # NoFn
  /\ \A w \in Writers : writer[w].op = "design" =>
       /\ writer[w].fn \in Functions
       /\ writer[w].fn # NoFn => writer[w].task /\ source # NoFn

\* The function in memory is the stored one, unless a design document is being
\* written.
InStep == ~astray /\ ddoc # NoFn /\ ~DesignOpen => source = ddoc

\* A live document that neither the stored function nor an overlapping write
\* indexed is still ahead of some task: of one not taken, of one the runner
\* comes to, or of the one in hand, in the page read or behind a full page.
Stale(d) == docs[d] \in Bodies /\ built[d] \notin {ddoc, Mixed}
Behind(d, page) == Rank(d, Stored) > page * BatchSize
FullPage == Cardinality(DOMAIN runner.batch) = BatchSize
Ahead(d) ==
  \/ tasks \ runner.todo # {}
  \/ runner.left \ Smallest(1, runner.left) # {}
  \/ runner.at = "read" /\ Behind(d, runner.page)
  \/ runner.at \in {"update", "commit"} /\ d \in DOMAIN runner.batch
  \/ runner.at \in {"update", "commit", "touch"} /\ FullPage /\ Behind(d, runner.page + 1)
StaleIsAhead ==
  ~abandoned /\ ~astray /\ ddoc # NoFn => \A d \in Ids : Stale(d) => Ahead(d)

IndexInv ==
  /\ TypeOK
  /\ RunnerOK
  /\ SequencesUnique
  /\ RowsRemovable
  /\ RowsExact
  /\ StoredIsRegistered
  /\ InStep
  /\ StaleIsAhead

-----------------------------------------------------------------------------
(* What does not hold. *)

\* (violated) A query that has waited reads the rows of the stored documents:
\* two overlapping transactions leave a row of an older version behind.
QueryAfterWaitIsCurrent ==
  tasks = {} /\ ~abandoned /\ source = ddoc /\ ddoc # NoFn /\ runner.at = "idle" =>
    \A d \in Ids, k \in Keys :
      (\E e \in rows : e.id = d /\ e.key = k) =>
        \E i \in DOMAIN KeysOf(ddoc, docs[d]) : KeysOf(ddoc, docs[d])[i] = k

\* (violated) The wait is enough whatever became of the design documents.
BuiltEvenAstray ==
  tasks = {} /\ ~abandoned =>
    \A d \in Ids : docs[d] \in Bodies => built[d] \in {ddoc, Mixed} \/ ddoc = NoFn

\* (violated) With no design document being written, an index that receives
\* documents has buckets to put them in.
RegisteredHasBucket ==
  (\A w \in Writers : writer[w].op # "design") /\ source # NoFn => bucket

\* (violated) A completed task has rebuilt its index.
CompletedMeansBuilt == ~abandoned
=============================================================================
