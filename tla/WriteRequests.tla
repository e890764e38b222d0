---------------------------- MODULE WriteRequests ----------------------------
(***************************************************************************)
(* The HTTP requests that write documents, from their checks to their      *)
(* answer: PUT (plain, multipart and new_edits=false), POST, DELETE, COPY  *)
(* and _bulk_docs.  A request goes through separate transactions: the      *)
(* document limit is checked against the statistics, each document is read *)
(* for validate_doc_update, then one transaction stores the documents, all *)
(* of a batch from one snapshot and in one log, and PUT stores its inline  *)
(* attachments one after the other.  Other requests run between any two of *)
(* these steps.                                                            *)
(*                                                                         *)
(* A request a limit refuses changes nothing and is not a step.  Which     *)
(* documents validate_doc_update denies is left open.  The size limits,    *)
(* local documents and the passwords of _users are left out.               *)
(***************************************************************************)
EXTENDS DocTx

CONSTANTS Clients,      \* the requests that can be open at a time
          MaxDocs,      \* max_docs_per_db
          MaxBatch,     \* bound: documents in a batch
          MaxWrites     \* bound: documents in all requests together

ASSUME RequestsAssumption ==
  /\ IsFiniteSet(Clients)
  /\ MaxDocs \in Nat /\ MaxWrites \in Nat
  /\ MaxBatch \in Nat \ {0}

VARIABLES db,         \* the buckets of the database
          req,        \* req[c]: {} or the request c has open
          spare,      \* documents requests may still hold
          minted,     \* history: minted[d], the revisions of d made anywhere
          acked,      \* history: acked[d], the revisions of d stored here
          serial      \* history: no two transactions overlapped, and no log
                      \* held two writes of one document

vars == <<db, req, spare, minted, acked, serial>>

Kinds == {"put", "multipart", "post", "delete", "copy", "bulk", "replicate"}

\* One document of a request; base is the _rev it names, and a delivery
\* (new_edits=false) is of the revision that extends base.
Item == [id : Docs, base : Rev \cup {NoRev}, hash : Hashes, deleted : BOOLEAN]

\* seen: what was read for validate_doc_update, item by item; denied: the
\* items it denied; log: the writes of the transaction that is open, parts:
\* the attachments to store after it; todo (history): how many documents it
\* has yet to store; unseen (history): how many its limit check did not count,
\* of its own and of the requests open meanwhile.
Requests ==
  [kind : Kinds, items : BoundedSeq(Item, MaxBatch), seen : Seq(Document \cup {NoDoc}),
   denied : SUBSET (1..MaxBatch), parts : {0, 1},
   todo : 0..MaxBatch, unseen : Int, at : {"validate", "begin", "commit", "attach"}, log : Seq(OpLog)]

Init ==
  /\ db = EmptyBuckets
  /\ req = [c \in Clients |-> {}]
  /\ spare = MaxWrites
  /\ minted = [d \in Docs |-> {}]
  /\ acked = [d \in Docs |-> {}]
  /\ serial = TRUE

-----------------------------------------------------------------------------
(* What a request says. *)

\* The document an item makes: its revision, with its true history.
Made(item) ==
  LET new    == NewRev(item.base, item.hash)
      parent == {m \in minted[item.id] : m.rev = item.base}
  IN  [rev |-> new, deleted |-> item.deleted,
       hist |-> <<new>> \o
         (IF parent = {} THEN <<>> ELSE (CHOOSE m \in parent : TRUE).hist)]

\* A revision is a hash of its content and history: it has one of each.
Consistent(d, doc) ==
  /\ doc.rev \in Rev
  /\ \A m \in minted[d] : m.rev = doc.rev => m = doc

\* What clients ask: they name revisions this database has had.
Items ==
  {it \in Item : it.base \in acked[it.id] \cup {NoRev} /\ Consistent(it.id, Made(it))}

\* A body of _bulk_docs; one revision has one content there too.
Batches ==
  {items \in BoundedSeq(Items, Min({spare, MaxBatch})) :
     /\ items # <<>>
     /\ \A i, j \in DOMAIN items :
          /\ items[i].id = items[j].id
          /\ Made(items[i]).rev = Made(items[j]).rev
          => items[i] = items[j]}

IsNew(item) == item.base = NoRev /\ ~item.deleted

\* How many new documents a request announces to the limit check.
Announced(kind, items) ==
  IF kind \in {"put", "post", "bulk"}
  THEN Cardinality({i \in DOMAIN items : IsNew(items[i])})
  ELSE 0

\* Stats().DocCount: the keys of docs less those of the _deleted index.
DocCount(b) == Cardinality({d \in Docs : b.docs[d] # NoDoc}) - Cardinality(b.deleted)

\* Without max_docs_per_db, which is zero then, nothing is checked.
Limited(kind, items) == MaxDocs > 0 /\ Announced(kind, items) > 0

\* Mutant: a batch counts as one document.
LimitExceededByOne(kind, items) ==
  Limited(kind, items) /\ DocCount(db) + 1 > MaxDocs

\* CheckMaxDocsPerDB
LimitExceeded(kind, items) ==
  /\ Limited(kind, items)
  /\ DocCount(db) + Announced(kind, items) > MaxDocs

-----------------------------------------------------------------------------
(* The steps of a request. *)

\* The documents that open requests have yet to store.
Unstored ==
  {w \in Clients \X (1..MaxBatch) : \E r \in req[w[1]] : w[2] <= r.todo}

\* A request arrives and passes the limit check.
Submit(c, kind, items, parts) ==
  /\ ~LimitExceeded(kind, items)
  /\ spare' = spare - Len(items)
  /\ minted' = [d \in Docs |-> minted[d] \cup
       {Made(items[i]) : i \in {i \in DOMAIN items : items[i].id = d}}]
  /\ req' = [o \in Clients |->
       IF o = c
       THEN {[kind |-> kind, items |-> items, seen |-> <<>>, denied |-> {},
              parts |-> parts, log |-> <<>>, todo |-> Len(items),
              unseen |-> Len(items) - Announced(kind, items)
                           + Cardinality(Unstored),
              at |-> IF kind = "copy" THEN "begin" ELSE "validate"]}
       ELSE {[r EXCEPT !.unseen = @ + Len(items)] : r \in req[o]}]
  /\ UNCHANGED <<db, acked, serial>>

\* PUT, with or without new_edits=false, and with inline attachments or none.
Put(c) ==
  \E it \in Items :
    \/ \E parts \in {0, 1} : Submit(c, "put", <<it>>, parts)
    \/ Submit(c, "replicate", <<it>>, 0)

\* A multipart PUT, which does not ask for the limit; new_edits=false is
\* ignored.
Multipart(c) == \E it \in Items : Submit(c, "multipart", <<it>>, 1)

\* POST makes a random id, and thus a new document.
Post(c) ==
  \E it \in Items : IsNew(it) /\ minted[it.id] = {} /\ Submit(c, "post", <<it>>, 0)

Delete(c) == \E it \in Items : it.deleted /\ Submit(c, "delete", <<it>>, 0)

\* COPY reads its source, live or deleted, stores it as a live document, and
\* asks neither for the limit nor for validation.
Copy(c) ==
  /\ \E src \in Docs : db.docs[src] # NoDoc
  /\ \E it \in Items : ~it.deleted /\ Submit(c, "copy", <<it>>, 0)

\* _bulk_docs, with or without new_edits=false.
BulkDocs(c) ==
  \E items \in Batches, kind \in {"bulk", "replicate"} : Submit(c, kind, items, 0)

Live(b, d) == IF b.docs[d].deleted THEN NoDoc ELSE b.docs[d]

\* The oldDoc given to validate_doc_update: POST has none, and _bulk_docs
\* reads none for a document without _rev.
OldDoc(kind, item) ==
  IF kind = "post" \/ (kind = "bulk" /\ IsNew(item)) THEN NoDoc
  ELSE Live(db, item.id)

\* One document is validated, in a read transaction of its own.  A batch
\* goes on without a document that is denied, any other request is answered.
Validate(c, r) ==
  LET i == Len(r.seen) + 1
      validated == [r EXCEPT !.seen = Append(@, OldDoc(r.kind, r.items[i])),
                             !.at = IF i = Len(r.items) THEN "begin" ELSE @]
  IN  /\ r.at = "validate"
      /\ \/ req' = [req EXCEPT ![c] = {validated}]
         \/ /\ r.kind \in {"bulk", "replicate"}
            /\ req' = [req EXCEPT ![c] = {[validated EXCEPT !.denied = @ \cup {i}]}]
         \/ /\ r.kind \notin {"bulk", "replicate"}
            /\ req' = [req EXCEPT ![c] = {}]
      /\ UNCHANGED <<db, spare, minted, acked, serial>>

IsDeletion(kind, item) == kind = "delete" \/ (kind = "bulk" /\ item.deleted)

\* DeleteDocument finds the document, and the revision is its winner or a leaf.
Deletable(item) ==
  /\ db.docs[item.id] # NoDoc
  /\ item.base = db.docs[item.id].rev \/ item.base \in leafRevs(db, item.id)

\* The item is stored, unless it is the delivery of the winner, a no-op.
Stores(kind, item) ==
  IF IsDeletion(kind, item) THEN Deletable(item)
  ELSE IF kind = "replicate" THEN Made(item).rev # db.docs[item.id].rev
  ELSE ValidUpdateRevision(db.docs[item.id], item.base)

WriteOf(kind, item) ==
  LET d == item.id
  IN  IF IsDeletion(kind, item) THEN DeleteDocument(db, d, item.base, Made(item).rev)
      ELSE IF kind = "replicate" THEN PutDocumentForReplication(db, d, Made(item))
      ELSE PutDocument(db, d, Made(item).rev, item.deleted)

\* A deletion in a batch that fails returns no document, whose revision is
\* then read: the handler panics and the whole batch is lost.
Panics(r, tried) ==
  r.kind = "bulk" /\ \E i \in tried :
    IsDeletion(r.kind, r.items[i]) /\ ~Deletable(r.items[i])

Overlaps(c) == \E o \in Clients \ {c} : \E p \in req[o] : p.at = "commit"

\* The items of r the open transaction would store.
Stored(r) ==
  {i \in DOMAIN r.items \ r.denied : Stores(r.kind, r.items[i])}

\* The log of the items in stored, in order.
Logged(r, stored) ==
  LET upTo[i \in 0..Len(r.items)] ==
        IF i = 0 THEN <<>>
        ELSE IF i \in stored THEN Append(upTo[i - 1], WriteOf(r.kind, r.items[i]))
        ELSE upTo[i - 1]
  IN  upTo[Len(r.items)]

\* The transaction collects its log: every document from the same snapshot.
Begin(c, r) ==
  LET stored == Stored(r)
  IN  /\ r.at = "begin"
      /\ ~Panics(r, DOMAIN r.items \ r.denied)
      /\ stored # {}
      /\ req' = [req EXCEPT ![c] =
           {[r EXCEPT !.at = "commit", !.seen = <<>>, !.denied = {},
                      !.log = Logged(r, stored)]}]
      /\ serial' = (/\ serial /\ ~Overlaps(c)
                    /\ \A i, j \in stored : r.items[i].id = r.items[j].id => i = j)
      /\ UNCHANGED <<db, spare, minted, acked>>

\* Nothing is written: every document was denied, refused or known, or a
\* batch panicked.
Refused(c, r) ==
  /\ r.at = "begin"
  /\ Panics(r, DOMAIN r.items \ r.denied) \/ Stored(r) = {}
  /\ req' = [req EXCEPT ![c] = {}]
  /\ UNCHANGED <<db, spare, minted, acked, serial>>

Applied(b, log) ==
  LET after[i \in 0..Len(log)] ==
        IF i = 0 THEN b ELSE Apply(after[i - 1], log[i])
  IN  after[Len(log)]

\* The log is applied in order to the database as it is now.
Commit(c, r) ==
  /\ r.at = "commit"
  /\ db.changesSeq + Len(r.log) <= MaxSeq
  /\ db' = Applied(db, r.log)
  /\ acked' = [d \in Docs |-> acked[d] \cup
                 UNION {{l.rev : l \in op.puts} : op \in {op \in ToSet(r.log) : op.id = d}}]
  /\ req' = [req EXCEPT ![c] =
       IF r.parts > 0
       THEN {[r EXCEPT !.at = "attach", !.log = <<>>, !.todo = 0]} ELSE {}]
  /\ UNCHANGED <<spare, minted, serial>>

\* PutAttachment stores the document again, as it is by now: it is neither
\* validated nor checked against the revision the PUT stored.
Attach(c, r) ==
  LET d   == r.items[1].id
      old == db.docs[d]
  IN  /\ r.at = "attach"
      /\ \E hash \in Hashes :
           LET made == Made([id |-> d, base |-> old.rev, hash |-> hash,
                             deleted |-> old.deleted])
           IN  /\ Consistent(d, made)
               /\ minted' = [minted EXCEPT ![d] = @ \cup {made}]
               /\ req' = [req EXCEPT ![c] =
                    {[r EXCEPT !.at = "commit", !.parts = @ - 1,
                               !.log = <<PutDocument(db, d, made.rev, old.deleted)>>]}]
      /\ serial' = (serial /\ ~Overlaps(c))
      /\ UNCHANGED <<db, spare, acked>>

Arrives ==
  /\ spare > 0
  /\ \E c \in Clients :
       /\ req[c] = {}
       /\ Put(c) \/ Multipart(c) \/ Post(c) \/ Delete(c) \/ Copy(c) \/ BulkDocs(c)

Proceeds ==
  \E c \in Clients : \E r \in req[c] :
    Validate(c, r) \/ Begin(c, r) \/ Refused(c, r) \/ Commit(c, r) \/ Attach(c, r)

Next == Arrives \/ Proceeds

Spec == Init /\ [][Next]_vars

-----------------------------------------------------------------------------
(* Properties.  DocStore shows what overlapping transactions break and     *)
(* what survives them; here serial sets them aside, and what remains is    *)
(* what requests can do to each other between their transactions.          *)

\* validate_doc_update runs outside the transaction that stores the document,
\* yet what a client's write replaces is what was validated: had the document
\* changed in between, the revision the client names would be stale, because
\* the winner never goes back to an earlier revision.  The exception is a
\* deletion of a conflicting leaf, which is validated against the winner.
ValidatedOnBase ==
  [][\A c \in Clients : \A r \in req[c] : \A s \in req'[c] :
       r.at = "begin" /\ s.at = "commit" /\ serial' /\ r.kind \notin {"copy", "replicate"} =>
         \A i \in Stored(r) :
           LET it == r.items[i]
           IN  \/ r.seen[i].rev = Live(db, it.id).rev
               \/ IsDeletion(r.kind, it) /\ it.base # db.docs[it.id].rev]_vars

LiveDocs == {d \in Docs : Live(db, d) # NoDoc}

\* max_docs_per_db is checked before the transaction, so requests that pass
\* it together exceed it.  The documents over the limit after a request that
\* was checked are no more than those its check did not count: the ones it
\* stores under a revision, and those that requests open at the same time had
\* yet to store.
LimitOverrunBounded ==
  [][\A c \in Clients : \A r \in req[c] :
       /\ r.at = "commit" /\ req'[c] = {}
       /\ serial /\ Limited(r.kind, r.items)
       => Cardinality(LiveDocs') <= MaxDocs + r.unseen]_vars

\* Every request leaves each document served by its winning leaf, and the
\* changes feed and the _deleted index exact, batches too, whose documents
\* are all computed from the snapshot the first of them saw.
RequestsKeepWinners ==
  serial => \A d \in Docs : WinnerRuleAt(db, d) /\ IndicesExactAt(db, d)

-----------------------------------------------------------------------------
(* The inductive invariant behind the properties.                          *)

TypeOK ==
  /\ db \in Buckets
  /\ req \in [Clients -> SUBSET Requests]
  /\ spare \in 0..MaxWrites
  /\ minted \in [Docs -> SUBSET Document]
  /\ acked \in [Docs -> SUBSET Rev]
  /\ serial \in BOOLEAN

\* A history names its document first, and nothing newer.
OwnHistory(doc) ==
  /\ Heads(doc.rev, doc.hist)
  /\ \A i \in DOMAIN doc.hist : i > 1 => doc.hist[i].gen < doc.rev.gen

MintedOnce ==
  \A d \in Docs :
    /\ \A m \in minted[d] : OwnHistory(m)
    /\ \A m, n \in minted[d] : m.rev = n.rev => m = n

\* Every stored document has the last sequence it was given, and no other does.
SequencesApart(b) ==
  /\ b.changesSeq = b.invalSeq
  /\ \A d \in Docs : b.docs[d] # NoDoc => b.inval[d] \in 1..b.invalSeq
  /\ \A c, d \in Docs :
       b.docs[c] # NoDoc /\ b.docs[d] # NoDoc /\ b.inval[c] = b.inval[d] => c = d

\* The leaves of b are revisions that were made, deleted if they were made so.
LeavesAsMade(b) ==
  \A d \in Docs : \A rev \in leafRevs(b, d) :
    \E m \in minted[d] : m.rev = rev /\ m.deleted = b.leaves[d][rev].deleted

BucketsSound(b) ==
  SequencesApart(b) /\ LeavesAsMade(b) /\ \A d \in Docs : SoundAt(b, d)

\* What was stored was made, and the winner is at least that.
WinnerOfAcked ==
  \A d \in Docs : \A a \in acked[d] :
    (\E m \in minted[d] : m.rev = a) /\ AtLeast(db.docs[d].rev, a)

\* op writes the revision of m to the document as b has it.
Writes(b, op, m) ==
  \/ /\ b.docs[op.id].rev.gen < m.rev.gen
     /\ op = PutDocument(b, op.id, m.rev, m.deleted)
  \/ /\ m.rev # b.docs[op.id].rev
     /\ op = PutDocumentForReplication(b, op.id, m)
  \/ \E rev \in leafRevs(b, op.id) :
       /\ rev # b.docs[op.id].rev /\ rev.gen < m.rev.gen /\ m.deleted
       /\ op = DeleteLeaf(b, op.id, rev, m.rev)

\* The log of an open transaction is for the database as it is.
LogIsCurrent(r) ==
  /\ r.log # <<>> /\ Len(r.log) <= Len(r.items)
  /\ \A k \in DOMAIN r.log :
       /\ \E m \in minted[r.log[k].id] : Writes(db, r.log[k], m)
       /\ \E i \in DOMAIN r.items : r.items[i].id = r.log[k].id
  /\ \A k, l \in DOMAIN r.log : r.log[k].id = r.log[l].id => k = l

\* The log of attachments, which leaves a document live or deleted.
LogOfAttachment(r) ==
  /\ r.todo = 0
  /\ \A k \in DOMAIN r.log :
       /\ db.docs[r.log[k].id] # NoDoc
       /\ r.log[k].put.deleted = db.docs[r.log[k].id].deleted

\* What a request of any kind carries at each of its steps.
Shaped(r) ==
  /\ r.items # <<>>
  /\ \A i \in DOMAIN r.items :
       LET it == r.items[i]
       IN  /\ NewRev(it.base, it.hash) \in Rev
           /\ r.kind = "delete" => it.deleted
           /\ r.kind = "post" => it.base = NoRev
  /\ r.at = "validate" => r.kind # "copy" /\ Len(r.seen) < Len(r.items)
  /\ r.at = "begin" /\ r.kind # "copy" => Len(r.seen) = Len(r.items)
  /\ r.at = "attach" => r.parts = 1
  /\ r.parts = 1 => Len(r.items) = 1

\* What the client names was stored, what it makes is known.
ItemsKnown(r) ==
  \A i \in DOMAIN r.items :
    LET it == r.items[i]
    IN  /\ it.base \in acked[it.id] \cup {NoRev}
        /\ Made(it) \in minted[it.id]

\* What was read for validation is the document that is there, if the client
\* names its revision, and nothing if there is no document.
SeenIsCurrent(r) ==
  /\ Len(r.seen) <= Len(r.items)
  /\ \A i \in DOMAIN r.seen :
       LET it == r.items[i]
       IN  /\ db.docs[it.id] = NoDoc => r.seen[i].rev = NoRev
           /\ db.docs[it.id] # NoDoc /\ it.base = db.docs[it.id].rev =>
                r.seen[i].rev = Live(db, it.id).rev

\* What is left to store at each step of a request.
StepsInOrder(r) ==
  /\ r.at \in {"validate", "begin"} => r.todo = Len(r.items)
  /\ r.at = "commit" =>
       LogIsCurrent(r) /\ (r.todo = Len(r.items) \/ LogOfAttachment(r))
  /\ r.at = "attach" => r.todo = 0 /\ db.docs[r.items[1].id] # NoDoc

\* Even if all documents that wait are stored, the limit is exceeded by no
\* more than what the request's check did not count.
LimitInReach(r) ==
  Limited(r.kind, r.items) =>
    Cardinality(LiveDocs) + Cardinality(Unstored) <= MaxDocs + r.unseen

OneAtATime ==
  \A c, o \in Clients : \A p \in req[c], r \in req[o] :
    p.at = "commit" /\ r.at = "commit" => c = o

\* What holds however transactions overlap.
RequestsShaped ==
  /\ TypeOK
  /\ db.changesSeq = db.invalSeq
  /\ MintedOnce
  /\ \A c \in Clients : \A r \in req[c] : Shaped(r) /\ \A p \in req[c] : p = r

\* What holds when they do not.
RequestsSound ==
  /\ BucketsSound(db)
  /\ WinnerOfAcked
  /\ OneAtATime
  /\ \A c \in Clients : \A r \in req[c] :
       ItemsKnown(r) /\ SeenIsCurrent(r) /\ StepsInOrder(r) /\ LimitInReach(r)

RequestsInv == RequestsShaped /\ (serial => RequestsSound)

=============================================================================
