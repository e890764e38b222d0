----------------------------- MODULE Attachments -----------------------------
(***************************************************************************)
(* The attachments of one database (db_attachment.go).  The content of an  *)
(* attachment is a file named by its digest, a blob; documents refer to    *)
(* blobs, and the att_refs bucket counts the references.  Document and     *)
(* counts change in one transaction, which reads at a snapshot and is      *)
(* applied later as in DocStore; the files change outside of it.           *)
(*                                                                         *)
(* Of a document only the attachments of its winning revision matter here. *)
(* Content is its digest, which answers to some requests spell with the    *)
(* prefix "md5-"; a stored attachment keeps the spelling it came with.  An *)
(* entry without a digest counts as None: no count and no file is its own. *)
(***************************************************************************)
EXTENDS Integers, FiniteSets

CONSTANTS Docs,        \* document ids
          Names,       \* attachment names
          Digests,     \* contents
          None,        \* no attachment of this name
          Writers,     \* goroutines that serve requests
          Deliveries,  \* what peers deliver in one transaction: by document, its
                       \* attachments and the names whose content comes along
          MaxRef,      \* bound: the highest reference count
          MaxPrefix    \* bound: how often a digest is prefixed with "md5-"

\* Blobs and counts go by "of", the digest without its prefix (digestHex).
Attachment == [of : Digests, md5 : 0..MaxPrefix]

Attached == [Names -> Attachment \cup {None}]

Raw(x) == [of |-> x, md5 |-> 0]

Nothing == [n \in Names |-> None]

ASSUME AttachmentsAssumption ==
  /\ None \notin [of : Digests, md5 : 0..MaxPrefix]
  /\ IsFiniteSet(Docs)
  /\ IsFiniteSet(Names)
  /\ MaxRef \in Nat
  /\ MaxPrefix \in {0, 1}
  /\ \A batch \in Deliveries :
       /\ DOMAIN batch \subseteq Docs
       /\ \A d \in DOMAIN batch :
            /\ batch[d].doc \in Attached
            /\ batch[d].data \subseteq Names
            /\ \A n \in batch[d].data : \E x \in Digests : batch[d].doc[n] = Raw(x)

VARIABLES stored,  \* the documents that exist, deleted or not
          atts,    \* the attachments of each document
          refs,    \* the att_refs bucket: 0 when a digest has no key
          files,   \* the blobs on disk
          writer,  \* what each writer is doing
          disturbed  \* history: the contents whose counts may not cover their
                     \* references, by what may have made them wrong

vars == <<stored, atts, refs, files, writer, disturbed>>

\* doc: the attachments the transaction stores, by document; puts: the counts
\* it writes, where it writes one (-1 elsewhere); clean: the blob to remove
\* once it is committed, if any.
OpLog == [doc : UNION {[ds -> Attached] : ds \in SUBSET Docs},
          puts : [Digests -> -1..MaxRef], clean : SUBSET Digests]

\* stub: the content was stored for a name that did not have it in that
\* spelling, without being delivered; twice: it was delivered for two
\* attachments at once; race: two requests that were open at once touched it.
Causes == [stub : SUBSET Digests, twice : SUBSET Digests, race : SUBSET Digests]

Disturbed == disturbed.stub \cup disturbed.twice \cup disturbed.race

\* moved: the uploaded file is in place and the transaction is to begin.
WriterState ==
  [phase : {"idle"}]
    \cup [phase : {"moved"}, id : Docs, name : Names, digest : Digests]
    \cup [phase : {"pending"}, op : OpLog]
    \cup [phase : {"committed"}, clean : SUBSET Digests]

TypeOK ==
  /\ stored \subseteq Docs
  /\ atts \in [Docs -> Attached]
  /\ refs \in [Digests -> 0..MaxRef]
  /\ files \subseteq Digests
  /\ writer \in [Writers -> WriterState]
  /\ disturbed \in Causes

Idle == [phase |-> "idle"]

Init ==
  /\ stored = {}
  /\ atts = [d \in Docs |-> Nothing]
  /\ refs = [x \in Digests |-> 0]
  /\ files = {}
  /\ writer = [w \in Writers |-> Idle]
  /\ disturbed = [stub |-> {}, twice |-> {}, race |-> {}]

-----------------------------------------------------------------------------
(* Reference counts, computed from the counts of the snapshot. *)

NoPuts == [x \in Digests |-> -1]

incAttRef(x) == refs[x] + 1

\* Mutant: the last reference but one is taken for the last.
decToOne(x) == IF refs[x] > 2 THEN refs[x] - 1 ELSE 0

decAttRef(x) == IF refs[x] > 1 THEN refs[x] - 1 ELSE 0

-----------------------------------------------------------------------------
(* Requests, up to the end of the transaction's function. *)

\* The contents of doc's attachments.
Contents(doc) == {doc[n].of : n \in {m \in Names : doc[m] # None}}

\* The contents that a request in state s is going to store, count or remove.
Touched(s) ==
  {x \in Digests :
     \/ s.phase = "moved" /\ x = s.digest
     \/ /\ s.phase = "pending"
        /\ \/ s.op.puts[x] # -1 \/ x \in s.op.clean
           \/ \E d \in DOMAIN s.op.doc : x \in Contents(s.op.doc[d])
     \/ s.phase = "committed" /\ x \in s.clean}

\* w goes on to state s, storing these contents as stubs, or twice at once.
Begins(w, s, stubs, twice) ==
  /\ writer' = [writer EXCEPT ![w] = s]
  /\ disturbed' =
       [stub  |-> disturbed.stub \cup stubs,
        twice |-> disturbed.twice \cup twice,
        race  |-> disturbed.race \cup
                    {x \in Touched(s) : \E v \in Writers \ {w} : x \in Touched(writer[v])}]

Pends(w, op, stubs, twice) ==
  Begins(w, [phase |-> "pending", op |-> op], stubs, twice)

\* PutAttachment: the upload is moved to its place first.
MoveUpload(w, d, n, x) ==
  /\ writer[w] = Idle
  /\ files' = files \cup {x}
  /\ Begins(w, [phase |-> "moved", id |-> d, name |-> n, digest |-> x], {}, {})
  /\ UNCHANGED <<stored, atts, refs>>

\* The document does not exist, or has another revision than the client
\* expects; the blob stays.
PutAttachmentFails(w) ==
  /\ writer[w].phase = "moved"
  /\ writer' = [writer EXCEPT ![w] = Idle]
  /\ UNCHANGED <<stored, atts, refs, files, disturbed>>

\* Mutant: a blob that is there already is not counted.
PutAttachmentCountsNew(w) ==
  /\ writer[w].phase = "moved"
  /\ writer[w].id \in stored
  /\ LET d   == writer[w].id
         n   == writer[w].name
         x   == writer[w].digest
         old == atts[d][n]
         replaced == {a.of : a \in {old} \ {None, Raw(x)}}
     IN  /\ refs[x] < MaxRef
         /\ Pends(w, [doc   |-> [e \in {d} |-> [atts[d] EXCEPT ![n] = Raw(x)]],
                      puts  |-> [y \in Digests |->
                                   IF y \in replaced THEN decAttRef(y)
                                   ELSE IF y = x /\ refs[y] = 0 THEN incAttRef(y) ELSE -1],
                      clean |-> {y \in replaced : decAttRef(y) = 0}], {}, {})
  /\ UNCHANGED <<stored, atts, refs, files>>

\* The new blob is counted, and the one it replaces is not any more.  Both
\* counts are those of the snapshot: of two for one digest the second stays.
PutAttachment(w) ==
  /\ writer[w].phase = "moved"
  /\ writer[w].id \in stored
  /\ LET d   == writer[w].id
         n   == writer[w].name
         x   == writer[w].digest
         old == atts[d][n]
         replaced == {a.of : a \in {old} \ {None, Raw(x)}}
     IN  /\ refs[x] < MaxRef
         /\ Pends(w, [doc   |-> [e \in {d} |-> [atts[d] EXCEPT ![n] = Raw(x)]],
                      puts  |-> [y \in Digests |->
                                   IF y \in replaced THEN decAttRef(y)
                                   ELSE IF y = x THEN incAttRef(y) ELSE -1],
                      clean |-> {y \in replaced : decAttRef(y) = 0}], {}, {})
  /\ UNCHANGED <<stored, atts, refs, files>>

DeleteAttachment(w, d, n) ==
  /\ writer[w] = Idle
  /\ d \in stored
  /\ atts[d][n] # None
  /\ LET x == atts[d][n].of
     IN  Pends(w, [doc   |-> [e \in {d} |-> [atts[d] EXCEPT ![n] = None]],
                   puts  |-> [NoPuts EXCEPT ![x] = decAttRef(x)],
                   clean |-> {y \in {x} : decAttRef(y) = 0}], {}, {})
  /\ UNCHANGED <<stored, atts, refs, files>>

\* The contents of entries of doc, for names in ns, that are not what d has
\* there: another document's or name's, nobody's, or spelt as an answer spelt it.
NewStubs(d, doc, ns) ==
  {doc[n].of : n \in {m \in ns : doc[m] \notin {None, atts[d][m]}}}

\* PutDocument stores the entries as they came (PUT, _bulk_docs, COPY) and
\* counts nothing.  Content that comes along is put by PutAttachment afterwards.
PutDocument(w, d, doc) ==
  /\ writer[w] = Idle
  /\ Pends(w, [doc |-> [e \in {d} |-> doc], puts |-> NoPuts, clean |-> {}],
           NewStubs(d, doc, Names), {})
  /\ UNCHANGED <<stored, atts, refs, files>>

\* DeleteDocument of the winning revision: the tombstone has no attachments.
DeleteDocument(w, d) == d \in stored /\ PutDocument(w, d, Nothing)

\* The attachments of the documents ds of batch that come with the content x.
DeliveredFor(batch, ds, x) ==
  {p \in ds \X Names : p[2] \in batch[p[1]].data /\ batch[p[1]].doc[p[2]] = Raw(x)}

\* PutDocumentForReplication of the documents of one transaction.  Content that
\* comes along is written, and counted from the count of the snapshot, so once
\* for all its attachments; other entries are stored as they came, uncounted.
\* A document that does not win, or whose next content does not decode, is not
\* stored, but its contents are written and counted all the same.
PutDocumentForReplication(w, batch, winners) ==
  LET xs == {x \in Digests : DeliveredFor(batch, DOMAIN batch, x) # {}}
  IN  /\ writer[w] = Idle
      /\ \A x \in xs : refs[x] < MaxRef
      /\ files' = files \cup xs
      /\ Pends(w, [doc   |-> [d \in winners |-> batch[d].doc],
                   puts  |-> [x \in Digests |-> IF x \in xs THEN incAttRef(x)
                                                ELSE -1],
                   clean |-> {}],
               UNION {NewStubs(d, batch[d].doc, Names \ batch[d].data) : d \in winners},
               {x \in xs : \E p, q \in DeliveredFor(batch, winners, x) : p # q})
      /\ UNCHANGED <<stored, atts, refs>>

-----------------------------------------------------------------------------
(* The end of a request. *)

\* The database once op is applied.
AttsAfter(op) ==
  [d \in Docs |-> IF d \in DOMAIN op.doc THEN op.doc[d] ELSE atts[d]]

RefsAfter(op) ==
  [x \in Digests |-> IF op.puts[x] = -1 THEN refs[x] ELSE op.puts[x]]

Commit(w) ==
  /\ writer[w].phase = "pending"
  /\ LET op == writer[w].op
     IN  /\ stored' = stored \cup DOMAIN op.doc
         /\ atts' = AttsAfter(op)
         /\ refs' = RefsAfter(op)
         /\ writer' = [writer EXCEPT ![w] =
                         [phase |-> "committed", clean |-> op.clean]]
  /\ UNCHANGED <<files, disturbed>>

RemoveBlob(w) ==
  /\ writer[w].phase = "committed"
  /\ files' = files \ writer[w].clean
  /\ writer' = [writer EXCEPT ![w] = Idle]
  /\ UNCHANGED <<stored, atts, refs, disturbed>>

\* The process stops; what was committed is on disk, and so are the files.
Crash ==
  /\ writer' = [w \in Writers |-> Idle]
  /\ UNCHANGED <<stored, atts, refs, files, disturbed>>

Next ==
  \/ \E w \in Writers :
       \/ PutAttachmentFails(w) \/ PutAttachment(w) \/ Commit(w) \/ RemoveBlob(w)
       \/ \E d \in Docs :
            \/ \E n \in Names :
                 \/ \E x \in Digests : MoveUpload(w, d, n, x)
                 \/ DeleteAttachment(w, d, n)
            \/ \E doc \in Attached : PutDocument(w, d, doc)
            \/ DeleteDocument(w, d)
       \/ \E batch \in Deliveries : \E winners \in SUBSET DOMAIN batch :
            PutDocumentForReplication(w, batch, winners)
  \/ Crash

Spec == Init /\ [][Next]_vars

-----------------------------------------------------------------------------

\* The attachments of a, all documents', that are x.
ReferencesIn(a, x) ==
  {p \in Docs \X Names : a[p[1]][p[2]] # None /\ a[p[1]][p[2]].of = x}

References(x) == ReferencesIn(atts, x)

\* What a document refers to is on disk (db_attachment_test.go: "blob should
\* persist while doc2 still references it").
Persists(x) == References(x) # {} => x \in files

\* The content of every attachment of a document is on disk, until two requests
\* that touch it overlap, it is stored for a name that did not have it in that
\* spelling (a stub nobody counts), or it is delivered for two attachments at
\* once (which count once): each of the three makes the code remove what is in
\* use.  What happens to other contents, at any time, does not matter.
BlobsPersist == \A x \in Digests \ Disturbed : Persists(x)

\* What the code does to it, one cause at a time: stubs of what a document did
\* not have, also from one client that waits for every answer,
PersistDespiteStubs ==
  \A x \in Digests \ (disturbed.twice \cup disturbed.race) : Persists(x)

\* contents delivered twice in one transaction,
PersistDespiteTwice ==
  \A x \in Digests \ (disturbed.stub \cup disturbed.race) : Persists(x)

\* and requests that overlap.
PersistDespiteRaces ==
  \A x \in Digests \ (disturbed.stub \cup disturbed.twice) : Persists(x)

\* Until one of these happens to it, a blob is counted at least as often as
\* documents refer to it, and what is counted is on disk: decrementing to 0 and
\* removing the file never takes away what is in use, although the file is moved
\* before the transaction that counts it and removed after the one that uncounts
\* it.
RefsCoverReferences ==
  \A x \in Digests \ Disturbed :
    /\ refs[x] >= Cardinality(References(x))
    /\ refs[x] > 0 => x \in files

\* A blob that was attached, which its count still tells, is gone once no
\* document refers to it any more and all requests are done
\* (db_attachment_test.go: "blob should be removed when the last reference is
\* deleted").
BlobsRemoved ==
  \A x \in Digests :
    (\A w \in Writers : writer[w] = Idle) /\ refs[x] > 0 /\ x \in files =>
      References(x) # {}

-----------------------------------------------------------------------------
(* The inductive invariant, for a content x that nothing disturbed. *)

\* With attachments a and counts r, x is counted as often as it is referred to,
\* and on disk when it is counted.
Covered(a, r, x) ==
  /\ r[x] >= Cardinality(ReferencesIn(a, x))
  /\ r[x] > 0 => x \in files

\* It is spelt in one way.
Plain(a, x) ==
  \A d \in Docs, n \in Names : a[d][n] # None /\ a[d][n].of = x => a[d][n] = Raw(x)

OneAtATime(x) ==
  \A v, w \in Writers : x \in Touched(writer[v]) /\ x \in Touched(writer[w]) => v = w

\* Applying op keeps the count covering, and if x is to be removed after it, it
\* is not counted any more.
Covers(op, x) ==
  /\ Covered(AttsAfter(op), RefsAfter(op), x)
  /\ Plain(AttsAfter(op), x)
  /\ x \in op.clean => RefsAfter(op)[x] = 0

\* How far a request that touches x may be: an upload in place stays there until
\* the request is done, and what is to be removed is not counted.
Sound(s, x) ==
  /\ s.phase = "moved" => x \in files
  /\ s.phase = "pending" => Covers(s.op, x)
  /\ s.phase = "committed" => refs[x] = 0

TouchedSoundly(x) ==
  \A w \in Writers : x \in Touched(writer[w]) => Sound(writer[w], x)

Undisturbed(x) ==
  /\ Covered(atts, refs, x) /\ Plain(atts, x)
  /\ OneAtATime(x) /\ TouchedSoundly(x)

AttachmentsInv == TypeOK /\ \A x \in Digests \ Disturbed : Undisturbed(x)

=============================================================================
