------------------------------- MODULE DocTx -------------------------------
(***************************************************************************)
(* What one document transaction of goydb does to the buckets of a         *)
(* database: the revision order, the reads it makes of its snapshot and    *)
(* the writes it leaves in its operation log.  The operators are pure:     *)
(* each takes a value b of the buckets (the snapshot) and returns either   *)
(* something read from it, the operation log (an "op"), or the buckets     *)
(* after the log was applied.  DocStore and the modules above it build     *)
(* their actions from them.                                                *)
(*                                                                         *)
(* Abstractions.  A revision "3-ab12" is [gen |-> 3, hash |-> h]: h stands *)
(* for the content hash and is a number, so the lexicographic order of     *)
(* hashes is the order of numbers.  A document is its revision, its        *)
(* deleted flag and its revision history; the body plays no part.  The     *)
(* legacy cases for databases written before revision histories existed    *)
(* are left out, since every document written by this code has one.        *)
(***************************************************************************)
EXTENDS Integers, SequencesExt

CONSTANTS Docs,     \* document ids (neither _local/ nor _design/)
          Hashes,   \* content hashes
          MaxGen,   \* bound: the highest generation of a revision
          MaxSeq,   \* bound: the highest sequence number
          HistCap   \* the length RevHistory is cut to (1000 in the code)

ASSUME DocTxAssumption ==
  /\ Hashes \subseteq Nat
  /\ IsFiniteSet(Hashes)
  /\ MaxGen \in Nat
  /\ MaxSeq \in Nat
  /\ HistCap \in Nat \ {0}

-----------------------------------------------------------------------------
(* Revisions and their order. *)

Rev == [gen : 1..MaxGen, hash : Hashes]

\* The empty revision string; it sorts before every revision.
NoRev == [gen |-> 0, hash |-> 0]

\* compareRevs(a, b) < 0
RevLess(a, b) ==
  \/ a.gen < b.gen
  \/ a.gen = b.gen /\ a.hash < b.hash

AtLeast(a, b) == b = a \/ RevLess(b, a)

\* Mutant: the first revision met wins, whatever the others are.
SmallestRev(revs) == CHOOSE r \in revs : \A o \in revs : o = r \/ RevLess(r, o)

WinnerRev(revs) == CHOOSE r \in revs : \A o \in revs : o = r \/ RevLess(o, r)

NextSequenceRevision(rev) == rev.gen + 1

\* The revision minted for an edit of rev.
NewRev(rev, hash) == [gen |-> NextSequenceRevision(rev), hash |-> hash]

-----------------------------------------------------------------------------
(* Documents, buckets and operation logs. *)

Document == [rev : Rev, deleted : BOOLEAN, hist : Seq(Rev)]

\* The nil document.
NoDoc == [rev |-> NoRev, deleted |-> FALSE, hist |-> <<>>]

Change == [seq : 1..MaxSeq, id : Docs]

\* docs: the winning revision of each document.  leaves: doc_leaves, keyed
\* by document and revision.  changes: the sequence and id of each entry;
\* inval: the sequence last given to each document, 0 when there is none.  Each of the
\* two buckets of the changes index has a sequence counter of its own.
\* deleted: the ids in the _deleted index.
Buckets ==
  [docs       : [Docs -> Document \cup {NoDoc}],
   leaves     : [Docs -> [Rev -> Document \cup {NoDoc}]],
   changes    : SUBSET Change,
   changesSeq : 0..MaxSeq,
   inval      : [Docs -> 0..MaxSeq],
   invalSeq   : 0..MaxSeq,
   deleted    : SUBSET Docs]

EmptyBuckets ==
  [docs |-> [d \in Docs |-> NoDoc],
   leaves |-> [d \in Docs |-> [r \in Rev |-> NoDoc]],
   changes |-> {}, changesSeq |-> 0,
   inval |-> [d \in Docs |-> 0], invalSeq |-> 0,
   deleted |-> {}]

\* The operation log of a transaction on document id.  put: the document to
\* store in docs, with the index hooks that go with it, or NoDoc when docs and
\* the indices are left alone; chg: the changes entry the hooks delete;
\* undel: they delete id from the _deleted index; puts and dels: the leaves
\* written and then removed.
OpLog ==
  [id : Docs, put : Document \cup {NoDoc}, chg : 0..MaxSeq, undel : BOOLEAN,
   puts : SUBSET Document, dels : SUBSET Rev]

-----------------------------------------------------------------------------
(* Reads. *)

leafRevs(b, d) == {r \in Rev : b.leaves[d][r] # NoDoc}

\* Mutant: the history of the stored document alone.
GetStored(b, d) == b.docs[d]

\* The stored document; when it is one of several leaves its history is
\* extended with the revisions of the other branches.
GetDocument(b, d) ==
  LET doc      == b.docs[d]
      others   == leafRevs(b, d) \ {doc.rev}
      branches == UNION {ToSet(b.leaves[d][r].hist) : r \in others}
  IN  IF doc.rev \in leafRevs(b, d) /\ others # {}
      THEN [doc EXCEPT !.hist = @ \o SetToSeq(branches \ ToSet(@))]
      ELSE doc

HasRevision(doc, rev) == rev = doc.rev \/ rev \in ToSet(doc.hist)

\* Mutant: any revision of the right generation will do.
ValidUpdateGeneration(old, rev) == old # NoDoc => rev.gen = old.rev.gen

ValidUpdateRevision(old, rev) == old # NoDoc => rev = old.rev

-----------------------------------------------------------------------------
(* The operation logs of the three kinds of document writes. *)

Chain(rev, hist) ==
  LET h == <<rev>> \o hist
  IN  IF Len(h) > HistCap THEN SubSeq(h, 1, HistCap) ELSE h

\* Mutant: DocumentDeleted runs only when the new document is a deletion.
ReplaceLiveWinner(b, d, doc, puts, dels) ==
  [id |-> d, put |-> doc,
   chg |-> IF b.docs[d] = NoDoc \/ ~doc.deleted THEN 0 ELSE b.inval[d],
   undel |-> b.docs[d].deleted,
   puts |-> puts, dels |-> dels]

\* Store doc as the winner of d and run the index hooks: DocumentDeleted for
\* the document the snapshot holds, DocumentStored for doc.
ReplaceWinner(b, d, doc, puts, dels) ==
  [id |-> d, put |-> doc,
   chg |-> IF b.docs[d] = NoDoc THEN 0 ELSE b.inval[d],
   undel |-> b.docs[d].deleted,
   puts |-> puts, dels |-> dels]

KeepWinner(d, puts, dels) ==
  [id |-> d, put |-> NoDoc, chg |-> 0, undel |-> FALSE,
   puts |-> puts, dels |-> dels]

\* new is the revision computed for the document.
PutDocument(b, d, new, deleted) ==
  LET old == GetDocument(b, d)
      doc == [rev |-> new, deleted |-> deleted, hist |-> Chain(new, old.hist)]
  IN  ReplaceWinner(b, d, doc, {doc}, IF old = NoDoc THEN {} ELSE {old.rev})

\* Mutant: every older generation is taken for an ancestor.
PutNewestGeneration(b, d, doc) ==
  LET older     == {r \in leafRevs(b, d) : r.gen < doc.rev.gen}
      winner    == WinnerRev((leafRevs(b, d) \ older) \cup {doc.rev})
      winnerDoc == IF winner = doc.rev THEN doc ELSE b.leaves[d][winner]
  IN  IF winner # b.docs[d].rev
      THEN ReplaceWinner(b, d, winnerDoc, {doc}, older)
      ELSE KeepWinner(d, {doc}, older)

PutDocumentForReplication(b, d, doc) ==
  LET old     == b.docs[d]
      stored  == leafRevs(b, d)
      legacy  == IF old = NoDoc \/ old.rev \in stored THEN {}
                 ELSE {GetDocument(b, d)}
      leafSet == stored \cup {l.rev : l \in legacy} \cup {doc.rev}
      parents == ToSet(Tail(doc.hist)) \cap leafSet
      winner  == WinnerRev(leafSet \ parents)
      winnerDoc == IF winner = doc.rev THEN doc
                   ELSE IF winner \in stored THEN b.leaves[d][winner]
                   ELSE NoDoc
  IN  IF winnerDoc # NoDoc /\ winner # old.rev
      THEN ReplaceWinner(b, d, winnerDoc, legacy \cup {doc}, parents)
      ELSE KeepWinner(d, legacy \cup {doc}, parents)

\* Mutant: deleting a conflicting leaf never changes the winner.
DeleteLeafOnly(b, d, rev, new) ==
  KeepWinner(d, {[rev |-> new, deleted |-> TRUE,
                  hist |-> Chain(new, b.leaves[d][rev].hist)]}, {rev})

\* DeleteDocument of a leaf that is not the winner; new is the tombstone's
\* revision.
DeleteLeaf(b, d, rev, new) ==
  LET tombstone == [rev |-> new, deleted |-> TRUE,
                    hist |-> Chain(new, b.leaves[d][rev].hist)]
      leafSet   == (leafRevs(b, d) \ {rev}) \cup {new}
      winner    == WinnerRev(leafSet)
      winnerDoc == IF winner = new THEN tombstone
                   ELSE IF winner \in leafRevs(b, d) THEN b.leaves[d][winner]
                   ELSE NoDoc
  IN  IF winnerDoc # NoDoc /\ winner # b.docs[d].rev
      THEN ReplaceWinner(b, d, winnerDoc, {tombstone}, {rev})
      ELSE KeepWinner(d, {tombstone}, {rev})

DeleteDocument(b, d, rev, new) ==
  IF rev = b.docs[d].rev THEN PutDocument(b, d, new, TRUE)
  ELSE DeleteLeaf(b, d, rev, new)

-----------------------------------------------------------------------------
(* Applying an operation log. *)

ApplyLeaves(leaves, op) ==
  [r \in Rev |->
     IF r \in op.dels THEN NoDoc
     ELSE IF \E l \in op.puts : l.rev = r
          THEN CHOOSE l \in op.puts : l.rev = r
          ELSE leaves[r]]

\* Mutant: the entry takes one sequence and its record the next.
ApplyTwoSequences(b, op) ==
  [b EXCEPT
     !.docs[op.id] = op.put,
     !.changes = {e \in @ : e.seq # op.chg}
                   \cup {[seq |-> b.changesSeq + 1, id |-> op.id]},
     !.changesSeq = @ + 1,
     !.inval[op.id] = b.invalSeq + 2,
     !.invalSeq = @ + 2,
     !.deleted = (IF op.undel THEN @ \ {op.id} ELSE @)
                   \cup (IF op.put.deleted THEN {op.id} ELSE {})]

\* Mutant: a document keeps the sequence it has.
ApplyInPlace(b, op) ==
  LET seq == IF b.inval[op.id] = 0 THEN b.changesSeq + 1 ELSE b.inval[op.id]
  IN  [b EXCEPT
         !.docs[op.id] = op.put,
         !.changes = @ \cup {[seq |-> seq, id |-> op.id]},
         !.changesSeq = @ + 1,
         !.inval[op.id] = seq,
         !.invalSeq = @ + 1]

\* Mutant: only the first write of a document sets its record.
ApplyFirstRecord(b, op) ==
  [b EXCEPT
     !.docs[op.id] = op.put,
     !.changes = {e \in @ : e.seq # op.chg}
                   \cup {[seq |-> b.changesSeq + 1, id |-> op.id]},
     !.changesSeq = @ + 1,
     !.inval[op.id] = IF @ = 0 THEN b.invalSeq + 1 ELSE @,
     !.invalSeq = @ + 1]

ApplyIndices(b, op) ==
  [b EXCEPT
     !.docs[op.id] = op.put,
     !.changes = {e \in @ : e.seq # op.chg}
                   \cup {[seq |-> b.changesSeq + 1, id |-> op.id]},
     !.changesSeq = @ + 1,
     !.inval[op.id] = b.invalSeq + 1,
     !.invalSeq = @ + 1,
     !.deleted = (IF op.undel THEN @ \ {op.id} ELSE @)
                   \cup (IF op.put.deleted THEN {op.id} ELSE {})]

Apply(b, op) ==
  LET c == [b EXCEPT !.leaves[op.id] = ApplyLeaves(@, op)]
  IN  IF op.put = NoDoc THEN c ELSE ApplyIndices(c, op)

-----------------------------------------------------------------------------
(* What holds of the buckets when transactions do not overlap. *)

\* docs holds the greatest leaf, live or deleted as doc_leaves has it.
WinnerRuleAt(b, d) ==
  IF b.docs[d] = NoDoc THEN leafRevs(b, d) = {}
  ELSE /\ b.docs[d].rev \in leafRevs(b, d)
       /\ b.docs[d].deleted = b.leaves[d][b.docs[d].rev].deleted
       /\ \A r \in leafRevs(b, d) :
            r = b.docs[d].rev \/ RevLess(r, b.docs[d].rev)

\* One changes entry per document, and the deleted documents in _deleted.
IndicesExactAt(b, d) ==
  /\ {e \in b.changes : e.id = d} =
       IF b.docs[d] = NoDoc THEN {} ELSE {[seq |-> b.inval[d], id |-> d]}
  /\ d \in b.deleted <=> b.docs[d].deleted

\* rev is the first of the revisions in hist.
Heads(rev, hist) == hist # <<>> /\ hist[1] = rev

\* The history of every leaf begins with the leaf itself.
LeavesHeadHistoryAt(b, d) ==
  \A r \in leafRevs(b, d) : Heads(r, b.leaves[d][r].hist)

SoundAt(b, d) ==
  WinnerRuleAt(b, d) /\ IndicesExactAt(b, d) /\ LeavesHeadHistoryAt(b, d)

=============================================================================
