---------------------------- MODULE DocTxProofs ----------------------------
(***************************************************************************)
(* Lemmas about the operators of DocTx and Changes: what a transaction     *)
(* reads and writes has the right type, what applying its log changes, and *)
(* what a page of the changes feed holds.                                  *)
(***************************************************************************)
EXTENDS Changes, FiniteSetTheorems, WellFoundedInduction, TLAPS

(***************************************************************************)
(* A document is told from the nil document by its revision.               *)
(***************************************************************************)
LEMMA DocIsNotNil ==
  ASSUME NEW doc \in Document
  PROVE  /\ doc # NoDoc
         /\ doc.rev \in Rev /\ doc.rev # NoRev
         /\ doc.deleted \in BOOLEAN /\ doc.hist \in Seq(Rev)
  BY DocTxAssumption DEF Document, NoDoc, Rev, NoRev

LEMMA NilDocument ==
  NoDoc.rev = NoRev /\ NoDoc.deleted = FALSE /\ NoDoc.hist \in Seq(Rev)
<1>1. NoDoc.hist = <<>> /\ NoDoc.rev = NoRev /\ NoDoc.deleted = FALSE
  BY DEF NoDoc
<1> QED
  BY <1>1

LEMMA RevFields ==
  ASSUME NEW r \in Rev
  PROVE  /\ r.gen \in 1..MaxGen /\ r.hash \in Hashes /\ r.hash \in Nat
         /\ r # NoRev
<1>1. r.gen \in 1..MaxGen /\ r.hash \in Hashes
  BY DEF Rev
<1>2. r.hash \in Nat
  BY <1>1, DocTxAssumption
<1>3. NoRev.gen = 0
  BY DEF NoRev
<1> QED
  BY <1>1, <1>2, <1>3

(***************************************************************************)
(* SetToSeq lists the elements of a finite set.                            *)
(***************************************************************************)
LEMMA SetToSeqIsSeq ==
  ASSUME NEW S, IsFiniteSet(S)
  PROVE  SetToSeq(S) \in Seq(S)
<1>1. PICK n \in Nat : ExistsBijection(1..n, S)
  BY FS_NatBijection
<1>2. Cardinality(S) = n
  BY <1>1, FS_CountingElements
<1>3. \E f \in [1..n -> S] : IsInjective(f)
  BY <1>1 DEF ExistsBijection, Bijection, Injection
<1>4. SetToSeq(S) \in [1..n -> S]
  BY <1>2, <1>3 DEF SetToSeq
<1> QED
  BY <1>4

LEMMA SeqToSet ==
  ASSUME NEW S, NEW s \in Seq(S)
  PROVE  /\ ToSet(s) \subseteq S /\ IsFiniteSet(ToSet(s))
         /\ \A x : x \in ToSet(s) <=> \E i \in 1..Len(s) : s[i] = x
<1>1. DOMAIN s = 1..Len(s) /\ Len(s) \in Nat /\ s \in [1..Len(s) -> S]
  OBVIOUS
<1>2. IsFiniteSet(1..Len(s))
  BY <1>1, FS_Interval
<1>3. ToSet(s) \subseteq S
  BY <1>1 DEF ToSet
<1>4. \A x : x \in ToSet(s) <=> \E i \in 1..Len(s) : s[i] = x
  BY <1>1 DEF ToSet
<1>5. s \in Surjection(1..Len(s), ToSet(s))
  BY <1>1, <1>4 DEF Surjection
<1> QED
  BY <1>2, <1>3, <1>4, <1>5, FS_Surjection DEF ExistsSurjection

LEMMA RevFinite == IsFiniteSet(Rev)
<1>1. IsFiniteSet((1..MaxGen) \X Hashes)
  <2>1. IsFiniteSet(1..MaxGen)
    BY DocTxAssumption, FS_Interval
  <2>2. IsFiniteSet(Hashes)
    BY DocTxAssumption
  <2> QED
    BY <2>1, <2>2, FS_Product
<1> DEFINE f == [p \in (1..MaxGen) \X Hashes |-> [gen |-> p[1], hash |-> p[2]]]
<1>2. f \in Surjection((1..MaxGen) \X Hashes, Rev)
  <2>1. \A p \in (1..MaxGen) \X Hashes : f[p] \in Rev
    BY DEF Rev
  <2>2. ASSUME NEW r \in Rev
        PROVE  \E p \in (1..MaxGen) \X Hashes : f[p] = r
    <3>1. <<r.gen, r.hash>> \in (1..MaxGen) \X Hashes
      BY DEF Rev
    <3>2. f[<<r.gen, r.hash>>] = r
      BY <3>1 DEF Rev
    <3> QED
      BY <3>1, <3>2
  <2> QED
    BY <2>1, <2>2 DEF Surjection
<1> QED
  BY <1>1, <1>2, FS_Surjection DEF ExistsSurjection

(***************************************************************************)
(* The history of an edited document is a history again.                   *)
(***************************************************************************)
LEMMA ChainType ==
  ASSUME NEW r \in Rev, NEW h \in Seq(Rev)
  PROVE  Chain(r, h) \in Seq(Rev)
<1>1. <<r>> \o h \in Seq(Rev)
  OBVIOUS
<1> QED
  BY <1>1, DocTxAssumption DEF Chain

LEMMA ChainHeads ==
  ASSUME NEW r \in Rev, NEW h \in Seq(Rev)
  PROVE  Heads(r, Chain(r, h))
<1> DEFINE s == <<r>> \o h
<1>1. s \in Seq(Rev) /\ Len(s) = 1 + Len(h) /\ s[1] = r /\ Len(h) \in Nat
  OBVIOUS
<1>2. HistCap \in Nat /\ HistCap >= 1
  BY DocTxAssumption
<1>3. Chain(r, h) = IF Len(s) > HistCap THEN SubSeq(s, 1, HistCap) ELSE s
  BY DEF Chain
<1> HIDE DEF s
<1>4. CASE Len(s) > HistCap
  <2> DEFINE c == SubSeq(s, 1, HistCap)
  <2>1. c \in Seq(Rev) /\ Len(c) = HistCap /\ c[1] = r
    BY <1>1, <1>2, <1>4
  <2>2. Chain(r, h) = c
    BY <1>3, <1>4
  <2> HIDE DEF c
  <2>3. c # <<>>
    BY <1>2, <2>1
  <2> QED
    BY <2>1, <2>2, <2>3 DEF Heads
<1>5. CASE ~(Len(s) > HistCap)
  <2>1. s # <<>>
    BY <1>1
  <2> QED
    BY <1>1, <1>3, <1>5, <2>1 DEF Heads
<1> QED
  BY <1>4, <1>5

LEMMA HeadNamed ==
  ASSUME NEW r, NEW h \in Seq(Rev), Heads(r, h)
  PROVE  r \in ToSet(h)
<1>1. h[1] = r /\ 1 \in DOMAIN h
  BY DEF Heads
<1> QED
  BY <1>1 DEF ToSet

LEMMA LeafIsDocument ==
  ASSUME NEW b \in Buckets, NEW d \in Docs, NEW r \in leafRevs(b, d)
  PROVE  r \in Rev /\ b.leaves[d][r] \in Document
  BY DEF Buckets, leafRevs

(***************************************************************************)
(* GetDocument changes nothing of a document but its history.              *)
(***************************************************************************)
LEMMA GetDocumentType ==
  ASSUME NEW b \in Buckets, NEW d \in Docs
  PROVE  /\ GetDocument(b, d) \in Document \cup {NoDoc}
         /\ GetDocument(b, d).rev = b.docs[d].rev
         /\ GetDocument(b, d).deleted = b.docs[d].deleted
         /\ GetDocument(b, d).hist \in Seq(Rev)
         /\ GetDocument(b, d) = NoDoc <=> b.docs[d] = NoDoc
<1> DEFINE doc == b.docs[d]
           others == leafRevs(b, d) \ {doc.rev}
           branches == UNION {ToSet(b.leaves[d][r].hist) : r \in others}
           extra == branches \ ToSet(doc.hist)
<1>1. doc \in Document \cup {NoDoc}
  BY DEF Buckets
<1>2. CASE doc.rev \in leafRevs(b, d) /\ others # {}
  <2>1. doc \in Document
    <3>1. doc.rev \in Rev
      BY <1>2 DEF leafRevs
    <3> QED
      BY <3>1, <1>1, RevFields DEF NoDoc
  <2>2. \A r \in others : b.leaves[d][r] \in Document
    BY DEF Buckets, leafRevs
  <2>3. \A r \in others : ToSet(b.leaves[d][r].hist) \subseteq Rev
    BY <2>2, DocIsNotNil DEF ToSet
  <2>4. extra \subseteq Rev
    BY <2>3
  <2>5. SetToSeq(extra) \in Seq(Rev)
    <3>1. IsFiniteSet(extra)
      BY <2>4, RevFinite, FS_Subset
    <3> QED
      BY <3>1, <2>4, SetToSeqIsSeq
  <2>6. GetDocument(b, d) = [doc EXCEPT !.hist = doc.hist \o SetToSeq(extra)]
    BY <1>2 DEF GetDocument
  <2>7. doc.hist \o SetToSeq(extra) \in Seq(Rev)
    BY <2>1, <2>5, DocIsNotNil
  <2>8. GetDocument(b, d) \in Document
    BY <2>1, <2>6, <2>7 DEF Document
  <2> QED
    BY <2>1, <2>6, <2>7, <2>8, DocIsNotNil DEF Document
<1>3. CASE ~(doc.rev \in leafRevs(b, d) /\ others # {})
  <2>1. GetDocument(b, d) = doc
    BY <1>3 DEF GetDocument
  <2>2. doc.hist \in Seq(Rev)
    BY <1>1, DocIsNotNil, NilDocument
  <2> QED
    BY <2>1, <2>2, <1>1
<1> QED
  BY <1>2, <1>3

-----------------------------------------------------------------------------
(* The operation logs. *)

\* The changes entry a log deletes is the one its snapshot had.
OwnChange(b, op) ==
  op.chg = 0 \/ (b.docs[op.id] # NoDoc /\ op.chg = b.inval[op.id])

LEMMA ReplaceWinnerType ==
  ASSUME NEW b \in Buckets, NEW d \in Docs, NEW doc \in Document,
         NEW puts \in SUBSET Document, NEW dels \in SUBSET Rev
  PROVE  ReplaceWinner(b, d, doc, puts, dels) \in OpLog
<1>1. b.inval[d] \in 0..MaxSeq /\ b.docs[d].deleted \in BOOLEAN
  BY DocIsNotNil, NilDocument DEF Buckets
<1>2. 0 \in 0..MaxSeq
  BY DocTxAssumption
<1> QED
  BY <1>1, <1>2 DEF ReplaceWinner, OpLog

LEMMA KeepWinnerType ==
  ASSUME NEW d \in Docs, NEW puts \in SUBSET Document, NEW dels \in SUBSET Rev
  PROVE  KeepWinner(d, puts, dels) \in OpLog
  BY DocTxAssumption DEF KeepWinner, OpLog

\* The winner that an edit replaces.
OldWinner(b, d) == IF b.docs[d] = NoDoc THEN {} ELSE {b.docs[d].rev}

\* The document stored is the only leaf written.
PutsWinner(op) == op.puts = {op.put}

(***************************************************************************)
(* PutDocument writes one leaf, new, and removes at most the old winner's. *)
(***************************************************************************)
LEMMA PutDocumentLog ==
  ASSUME NEW b \in Buckets, NEW d \in Docs, NEW new \in Rev,
         NEW deleted \in BOOLEAN,
         NEW op, op = PutDocument(b, d, new, deleted)
  PROVE  /\ op \in OpLog /\ op.id = d
         /\ op.put \in Document /\ PutsWinner(op) /\ op.put.rev = new
         /\ op.dels = OldWinner(b, d)
         /\ OwnChange(b, op)
<1> DEFINE old == GetDocument(b, d)
           doc == [rev |-> new, deleted |-> deleted, hist |-> Chain(new, old.hist)]
           dels == IF old = NoDoc THEN {} ELSE {old.rev}
<1>1. doc \in Document /\ doc.rev = new
  BY GetDocumentType, ChainType DEF Document
<1>2. dels \in SUBSET Rev
  BY GetDocumentType, DocIsNotNil
<1>3. op = ReplaceWinner(b, d, doc, {doc}, dels)
  BY DEF PutDocument
<1>4. dels = OldWinner(b, d)
  BY GetDocumentType DEF OldWinner
<1> HIDE DEF doc, dels
<1>5. op \in OpLog
  BY <1>1, <1>2, <1>3, ReplaceWinnerType
<1>6. op.id = d /\ op.put = doc /\ op.puts = {doc} /\ op.dels = dels
  BY <1>3 DEF ReplaceWinner
<1>7. OwnChange(b, op)
  BY <1>3 DEF ReplaceWinner, OwnChange
<1> QED
  BY <1>1, <1>4, <1>5, <1>6, <1>7 DEF PutsWinner

LEMMA PutDocumentOp ==
  ASSUME NEW b \in Buckets, NEW d \in Docs, NEW new \in Rev,
         NEW deleted \in BOOLEAN,
         NEW op, op = PutDocument(b, d, new, deleted)
  PROVE  /\ op.put.deleted = deleted
         /\ Heads(new, op.put.hist)
         /\ op.chg = IF b.docs[d] = NoDoc THEN 0 ELSE b.inval[d]
         /\ op.undel = b.docs[d].deleted
<1> DEFINE old == GetDocument(b, d)
           doc == [rev |-> new, deleted |-> deleted, hist |-> Chain(new, old.hist)]
           dels == IF old = NoDoc THEN {} ELSE {old.rev}
<1>1. op = ReplaceWinner(b, d, doc, {doc}, dels)
  BY DEF PutDocument
<1>2. doc.deleted = deleted /\ Heads(new, doc.hist)
  BY GetDocumentType, ChainHeads
<1> HIDE DEF doc
<1> QED
  BY <1>1, <1>2 DEF ReplaceWinner

(***************************************************************************)
(* PutDocumentForReplication writes the delivered leaf, and perhaps the    *)
(* stored document as one; it removes only ancestors the history names.    *)
(* If it stores a document, that is the new leaf or an old one.            *)
(***************************************************************************)
LEMMA ReplicationOp ==
  ASSUME NEW b \in Buckets, NEW d \in Docs, NEW doc \in Document,
         doc.hist # <<>>
  PROVE  LET op == PutDocumentForReplication(b, d, doc)
         IN  /\ op \in OpLog /\ op.id = d
             /\ doc \in op.puts
             /\ \A l \in op.puts :
                  \/ l = doc
                  \/ l.rev = b.docs[d].rev /\ l.rev \notin leafRevs(b, d)
             /\ op.dels \subseteq ToSet(Tail(doc.hist))
             /\ OwnChange(b, op)
             /\ op.put # NoDoc =>
                  op.chg = IF b.docs[d] = NoDoc THEN 0 ELSE b.inval[d]
<1> DEFINE old     == b.docs[d]
           stored  == leafRevs(b, d)
           legacy  == IF old = NoDoc \/ old.rev \in stored THEN {}
                      ELSE {GetDocument(b, d)}
           leafSet == stored \cup {l.rev : l \in legacy} \cup {doc.rev}
           parents == ToSet(Tail(doc.hist)) \cap leafSet
           winner  == WinnerRev(leafSet \ parents)
           winnerDoc == IF winner = doc.rev THEN doc
                        ELSE IF winner \in stored THEN b.leaves[d][winner]
                        ELSE NoDoc
           op == PutDocumentForReplication(b, d, doc)
<1>1. legacy \subseteq Document
  BY GetDocumentType
<1>2. \A l \in legacy : l.rev = old.rev /\ l.rev \notin stored
  BY GetDocumentType
<1>3. parents \subseteq Rev
  <2>1. Tail(doc.hist) \in Seq(Rev)
    BY DocIsNotNil
  <2> QED
    BY <2>1 DEF ToSet
<1>4. winnerDoc # NoDoc => winnerDoc \in Document
  <2> HIDE DEF winner, legacy, parents
  <2> QED
    BY LeafIsDocument
<1>5. op = IF winnerDoc # NoDoc /\ winner # old.rev
           THEN ReplaceWinner(b, d, winnerDoc, legacy \cup {doc}, parents)
           ELSE KeepWinner(d, legacy \cup {doc}, parents)
  BY DEF PutDocumentForReplication
<1> HIDE DEF legacy, parents, winnerDoc, winner
<1>6. op \in OpLog
  BY <1>1, <1>3, <1>4, <1>5, ReplaceWinnerType, KeepWinnerType
<1>7. op.id = d /\ op.puts = legacy \cup {doc} /\ op.dels = parents
  BY <1>5 DEF ReplaceWinner, KeepWinner
<1>8. /\ OwnChange(b, op)
      /\ op.put # NoDoc => op.chg = IF b.docs[d] = NoDoc THEN 0 ELSE b.inval[d]
  BY <1>5 DEF ReplaceWinner, KeepWinner, OwnChange
<1>9. parents \subseteq ToSet(Tail(doc.hist))
  BY DEF parents
<1> QED
  BY <1>2, <1>6, <1>7, <1>8, <1>9

(***************************************************************************)
(* Deleting a conflicting leaf replaces it by its tombstone.               *)
(***************************************************************************)
LEMMA DeleteLeafOp ==
  ASSUME NEW b \in Buckets, NEW d \in Docs, NEW new \in Rev,
         NEW rev \in leafRevs(b, d)
  PROVE  LET op == DeleteLeaf(b, d, rev, new)
         IN  /\ op \in OpLog /\ op.id = d
             /\ op.dels = {rev}
             /\ op.puts \subseteq Document
             /\ op.puts # {}
             /\ \A l \in op.puts : l.rev = new /\ l.deleted
             /\ op.put # NoDoc =>
                  op.chg = IF b.docs[d] = NoDoc THEN 0 ELSE b.inval[d]
             /\ OwnChange(b, op)
<1> DEFINE tombstone == [rev |-> new, deleted |-> TRUE,
                         hist |-> Chain(new, b.leaves[d][rev].hist)]
           leafSet   == (leafRevs(b, d) \ {rev}) \cup {new}
           winner    == WinnerRev(leafSet)
           winnerDoc == IF winner = new THEN tombstone
                        ELSE IF winner \in leafRevs(b, d)
                             THEN b.leaves[d][winner] ELSE NoDoc
           op == DeleteLeaf(b, d, rev, new)
<1>1. tombstone \in Document
  <2>1. b.leaves[d][rev] \in Document
    BY DEF Buckets, leafRevs
  <2>2. Chain(new, b.leaves[d][rev].hist) \in Seq(Rev)
    BY <2>1, DocIsNotNil, ChainType
  <2> QED
    BY <2>2 DEF Document
<1>2. winnerDoc # NoDoc => winnerDoc \in Document
  BY <1>1 DEF leafRevs, Buckets
<1>3. op = IF winnerDoc # NoDoc /\ winner # b.docs[d].rev
           THEN ReplaceWinner(b, d, winnerDoc, {tombstone}, {rev})
           ELSE KeepWinner(d, {tombstone}, {rev})
  BY DEF DeleteLeaf
<1>4. rev \in Rev
  BY DEF leafRevs
<1>5. tombstone.rev = new /\ tombstone.deleted
  OBVIOUS
<1> HIDE DEF tombstone, winnerDoc, winner
<1>6. op \in OpLog
  BY <1>1, <1>2, <1>3, <1>4, ReplaceWinnerType, KeepWinnerType
<1>7. /\ op.id = d /\ op.puts = {tombstone} /\ op.dels = {rev}
      /\ OwnChange(b, op)
      /\ op.put # NoDoc => op.chg = IF b.docs[d] = NoDoc THEN 0 ELSE b.inval[d]
  BY <1>3 DEF ReplaceWinner, KeepWinner, OwnChange
<1> QED
  BY <1>1, <1>5, <1>6, <1>7

(***************************************************************************)
(* What the two operations store as the winner: their own document or an   *)
(* old leaf.                                                               *)
(***************************************************************************)
LEMMA ReplicationPut ==
  ASSUME NEW b \in Buckets, NEW d \in Docs, NEW doc \in Document
  PROVE  LET put == PutDocumentForReplication(b, d, doc).put
         IN  put # NoDoc =>
               \/ put = doc
               \/ \E r \in leafRevs(b, d) : put = b.leaves[d][r]
  BY DEF PutDocumentForReplication, ReplaceWinner, KeepWinner

LEMMA DeleteLeafPut ==
  ASSUME NEW b \in Buckets, NEW d \in Docs, NEW new \in Rev,
         NEW rev \in leafRevs(b, d)
  PROVE  LET put == DeleteLeaf(b, d, rev, new).put
         IN  put # NoDoc =>
               \/ put.rev = new
               \/ \E r \in leafRevs(b, d) : put = b.leaves[d][r]
  BY DEF DeleteLeaf, ReplaceWinner, KeepWinner

-----------------------------------------------------------------------------
(* Applying an operation log. *)

LEMMA ApplyLeavesAt ==
  ASSUME NEW f \in [Rev -> Document \cup {NoDoc}], NEW op \in OpLog,
         NEW r \in Rev
  PROVE  /\ ApplyLeaves(f, op) \in [Rev -> Document \cup {NoDoc}]
         /\ ApplyLeaves(f, op)[r] # NoDoc <=>
              /\ r \notin op.dels
              /\ f[r] # NoDoc \/ \E l \in op.puts : l.rev = r
         /\ r \notin op.dels /\ (\E l \in op.puts : l.rev = r) =>
              /\ ApplyLeaves(f, op)[r] \in op.puts
              /\ ApplyLeaves(f, op)[r].rev = r
         /\ r \notin op.dels /\ ~(\E l \in op.puts : l.rev = r) =>
              ApplyLeaves(f, op)[r] = f[r]
<1>1. op.puts \subseteq Document /\ op.dels \subseteq Rev
  BY DEF OpLog
<1>2. ASSUME NEW s \in Rev, \E l \in op.puts : l.rev = s
      PROVE  /\ (CHOOSE l \in op.puts : l.rev = s) \in op.puts
             /\ (CHOOSE l \in op.puts : l.rev = s).rev = s
  BY <1>2
<1>3. ApplyLeaves(f, op) \in [Rev -> Document \cup {NoDoc}]
  BY <1>1, <1>2 DEF ApplyLeaves
<1>4. \A l \in op.puts : l # NoDoc
  BY <1>1, DocIsNotNil
<1> QED
  BY <1>2, <1>3, <1>4 DEF ApplyLeaves

LEMMA ApplyFields ==
  ASSUME NEW b \in Buckets, NEW op \in OpLog
  PROVE  LET a == Apply(b, op)
         IN  /\ a.leaves = [b.leaves EXCEPT ![op.id] = ApplyLeaves(@, op)]
             /\ op.put = NoDoc =>
                  /\ a.docs = b.docs /\ a.changes = b.changes
                  /\ a.changesSeq = b.changesSeq /\ a.inval = b.inval
                  /\ a.invalSeq = b.invalSeq /\ a.deleted = b.deleted
             /\ op.put # NoDoc =>
                  /\ a.docs = [b.docs EXCEPT ![op.id] = op.put]
                  /\ a.changes = {e \in b.changes : e.seq # op.chg}
                       \cup {[seq |-> b.changesSeq + 1, id |-> op.id]}
                  /\ a.changesSeq = b.changesSeq + 1
                  /\ a.inval = [b.inval EXCEPT ![op.id] = b.invalSeq + 1]
                  /\ a.invalSeq = b.invalSeq + 1
                  /\ a.deleted =
                       (IF op.undel THEN b.deleted \ {op.id} ELSE b.deleted)
                         \cup (IF op.put.deleted THEN {op.id} ELSE {})
  BY DEF Apply, ApplyIndices, Buckets

-----------------------------------------------------------------------------
(* The revision order. *)

LEMMA ApplyInBuckets ==
  ASSUME NEW b \in Buckets, NEW op \in OpLog,
         b.changesSeq = b.invalSeq, b.changesSeq < MaxSeq
  PROVE  Apply(b, op) \in Buckets
<1> DEFINE a == Apply(b, op)
           f == b.leaves[op.id]
<1>1. /\ op.id \in Docs /\ f \in [Rev -> Document \cup {NoDoc}]
      /\ b.leaves \in [Docs -> [Rev -> Document \cup {NoDoc}]]
      /\ b.docs \in [Docs -> Document \cup {NoDoc}]
      /\ b.inval \in [Docs -> 0..MaxSeq]
      /\ b.changes \subseteq Change /\ b.deleted \subseteq Docs
      /\ b.changesSeq \in 0..MaxSeq
      /\ op.put \in Document \cup {NoDoc}
  BY DEF Buckets, OpLog
<1> HIDE DEF f
<1>2. ApplyLeaves(f, op) \in [Rev -> Document \cup {NoDoc}]
  <2>1. CASE Rev = {}
    BY <2>1 DEF ApplyLeaves
  <2>2. CASE Rev # {}
    BY <1>1, <2>2, ApplyLeavesAt
  <2> QED
    BY <2>1, <2>2
<1>3. a.leaves \in [Docs -> [Rev -> Document \cup {NoDoc}]]
  <2>1. a.leaves = [b.leaves EXCEPT ![op.id] = ApplyLeaves(f, op)]
    BY ApplyFields DEF f
  <2> QED
    BY <1>1, <1>2, <2>1
<1>4. b.changesSeq + 1 \in 1..MaxSeq /\ b.invalSeq + 1 \in 1..MaxSeq
      /\ 1..MaxSeq \subseteq 0..MaxSeq
  BY <1>1, DocTxAssumption
<1>5. CASE op.put = NoDoc
  <2>1. a = [b EXCEPT !.leaves = a.leaves]
    BY <1>5 DEF Apply, Buckets
  <2> HIDE DEF a
  <2> QED
    BY <1>3, <2>1 DEF Buckets, a
<1>6. CASE op.put # NoDoc
  <2>1. a = [docs |-> a.docs, leaves |-> a.leaves, changes |-> a.changes,
             changesSeq |-> a.changesSeq, inval |-> a.inval,
             invalSeq |-> a.invalSeq, deleted |-> a.deleted]
    BY <1>6 DEF Apply, ApplyIndices, Buckets
  <2>2. /\ a.docs = [b.docs EXCEPT ![op.id] = op.put]
        /\ a.changes = {e \in b.changes : e.seq # op.chg}
             \cup {[seq |-> b.changesSeq + 1, id |-> op.id]}
        /\ a.changesSeq = b.changesSeq + 1
        /\ a.inval = [b.inval EXCEPT ![op.id] = b.invalSeq + 1]
        /\ a.invalSeq = b.invalSeq + 1
        /\ a.deleted = (IF op.undel THEN b.deleted \ {op.id} ELSE b.deleted)
                         \cup (IF op.put.deleted THEN {op.id} ELSE {})
    BY <1>6, ApplyFields
  <2> HIDE DEF a
  <2>3. a.docs \in [Docs -> Document \cup {NoDoc}]
    BY <1>1, <2>2
  <2>4. a.changes \subseteq Change
    BY <1>1, <1>4, <2>2 DEF Change
  <2>5. a.inval \in [Docs -> 0..MaxSeq]
    BY <1>1, <1>4, <2>2
  <2>6. a.deleted \subseteq Docs
    BY <1>1, <2>2
  <2>7. a.changesSeq \in 0..MaxSeq /\ a.invalSeq \in 0..MaxSeq
    BY <1>4, <2>2
  <2> QED
    BY <1>3, <2>1, <2>3, <2>4, <2>5, <2>6, <2>7 DEF Buckets, a
<1> QED
  BY <1>5, <1>6

LEMMA ApplySequences ==
  ASSUME NEW b \in Buckets, NEW op \in OpLog, b.changesSeq = b.invalSeq,
         NEW a, a = Apply(b, op)
  PROVE  /\ a.changesSeq = a.invalSeq
         /\ op.put = NoDoc => /\ a.docs = b.docs /\ a.inval = b.inval
                              /\ a.changesSeq = b.changesSeq
         /\ op.put # NoDoc =>
              /\ a.changesSeq = b.changesSeq + 1
              /\ a.inval = [b.inval EXCEPT ![op.id] = b.changesSeq + 1]
<1>1. CASE op.put = NoDoc
  BY <1>1, ApplyFields
<1>2. CASE op.put # NoDoc
  <2>1. /\ a.changesSeq = b.changesSeq + 1
        /\ a.inval = [b.inval EXCEPT ![op.id] = b.invalSeq + 1]
        /\ a.invalSeq = b.invalSeq + 1
    BY <1>2, ApplyFields
  <2> QED
    BY <1>2, <2>1
<1> QED
  BY <1>1, <1>2

LEMMA RevNumbers ==
  ASSUME NEW r \in Rev \cup {NoRev}
  PROVE  r.gen \in Nat /\ r.hash \in Nat
BY RevFields, DocTxAssumption DEF NoRev

LEMMA RevOrder ==
  ASSUME NEW q \in Rev \cup {NoRev}, NEW r \in Rev \cup {NoRev}
  PROVE  /\ q = r \/ RevLess(q, r) \/ RevLess(r, q)
         /\ RevLess(q, r) => ~RevLess(r, q) /\ q # r
<1>1. q.gen \in Nat /\ q.hash \in Nat /\ r.gen \in Nat /\ r.hash \in Nat
  BY RevNumbers
<1>2. q.gen = r.gen /\ q.hash = r.hash => q = r
  BY DEF Rev, NoRev
<1> QED
  BY <1>1, <1>2 DEF RevLess

LEMMA RevLessTransitive ==
  ASSUME NEW q \in Rev \cup {NoRev}, NEW r \in Rev \cup {NoRev},
         NEW s \in Rev \cup {NoRev}, RevLess(q, r), RevLess(r, s)
  PROVE  RevLess(q, s)
<1>1. /\ q.gen \in Nat /\ q.hash \in Nat /\ r.gen \in Nat /\ r.hash \in Nat
      /\ s.gen \in Nat /\ s.hash \in Nat
  BY RevNumbers
<1> QED
  BY <1>1 DEF RevLess

LEMMA NoRevIsLeast ==
  ASSUME NEW r \in Rev
  PROVE  RevLess(NoRev, r)
BY RevFields DEF RevLess, NoRev

LEMMA GreaterGeneration ==
  ASSUME NEW q \in Rev \cup {NoRev}, NEW r \in Rev \cup {NoRev}, q.gen < r.gen
  PROVE  RevLess(q, r)
BY DEF RevLess

(***************************************************************************)
(* The winner of a set of revisions is its greatest element, if it has one.*)
(***************************************************************************)
LEMMA WinnerIsGreatest ==
  ASSUME NEW S \in SUBSET Rev, NEW m \in S,
         \A o \in S : o = m \/ RevLess(o, m)
  PROVE  WinnerRev(S) = m
<1>1. \A n \in S : (\A o \in S : o = n \/ RevLess(o, n)) => n = m
  BY RevOrder
<1> QED
  BY <1>1 DEF WinnerRev

-----------------------------------------------------------------------------
(* Histories. *)

LEMMA SetToSeqCovers ==
  ASSUME NEW S, IsFiniteSet(S)
  PROVE  ToSet(SetToSeq(S)) = S
<1>1. PICK n \in Nat : ExistsBijection(1..n, S)
  BY FS_NatBijection
<1>2. Cardinality(S) = n
  BY <1>1, FS_CountingElements
<1>3. \E f \in [1..n -> S] : IsInjective(f)
  BY <1>1 DEF ExistsBijection, Bijection, Injection
<1>4. SetToSeq(S) \in [1..n -> S] /\ IsInjective(SetToSeq(S))
  BY <1>2, <1>3 DEF SetToSeq
<1>5. Cardinality(1..n) = n
  BY FS_Interval
<1>6. SetToSeq(S) \in Injection(1..n, S)
  BY <1>4 DEF Injection
<1>7. SetToSeq(S) \in Surjection(1..n, S)
  BY <1>2, <1>5, <1>6, FS_Injection
<1> QED
  BY <1>4, <1>7 DEF Surjection, ToSet

-----------------------------------------------------------------------------
(* What a log that writes one leaf does to a sound document. *)

LEMMA OneLeafApplied ==
  ASSUME NEW b \in Buckets, NEW op \in OpLog, NEW leaf \in Document,
         op.puts = {leaf}, leaf.rev \notin op.dels
  PROVE  LET a == Apply(b, op)
             d == op.id
         IN  /\ leafRevs(a, d) =
                  (leafRevs(b, d) \cup {leaf.rev}) \ op.dels
             /\ a.leaves[d][leaf.rev] = leaf
             /\ \A r \in leafRevs(a, d) :
                  r # leaf.rev =>
                    r \in leafRevs(b, d) /\ a.leaves[d][r] = b.leaves[d][r]
<1> DEFINE a == Apply(b, op)
           d == op.id
           f == b.leaves[d]
<1>1. d \in Docs /\ leaf.rev \in Rev /\ f \in [Rev -> Document \cup {NoDoc}]
  BY DocIsNotNil DEF OpLog, Buckets
<1>2. a.leaves[d] = ApplyLeaves(f, op)
  <2>1. a.leaves = [b.leaves EXCEPT ![d] = ApplyLeaves(@, op)]
    BY ApplyFields
  <2>2. b.leaves \in [Docs -> [Rev -> Document \cup {NoDoc}]]
    BY DEF Buckets
  <2> QED
    BY <1>1, <2>1, <2>2
<1>3. \A r \in Rev : r \in leafRevs(b, d) <=> f[r] # NoDoc
  BY DEF leafRevs
<1>4. \A r \in Rev : r \in leafRevs(a, d) <=> ApplyLeaves(f, op)[r] # NoDoc
  BY <1>2 DEF leafRevs
<1>5. leafRevs(a, d) \subseteq Rev /\ leafRevs(b, d) \subseteq Rev
  BY DEF leafRevs
<1>6. ASSUME NEW r \in Rev
      PROVE  /\ ApplyLeaves(f, op)[r] # NoDoc <=>
                  r \notin op.dels /\ (f[r] # NoDoc \/ leaf.rev = r)
             /\ r = leaf.rev => ApplyLeaves(f, op)[r] = leaf
             /\ r \notin op.dels /\ r # leaf.rev => ApplyLeaves(f, op)[r] = f[r]
  BY <1>1, ApplyLeavesAt
<1> HIDE DEF a, f
<1>7. leafRevs(a, d) = (leafRevs(b, d) \cup {leaf.rev}) \ op.dels
  BY <1>1, <1>3, <1>4, <1>5, <1>6
<1>8. a.leaves[d][leaf.rev] = leaf
  BY <1>1, <1>2, <1>6
<1>9. ASSUME NEW r \in leafRevs(a, d), r # leaf.rev
      PROVE  r \in leafRevs(b, d) /\ a.leaves[d][r] = f[r]
  BY <1>2, <1>5, <1>6, <1>7, <1>9
<1> QED
  BY <1>7, <1>8, <1>9 DEF a, f

(***************************************************************************)
(* A new leaf greater than the leaves that stay becomes the winner.        *)
(***************************************************************************)
LEMMA TakesOver ==
  ASSUME NEW b \in Buckets, NEW op \in OpLog, NEW leaf \in Document,
         b.changesSeq = b.invalSeq, SoundAt(b, op.id),
         op.put = leaf, op.puts = {leaf}, leaf.rev \notin op.dels,
         op.chg = IF b.docs[op.id] = NoDoc THEN 0 ELSE b.inval[op.id],
         op.undel = b.docs[op.id].deleted,
         Heads(leaf.rev, leaf.hist),
         \A r \in leafRevs(b, op.id) \ op.dels :
           r = leaf.rev \/ RevLess(r, leaf.rev)
  PROVE  /\ SoundAt(Apply(b, op), op.id)
         /\ Apply(b, op).docs[op.id].rev = leaf.rev
<1> DEFINE a == Apply(b, op)
           d == op.id
           new == [seq |-> b.changesSeq + 1, id |-> d]
<1>1. d \in Docs /\ op.put # NoDoc
  BY DocIsNotNil DEF OpLog
<1>2. /\ a.docs[d] = leaf
      /\ a.changes = {e \in b.changes : e.seq # op.chg} \cup {new}
      /\ a.inval[d] = b.invalSeq + 1
      /\ a.deleted = (IF op.undel THEN b.deleted \ {d} ELSE b.deleted)
                       \cup (IF leaf.deleted THEN {d} ELSE {})
  <2>1. /\ b.docs \in [Docs -> Document \cup {NoDoc}]
        /\ b.inval \in [Docs -> 0..MaxSeq]
    BY DEF Buckets
  <2>2. /\ a.docs = [b.docs EXCEPT ![d] = op.put]
        /\ a.inval = [b.inval EXCEPT ![d] = b.invalSeq + 1]
        /\ a.changes = {e \in b.changes : e.seq # op.chg} \cup {new}
        /\ a.deleted = (IF op.undel THEN b.deleted \ {d} ELSE b.deleted)
                       \cup (IF op.put.deleted THEN {d} ELSE {})
    BY <1>1, ApplyFields
  <2> QED
    BY <1>1, <2>1, <2>2
<1>3. /\ leafRevs(a, d) = (leafRevs(b, d) \cup {leaf.rev}) \ op.dels
      /\ a.leaves[d][leaf.rev] = leaf
      /\ \A r \in leafRevs(a, d) :
           r # leaf.rev =>
             r \in leafRevs(b, d) /\ a.leaves[d][r] = b.leaves[d][r]
  BY OneLeafApplied
<1> HIDE DEF a
<1>4. WinnerRuleAt(a, d)
  <2>1. leaf # NoDoc
    BY <1>1
  <2> QED
    BY <1>2, <1>3, <2>1 DEF WinnerRuleAt
<1>5. LeavesHeadHistoryAt(a, d)
  BY <1>3 DEF SoundAt, LeavesHeadHistoryAt
<1>6. IndicesExactAt(a, d)
  <2>1. {e \in b.changes : e.id = d /\ e.seq # op.chg} = {}
    BY DEF SoundAt, IndicesExactAt
  <2>2. {e \in a.changes : e.id = d} = {new}
    BY <1>2, <2>1
  <2>3. {e \in a.changes : e.id = d} = {[seq |-> a.inval[d], id |-> d]}
    BY <1>2, <2>2
  <2>4. d \in a.deleted <=> a.docs[d].deleted
    <3>1. d \in b.deleted <=> op.undel
      BY DEF SoundAt, IndicesExactAt
    <3>2. op.undel \in BOOLEAN /\ leaf.deleted \in BOOLEAN
      BY DocIsNotNil DEF OpLog
    <3> QED
      BY <1>2, <3>1, <3>2
  <2> QED
    BY <1>1, <1>2, <2>3, <2>4 DEF IndicesExactAt
<1> QED
  BY <1>2, <1>4, <1>5, <1>6 DEF SoundAt, a

(***************************************************************************)
(* A new leaf that is not greater than the winner leaves it the winner.    *)
(***************************************************************************)
LEMMA WinnerStays ==
  ASSUME NEW b \in Buckets, NEW op \in OpLog, NEW leaf \in Document,
         SoundAt(b, op.id), b.docs[op.id] # NoDoc,
         op.put = NoDoc, op.puts = {leaf}, leaf.rev \notin op.dels,
         b.docs[op.id].rev \notin op.dels,
         Heads(leaf.rev, leaf.hist),
         \/ RevLess(leaf.rev, b.docs[op.id].rev)
         \/ /\ leaf.rev = b.docs[op.id].rev
            /\ leaf.deleted = b.docs[op.id].deleted
  PROVE  /\ SoundAt(Apply(b, op), op.id)
         /\ Apply(b, op).docs = b.docs
<1> DEFINE a == Apply(b, op)
           d == op.id
<1>1. /\ a.docs = b.docs /\ a.changes = b.changes /\ a.inval = b.inval
      /\ a.deleted = b.deleted
  BY ApplyFields
<1>2. /\ leafRevs(a, d) = (leafRevs(b, d) \cup {leaf.rev}) \ op.dels
      /\ a.leaves[d][leaf.rev] = leaf
      /\ \A r \in leafRevs(a, d) :
           r # leaf.rev =>
             r \in leafRevs(b, d) /\ a.leaves[d][r] = b.leaves[d][r]
  BY OneLeafApplied
<1> HIDE DEF a
<1>3. IndicesExactAt(a, d)
  BY <1>1 DEF SoundAt, IndicesExactAt
<1>4. LeavesHeadHistoryAt(a, d)
  BY <1>2 DEF SoundAt, LeavesHeadHistoryAt
<1>5. WinnerRuleAt(a, d)
  <2> DEFINE win == b.docs[d].rev
  <2>1. /\ win \in leafRevs(b, d)
        /\ b.docs[d].deleted = b.leaves[d][win].deleted
        /\ \A r \in leafRevs(b, d) : r = win \/ RevLess(r, win)
    BY DEF SoundAt, WinnerRuleAt
  <2>2. win \in leafRevs(a, d)
    BY <1>2, <2>1
  <2>3. b.docs[d].deleted = a.leaves[d][win].deleted
    <3>1. CASE win = leaf.rev
      <4>1. leaf.deleted = b.docs[d].deleted
        <5>1. leaf.rev \in Rev
          BY DocIsNotNil
        <5> QED
          BY <3>1, <5>1, RevOrder
      <4> QED
        BY <1>2, <3>1, <4>1
    <3>2. CASE win # leaf.rev
      BY <1>2, <2>1, <2>2, <3>2
    <3> QED
      BY <3>1, <3>2
  <2>4. \A r \in leafRevs(a, d) : r = win \/ RevLess(r, win)
    BY <1>2, <2>1
  <2> QED
    BY <1>1, <2>2, <2>3, <2>4 DEF WinnerRuleAt
<1> QED
  BY <1>1, <1>3, <1>4, <1>5 DEF SoundAt, a

(***************************************************************************)
(* A log whose changes entry is the document's own leaves the others sound.*)
(***************************************************************************)
LEMMA OthersStaySound ==
  ASSUME NEW b \in Buckets, NEW op \in OpLog, NEW c \in Docs, c # op.id,
         \A e \in b.changes : e.seq = op.chg => e.id = op.id,
         SoundAt(b, c)
  PROVE  /\ SoundAt(Apply(b, op), c)
         /\ Apply(b, op).docs[c] = b.docs[c]
         /\ Apply(b, op).leaves[c] = b.leaves[c]
<1> DEFINE a == Apply(b, op)
           d == op.id
<1>1. /\ b.docs \in [Docs -> Document \cup {NoDoc}]
      /\ b.inval \in [Docs -> 0..MaxSeq]
      /\ b.leaves \in [Docs -> [Rev -> Document \cup {NoDoc}]]
  BY DEF Buckets
<1>2. a.leaves[c] = b.leaves[c]
  BY <1>1, ApplyFields
<1>3. a.docs[c] = b.docs[c] /\ a.inval[c] = b.inval[c]
      /\ (c \in a.deleted <=> c \in b.deleted)
  <2>1. CASE op.put = NoDoc
    BY <2>1, ApplyFields
  <2>2. CASE op.put # NoDoc
    <3>1. /\ a.docs = [b.docs EXCEPT ![d] = op.put]
          /\ a.inval = [b.inval EXCEPT ![d] = b.invalSeq + 1]
          /\ a.deleted = (IF op.undel THEN b.deleted \ {d} ELSE b.deleted)
                           \cup (IF op.put.deleted THEN {d} ELSE {})
      BY <2>2, ApplyFields
    <3> QED
      BY <1>1, <3>1
  <2> QED
    BY <2>1, <2>2
<1>4. {e \in a.changes : e.id = c} = {e \in b.changes : e.id = c}
  <2>1. CASE op.put = NoDoc
    BY <2>1, ApplyFields
  <2>2. CASE op.put # NoDoc
    <3>1. a.changes = {e \in b.changes : e.seq # op.chg}
                        \cup {[seq |-> b.changesSeq + 1, id |-> d]}
      BY <2>2, ApplyFields
    <3>2. [seq |-> b.changesSeq + 1, id |-> d].id # c
      OBVIOUS
    <3> QED
      BY <3>1, <3>2
  <2> QED
    BY <2>1, <2>2
<1> HIDE DEF a
<1>5. leafRevs(a, c) = leafRevs(b, c)
  BY <1>2 DEF leafRevs
<1>6. WinnerRuleAt(a, c) /\ LeavesHeadHistoryAt(a, c)
  BY <1>2, <1>3, <1>5 DEF SoundAt, WinnerRuleAt, LeavesHeadHistoryAt
<1>7. IndicesExactAt(a, c)
  BY <1>3, <1>4 DEF SoundAt, IndicesExactAt
<1> QED
  BY <1>2, <1>3, <1>6, <1>7 DEF SoundAt, a

-----------------------------------------------------------------------------
(* Each kind of transaction leaves a sound document sound, if its log is   *)
(* applied to what it read, and its winner is the greater of the old one   *)
(* and the new revision.                                                   *)

\* The leaves of d after op are old ones and one new, deleted or not.
OneNewLeaf(b, op, d, new, deleted) ==
  \A r \in leafRevs(Apply(b, op), d) :
    \/ /\ r \in leafRevs(b, d)
       /\ Apply(b, op).leaves[d][r] = b.leaves[d][r]
    \/ r = new /\ Apply(b, op).leaves[d][r].deleted = deleted

\* op, applied to the sound document d, leaves it sound, with one leaf more
\* and a winner that is neither less than new nor than the one before.
KeepsSound(b, op, d, new, deleted) ==
  LET a == Apply(b, op)
  IN  /\ SoundAt(a, d)
      /\ AtLeast(a.docs[d].rev, new)
      /\ AtLeast(a.docs[d].rev, b.docs[d].rev)
      /\ OneNewLeaf(b, op, d, new, deleted)

LEMMA WinnerRevType ==
  ASSUME NEW b \in Buckets, NEW d \in Docs
  PROVE  b.docs[d].rev \in Rev \cup {NoRev}
<1>1. b.docs[d] \in Document \cup {NoDoc}
  BY DEF Buckets
<1> QED
  BY <1>1, DocIsNotNil, NilDocument

LEMMA WinnerBelow ==
  ASSUME NEW b \in Buckets, NEW d \in Docs, SoundAt(b, d), NEW new \in Rev,
         RevLess(b.docs[d].rev, new)
  PROVE  \A r \in leafRevs(b, d) : RevLess(r, new)
<1> SUFFICES ASSUME NEW r \in leafRevs(b, d) PROVE RevLess(r, new)
  OBVIOUS
<1>1. r = b.docs[d].rev \/ RevLess(r, b.docs[d].rev)
  BY DEF SoundAt, WinnerRuleAt
<1>2. r \in Rev
  BY DEF leafRevs
<1> QED
  BY <1>1, <1>2, WinnerRevType, RevLessTransitive

LEMMA PutDocumentSound ==
  ASSUME NEW b \in Buckets, NEW d \in Docs, NEW new \in Rev,
         NEW deleted \in BOOLEAN, b.changesSeq = b.invalSeq, SoundAt(b, d),
         b.docs[d].rev.gen < new.gen,
         NEW op, op = PutDocument(b, d, new, deleted)
  PROVE  KeepsSound(b, op, d, new, deleted)
<1>1. /\ op \in OpLog /\ op.id = d
      /\ op.put \in Document /\ PutsWinner(op) /\ op.put.rev = new
      /\ op.dels = OldWinner(b, d)
  BY PutDocumentLog
<1>2. /\ op.put.deleted = deleted
      /\ Heads(new, op.put.hist)
      /\ op.chg = IF b.docs[d] = NoDoc THEN 0 ELSE b.inval[d]
      /\ op.undel = b.docs[d].deleted
  BY PutDocumentOp
<1>3. RevLess(b.docs[d].rev, new)
  BY DEF RevLess
<1>4. new \notin op.dels
  BY <1>1, <1>3, WinnerRevType, RevOrder DEF OldWinner
<1>5. \A r \in leafRevs(b, d) \ op.dels : RevLess(r, new)
  BY <1>3, WinnerBelow
<1>6. op.puts = {op.put}
  BY <1>1 DEF PutsWinner
<1>7. SoundAt(Apply(b, op), d) /\ Apply(b, op).docs[d].rev = new
  BY <1>1, <1>4, <1>5, <1>2, <1>6, TakesOver
<1>8. OneNewLeaf(b, op, d, new, deleted)
  BY <1>1, <1>4, <1>2, <1>6, OneLeafApplied DEF OneNewLeaf
<1> QED
  BY <1>3, <1>7, <1>8 DEF AtLeast, KeepsSound

LEMMA DeleteLeafSound ==
  ASSUME NEW b \in Buckets, NEW d \in Docs, NEW new \in Rev,
         NEW rev \in leafRevs(b, d), rev # b.docs[d].rev,
         b.changesSeq = b.invalSeq, SoundAt(b, d), rev.gen < new.gen,
         new = b.docs[d].rev => b.docs[d].deleted
  PROVE  KeepsSound(b, DeleteLeaf(b, d, rev, new), d, new, TRUE)
<1> DEFINE tombstone == [rev |-> new, deleted |-> TRUE,
                         hist |-> Chain(new, b.leaves[d][rev].hist)]
           leafSet   == (leafRevs(b, d) \ {rev}) \cup {new}
           winner    == WinnerRev(leafSet)
           winnerDoc == IF winner = new THEN tombstone
                        ELSE IF winner \in leafRevs(b, d)
                             THEN b.leaves[d][winner] ELSE NoDoc
           win == b.docs[d].rev
           op == DeleteLeaf(b, d, rev, new)
<1>1. b.leaves[d][rev] \in Document
  BY LeafIsDocument
<1>2. /\ Chain(new, b.leaves[d][rev].hist) \in Seq(Rev)
      /\ Heads(new, Chain(new, b.leaves[d][rev].hist))
  BY <1>1, DocIsNotNil, ChainType, ChainHeads
<1>3. /\ tombstone \in Document /\ tombstone.rev = new
      /\ tombstone.deleted = TRUE /\ tombstone # NoDoc
      /\ Heads(new, tombstone.hist)
  BY <1>2, DocIsNotNil DEF Document
<1>4. op = IF winnerDoc # NoDoc /\ winner # win
           THEN ReplaceWinner(b, d, winnerDoc, {tombstone}, {rev})
           ELSE KeepWinner(d, {tombstone}, {rev})
  BY DEF DeleteLeaf
<1>5. op \in OpLog /\ op.id = d
  BY DeleteLeafOp
<1>6. /\ b.docs[d] # NoDoc /\ win \in leafRevs(b, d) /\ win \in Rev
      /\ \A r \in leafRevs(b, d) : r = win \/ RevLess(r, win)
  BY DEF SoundAt, WinnerRuleAt, leafRevs
<1>7. rev \in Rev /\ leafSet \in SUBSET Rev /\ leafRevs(b, d) \subseteq Rev
  BY DEF leafRevs
<1>8. RevLess(rev, new) /\ rev # new
  <2>1. RevLess(rev, new)
    BY DEF RevLess
  <2> QED
    BY <1>7, <2>1, RevOrder
<1> HIDE DEF tombstone, winner, winnerDoc, op
<1>9. CASE RevLess(win, new)
  <2>1. \A r \in leafRevs(b, d) : RevLess(r, new)
    BY <1>9, WinnerBelow
  <2>2. winner = new
    BY <1>7, <2>1, WinnerIsGreatest DEF winner
  <2>3. op = ReplaceWinner(b, d, tombstone, {tombstone}, {rev})
    BY <1>3, <1>4, <1>6, <1>9, <2>2, RevOrder DEF winnerDoc
  <2>4. /\ op.put = tombstone /\ op.puts = {tombstone} /\ op.dels = {rev}
        /\ op.chg = IF b.docs[d] = NoDoc THEN 0 ELSE b.inval[d]
        /\ op.undel = b.docs[d].deleted
    BY <2>3 DEF ReplaceWinner
  <2>5. SoundAt(Apply(b, op), d) /\ Apply(b, op).docs[d].rev = new
    BY <1>3, <1>5, <1>8, <2>1, <2>4, TakesOver
  <2>6. OneNewLeaf(b, op, d, new, TRUE)
    BY <1>3, <1>5, <1>8, <2>4, OneLeafApplied DEF OneNewLeaf
  <2> QED
    BY <1>9, <2>5, <2>6 DEF op, AtLeast, KeepsSound
<1>10. CASE ~RevLess(win, new)
  <2>1. win = new \/ RevLess(new, win)
    BY <1>6, <1>10, RevOrder
  <2>2. winner = win
    BY <1>6, <1>7, <2>1, WinnerIsGreatest DEF winner
  <2>3. op = KeepWinner(d, {tombstone}, {rev})
    BY <1>4, <2>2
  <2>4. op.put = NoDoc /\ op.puts = {tombstone} /\ op.dels = {rev}
    BY <2>3 DEF KeepWinner
  <2>5. new = win => b.docs[d].deleted = TRUE
    BY <1>6, DocIsNotNil DEF Buckets
  <2>6. SoundAt(Apply(b, op), d) /\ Apply(b, op).docs = b.docs
    BY <1>3, <1>5, <1>6, <1>8, <2>1, <2>4, <2>5, WinnerStays
  <2>7. OneNewLeaf(b, op, d, new, TRUE)
    BY <1>3, <1>5, <1>8, <2>4, OneLeafApplied DEF OneNewLeaf
  <2> QED
    BY <2>1, <2>6, <2>7 DEF op, AtLeast, KeepsSound
<1> QED
  BY <1>9, <1>10

LEMMA ReplicationSound ==
  ASSUME NEW b \in Buckets, NEW d \in Docs, NEW doc \in Document,
         Heads(doc.rev, doc.hist), doc.rev # b.docs[d].rev,
         \A r \in ToSet(Tail(doc.hist)) : r.gen < doc.rev.gen,
         b.changesSeq = b.invalSeq, SoundAt(b, d)
  PROVE  KeepsSound(b, PutDocumentForReplication(b, d, doc), d, doc.rev,
                    doc.deleted)
<1> DEFINE old     == b.docs[d]
           stored  == leafRevs(b, d)
           legacy  == IF old = NoDoc \/ old.rev \in stored THEN {}
                      ELSE {GetDocument(b, d)}
           leafSet == stored \cup {l.rev : l \in legacy} \cup {doc.rev}
           parents == ToSet(Tail(doc.hist)) \cap leafSet
           winner  == WinnerRev(leafSet \ parents)
           winnerDoc == IF winner = doc.rev THEN doc
                        ELSE IF winner \in stored THEN b.leaves[d][winner]
                        ELSE NoDoc
           new == doc.rev
           op == PutDocumentForReplication(b, d, doc)
<1>1. /\ old = NoDoc => stored = {}
      /\ old # NoDoc => /\ old.rev \in stored
                        /\ \A r \in stored : r = old.rev \/ RevLess(r, old.rev)
  BY DEF SoundAt, WinnerRuleAt
<1>2. legacy = {}
  BY <1>1
<1>3. leafSet = stored \cup {new} /\ stored \subseteq Rev
  BY <1>2 DEF leafRevs
<1>4. new \in Rev /\ doc # NoDoc /\ old.rev \in Rev \cup {NoRev}
  BY DocIsNotNil, WinnerRevType
<1>5. \A r \in parents : r.gen < new.gen
  OBVIOUS
<1>6. op = IF winnerDoc # NoDoc /\ winner # old.rev
           THEN ReplaceWinner(b, d, winnerDoc, legacy \cup {doc}, parents)
           ELSE KeepWinner(d, legacy \cup {doc}, parents)
  BY DEF PutDocumentForReplication
<1>7. op \in OpLog /\ op.id = d
  BY ReplicationOp DEF Heads
<1> HIDE DEF legacy, leafSet, parents, winner, winnerDoc, op
<1>8. new \notin parents
  <2>1. new.gen \in Nat
    BY <1>4, RevNumbers
  <2> QED
    BY <1>5, <2>1
<1>9. leafSet \ parents \in SUBSET Rev /\ new \in leafSet \ parents
  BY <1>3, <1>4, <1>8
<1>10. CASE RevLess(old.rev, new)
  <2>1. \A r \in stored : RevLess(r, new)
    BY <1>4, <1>10, WinnerBelow
  <2>2. winner = new
    BY <1>3, <1>9, <2>1, WinnerIsGreatest DEF winner
  <2>3. op = ReplaceWinner(b, d, doc, {doc}, parents)
    BY <1>2, <1>4, <1>6, <2>2 DEF winnerDoc
  <2>4. /\ op.put = doc /\ op.puts = {doc} /\ op.dels = parents
        /\ op.chg = IF b.docs[d] = NoDoc THEN 0 ELSE b.inval[d]
        /\ op.undel = b.docs[d].deleted
    BY <2>3 DEF ReplaceWinner
  <2>5. SoundAt(Apply(b, op), d) /\ Apply(b, op).docs[d].rev = new
    BY <1>7, <1>8, <2>1, <2>4, TakesOver
  <2>6. OneNewLeaf(b, op, d, new, doc.deleted)
    BY <1>7, <1>8, <2>4, OneLeafApplied DEF OneNewLeaf
  <2> QED
    BY <1>10, <2>5, <2>6 DEF op, AtLeast, KeepsSound
<1>11. CASE ~RevLess(old.rev, new)
  <2>1. RevLess(new, old.rev)
    BY <1>4, <1>11, RevOrder
  <2>2. old # NoDoc
    <3>1. RevLess(NoRev, new)
      BY <1>4, NoRevIsLeast
    <3> QED
      BY <1>11, <3>1, NilDocument
  <2>3. old.rev \in Rev
    BY <1>1, <1>3, <2>2
  <2>4. old.rev \notin parents
    <3>1. new.gen \in Nat /\ old.rev.gen \in Nat
      BY <1>4, RevNumbers
    <3>2. new.gen <= old.rev.gen
      BY <2>1, <3>1 DEF RevLess
    <3> QED
      BY <1>5, <3>1, <3>2
  <2>5. winner = old.rev
    <3>1. old.rev \in leafSet \ parents
      BY <1>1, <1>3, <2>2, <2>4
    <3>2. \A o \in leafSet \ parents : o = old.rev \/ RevLess(o, old.rev)
      BY <1>1, <1>3, <2>1, <2>2
    <3> QED
      BY <1>9, <3>1, <3>2, WinnerIsGreatest DEF winner
  <2>6. op = KeepWinner(d, {doc}, parents)
    BY <1>2, <1>6, <2>5
  <2>7. op.put = NoDoc /\ op.puts = {doc} /\ op.dels = parents
    BY <2>6 DEF KeepWinner
  <2>8. SoundAt(Apply(b, op), d) /\ Apply(b, op).docs = b.docs
    BY <1>7, <1>8, <2>1, <2>2, <2>4, <2>7, WinnerStays
  <2>9. OneNewLeaf(b, op, d, new, doc.deleted)
    BY <1>7, <1>8, <2>7, OneLeafApplied DEF OneNewLeaf
  <2> QED
    BY <2>1, <2>8, <2>9 DEF op, AtLeast, KeepsSound
<1> QED
  BY <1>10, <1>11

(***************************************************************************)
(* GetDocument of a sound document names every leaf.                       *)
(***************************************************************************)
LEMMA GetDocumentNamesLeaves ==
  ASSUME NEW b \in Buckets, NEW d \in Docs, SoundAt(b, d),
         NEW r \in leafRevs(b, d)
  PROVE  HasRevision(GetDocument(b, d), r)
<1> DEFINE doc == b.docs[d]
           others == leafRevs(b, d) \ {doc.rev}
           branches == UNION {ToSet(b.leaves[d][s].hist) : s \in others}
           extra == branches \ ToSet(doc.hist)
<1>1. doc # NoDoc /\ doc.rev \in leafRevs(b, d)
  BY DEF SoundAt, WinnerRuleAt
<1>2. CASE r = doc.rev
  BY <1>2, GetDocumentType DEF HasRevision
<1>3. CASE r # doc.rev
  <2>1. r \in others /\ r \in branches
    <3>1. Heads(r, b.leaves[d][r].hist)
      BY DEF SoundAt, LeavesHeadHistoryAt
    <3>2. b.leaves[d][r].hist \in Seq(Rev)
      BY LeafIsDocument, DocIsNotNil
    <3> QED
      BY <1>3, <3>1, <3>2, HeadNamed
  <2>2. GetDocument(b, d) = [doc EXCEPT !.hist = doc.hist \o SetToSeq(extra)]
    BY <1>1, <2>1 DEF GetDocument
  <2>3. doc \in Document
    BY <1>1 DEF Buckets
  <2>4. \A s \in others : ToSet(b.leaves[d][s].hist) \subseteq Rev
    <3>1. \A s \in others : b.leaves[d][s] \in Document
      BY LeafIsDocument
    <3> QED
      BY <3>1, DocIsNotNil DEF ToSet
  <2>5. IsFiniteSet(extra) /\ extra \subseteq Rev
    <3>1. extra \subseteq Rev
      BY <2>4
    <3> QED
      BY <3>1, RevFinite, FS_Subset
  <2> DEFINE tail == SetToSeq(extra)
             h == doc.hist
  <2>6. /\ h \in Seq(Rev) /\ tail \in Seq(Rev) /\ ToSet(tail) = extra
    <3>1. h \in Seq(Rev)
      BY <2>3, DocIsNotNil
    <3> HIDE DEF extra
    <3>2. tail \in Seq(extra) /\ ToSet(tail) = extra
      BY <2>5, SetToSeqIsSeq, SetToSeqCovers
    <3>3. tail \in Seq(Rev)
      BY <2>5, <3>2
    <3> QED
      BY <3>1, <3>2, <3>3
  <2>7. r \in ToSet(h) \/ r \in extra
    BY <2>1
  <2>8. GetDocument(b, d).hist = h \o tail
    BY <2>2, <2>3 DEF Document
  <2> HIDE DEF h, tail, extra
  <2>9. r \in ToSet(h \o tail)
    <3>1. /\ Len(h) \in Nat /\ Len(tail) \in Nat
          /\ DOMAIN h = 1..Len(h) /\ DOMAIN tail = 1..Len(tail)
          /\ DOMAIN (h \o tail) = 1..(Len(h) + Len(tail))
      BY <2>6
    <3>2. ASSUME NEW i \in DOMAIN h, h[i] = r
          PROVE  r \in ToSet(h \o tail)
      <4>1. i \in DOMAIN (h \o tail) /\ (h \o tail)[i] = h[i]
        BY <2>6, <3>1
      <4> QED
        BY <3>2, <4>1 DEF ToSet
    <3>3. ASSUME NEW i \in DOMAIN tail, tail[i] = r
          PROVE  r \in ToSet(h \o tail)
      <4>1. Len(h) + i \in DOMAIN (h \o tail)
        BY <3>1
      <4>2. (h \o tail)[Len(h) + i] = tail[i]
        BY <2>6, <3>1
      <4> QED
        BY <3>3, <4>1, <4>2 DEF ToSet
    <3> QED
      BY <2>6, <2>7, <3>2, <3>3 DEF ToSet
  <2> QED
    BY <2>8, <2>9 DEF HasRevision
<1> QED
  BY <1>2, <1>3

-----------------------------------------------------------------------------
(* Numbers. *)

LEMMA LeastNumber ==
  ASSUME NEW T \in SUBSET Nat, T # {}
  PROVE  \E m \in T : \A k \in T : m <= k
<1> DEFINE Less == {ss \in Nat \X Nat : ss[1] < ss[2]}
<1>1. IsWellFoundedOn(Less, Nat)
  BY NatLessThanWellFounded DEF OpToRel
<1>2. \A i, j \in Nat : i < j => <<i, j>> \in Less
  OBVIOUS
<1> HIDE DEF Less
<1>3. PICK x \in T : \A y \in T : ~(<<y, x>> \in Less)
  BY <1>1, WFMin
<1>4. ASSUME NEW y \in T, ~(x <= y)
      PROVE  FALSE
  <2>1. y < x
    BY <1>4
  <2>2. <<y, x>> \in Less
    BY <1>2, <2>1
  <2> QED
    BY <1>3, <2>2
<1> QED
  BY <1>4

\* Induction, over a set instead of an operator.
LEMMA SetInduction ==
  ASSUME NEW S \in SUBSET Nat, 0 \in S, \A n \in S : n + 1 \in S
  PROVE  S = Nat
<1> SUFFICES ASSUME Nat \ S # {}
             PROVE  FALSE
  OBVIOUS
<1>1. PICK m \in Nat \ S : \A k \in Nat \ S : m <= k
  BY LeastNumber
<1>2. m # 0 /\ m - 1 \in Nat /\ m - 1 \in S
  BY <1>1
<1> QED
  BY <1>1, <1>2

LEMMA MaxOf ==
  ASSUME NEW S \in SUBSET Nat, NEW n \in Nat, S # {}, \A x \in S : x <= n
  PROVE  Max(S) \in S /\ \A y \in S : y <= Max(S)
<1> DEFINE T == {m \in Nat : \E x \in S : m = n - x}
<1>1. T # {}
  <2>1. PICK x \in S : x <= n
    OBVIOUS
  <2>2. n - x \in T
    BY <2>1
  <2> QED
    BY <2>2
<1>2. PICK m \in T : \A k \in T : m <= k
  BY <1>1, LeastNumber
<1>3. PICK x \in S : m = n - x
  BY <1>2
<1>4. \A y \in S : x >= y
  BY <1>2, <1>3
<1> QED
  BY <1>4 DEF Max

-----------------------------------------------------------------------------
(* A page of the changes feed. *)

(***************************************************************************)
(* The entries of a feed whose sequences differ, in the order of the       *)
(* sequences: none is missing, and those before a sequence come first.     *)
(***************************************************************************)
LEMMA EntriesInOrder ==
  ASSUME NEW b \in Buckets,
         \A e, f \in b.changes : e.seq = f.seq => e = f
  PROVE  LET N == Cardinality(b.changes)
         IN  /\ N \in Nat
             /\ Entries(b) \in [1..N -> b.changes]
             /\ \A i, j \in 1..N :
                  i < j => Entries(b)[i].seq < Entries(b)[j].seq
             /\ \A e \in b.changes : \E i \in 1..N : Entries(b)[i] = e
             /\ \A s \in Int :
                  LET k == Cardinality({e \in b.changes : e.seq < s})
                  IN  /\ k \in Nat
                      /\ \A i \in 1..N : Entries(b)[i].seq < s <=> i <= k
<1> DEFINE N    == Cardinality(b.changes)
           C    == b.changes
           A(e) == {f \in C : f.seq <= e.seq}
           R    == [e \in C |-> Cardinality(A(e))]
<1>1. \A e \in C : e.seq \in 1..MaxSeq
  BY DEF Buckets, Change
<1>2. IsFiniteSet(C)
  <2> DEFINE s == [e \in C |-> e.seq]
  <2>1. s \in Injection(C, 1..MaxSeq)
    BY <1>1 DEF Injection, IsInjective
  <2>2. IsFiniteSet(1..MaxSeq)
    BY DocTxAssumption, FS_Interval
  <2> QED
    BY <2>1, <2>2, FS_Injection
<1>3. N \in Nat
  BY <1>2, FS_CardinalityType
<1>4. ASSUME NEW S \in SUBSET C
      PROVE  /\ Cardinality(S) \in Nat /\ Cardinality(S) <= N
             /\ S # {} => Cardinality(S) > 0
             /\ \A T \in SUBSET S : T # S => Cardinality(T) < Cardinality(S)
  <2>1. IsFiniteSet(S) /\ Cardinality(S) <= N
    BY <1>2, FS_Subset
  <2>2. Cardinality(S) \in Nat /\ (Cardinality(S) = 0 <=> S = {})
    BY <2>1, FS_CardinalityType, FS_EmptySet
  <2>3. ASSUME NEW T \in SUBSET S, T # S
        PROVE  Cardinality(T) < Cardinality(S)
    <3>1. /\ IsFiniteSet(T) /\ Cardinality(T) <= Cardinality(S)
          /\ Cardinality(S) # Cardinality(T)
      BY <2>1, <2>3, FS_Subset
    <3>2. Cardinality(T) \in Nat
      BY <3>1, FS_CardinalityType
    <3> QED
      BY <2>2, <3>1, <3>2
  <2> QED
    BY <2>1, <2>2, <2>3
<1>5. R \in [C -> 1..N]
  <2> SUFFICES ASSUME NEW e \in C
               PROVE  Cardinality(A(e)) \in 1..N
    OBVIOUS
  <2>1. e \in A(e) /\ A(e) \in SUBSET C
    BY <1>1
  <2> QED
    BY <1>3, <1>4, <2>1
<1>6. ASSUME NEW e \in C, NEW f \in C, e.seq < f.seq
      PROVE  R[e] < R[f]
  <2>1. A(e) \in SUBSET A(f) /\ A(e) # A(f) /\ A(f) \in SUBSET C
    <3>1. f \in A(f) /\ f \notin A(e)
      BY <1>1, <1>6
    <3>2. A(e) \in SUBSET A(f)
      BY <1>1, <1>6
    <3> QED
      BY <3>1, <3>2
  <2> QED
    BY <1>4, <2>1
<1>7. \A i \in 1..N : \E e \in C : R[e] = i
  <2>1. \A e, f \in C : R[e] = R[f] => e = f
    <3> SUFFICES ASSUME NEW e \in C, NEW f \in C, R[e] = R[f]
                 PROVE  e = f
      OBVIOUS
    <3> HIDE DEF R
    <3>1. R[e] \in Nat /\ R[f] \in Nat
      BY <1>3, <1>5
    <3>2. ~(e.seq < f.seq) /\ ~(f.seq < e.seq)
      BY <1>6, <3>1
    <3>3. e.seq \in Nat /\ f.seq \in Nat
      BY <1>1
    <3> QED
      BY <3>2, <3>3
  <2>2. R \in Injection(C, 1..N)
    BY <1>5, <2>1 DEF Injection, IsInjective
  <2>3. IsFiniteSet(1..N) /\ Cardinality(1..N) = N
    BY <1>3, FS_Interval
  <2>4. R \in Surjection(C, 1..N)
    BY <2>2, <2>3, FS_Injection
  <2> QED
    BY <2>4 DEF Surjection
<1>8. ASSUME NEW i \in 1..N
      PROVE  Entries(b)[i] \in C /\ R[Entries(b)[i]] = i
  <2>1. Entries(b)[i] = CHOOSE e \in C : Cardinality(A(e)) = i
    BY DEF Entries
  <2>2. \E e \in C : Cardinality(A(e)) = i
    BY <1>7
  <2> HIDE DEF A
  <2> QED
    BY <2>1, <2>2
<1>9. Entries(b) \in [1..N -> C]
  BY <1>8 DEF Entries
<1> HIDE DEF R
<1>10. ASSUME NEW i \in 1..N, NEW j \in 1..N, i < j
       PROVE  Entries(b)[i].seq < Entries(b)[j].seq
  <2>1. /\ Entries(b)[i].seq \in Nat /\ Entries(b)[j].seq \in Nat
        /\ i \in Nat /\ j \in Nat
    BY <1>1, <1>3, <1>8
  <2>2. ~(Entries(b)[j].seq < Entries(b)[i].seq)
    BY <1>6, <1>8, <1>10, <2>1
  <2>3. Entries(b)[j].seq # Entries(b)[i].seq
    BY <1>8, <1>10, <2>1
  <2> QED
    BY <2>1, <2>2, <2>3
<1>11. ASSUME NEW e \in C
       PROVE  \E i \in 1..N : Entries(b)[i] = e
  <2> DEFINE i == R[e]
  <2>1. i \in 1..N
    BY <1>5
  <2>2. Entries(b)[i] \in C /\ R[Entries(b)[i]] = i
    BY <1>8, <2>1
  <2>3. Entries(b)[i].seq \in Nat /\ e.seq \in Nat /\ i \in Nat
    BY <1>1, <1>3, <2>1, <2>2
  <2>4. ~(e.seq < Entries(b)[i].seq) /\ ~(Entries(b)[i].seq < e.seq)
    BY <1>6, <2>2, <2>3
  <2> QED
    BY <2>1, <2>2, <2>3, <2>4
<1>12. ASSUME NEW s \in Int
       PROVE  LET k == Cardinality({e \in C : e.seq < s})
              IN  /\ k \in Nat
                  /\ \A i \in 1..N : Entries(b)[i].seq < s <=> i <= k
  <2> DEFINE S == {e \in C : e.seq < s}
             k == Cardinality(S)
  <2>1. k \in Nat
    BY <1>4
  <2>2. ASSUME NEW i \in 1..N
        PROVE  Entries(b)[i].seq < s <=> i <= k
    <3>0. PICK e \in C : e = Entries(b)[i] /\ R[e] = i
      BY <1>8
    <3>1. Cardinality(A(e)) = i /\ i \in Nat /\ e.seq \in Nat
      <4>1. Cardinality(A(e)) = i
        BY <3>0 DEF R
      <4>2. i \in Nat /\ e.seq \in Nat
        <5> HIDE DEF N
        <5> QED
          BY <1>1, <1>3
      <4> QED
        BY <4>1, <4>2
    <3>2. CASE e.seq < s
      <4>1. A(e) \in SUBSET S
        BY <1>1, <3>1, <3>2
      <4>2. A(e) # S => Cardinality(A(e)) < k
        BY <1>4, <4>1
      <4>3. A(e) = S => Cardinality(A(e)) = k
        OBVIOUS
      <4> HIDE DEF A, S
      <4> QED
        BY <2>1, <3>0, <3>1, <3>2, <4>2, <4>3
    <3>3. CASE ~(e.seq < s)
      <4>1. S \in SUBSET A(e)
        BY <1>1, <3>1, <3>3
      <4>2. e \in A(e) /\ e \notin S /\ A(e) \in SUBSET C
        BY <3>1, <3>3
      <4>3. k < Cardinality(A(e))
        BY <1>4, <4>1, <4>2
      <4> HIDE DEF A, S
      <4> QED
        BY <2>1, <3>0, <3>1, <3>3, <4>3
    <3> QED
      BY <3>2, <3>3
  <2> QED
    BY <2>1, <2>2
<1> QED
  BY <1>3, <1>9, <1>10, <1>11, <1>12

LEMMA TailOfSequence ==
  ASSUME NEW S, NEW s \in Seq(S), NEW k \in Nat
  PROVE  LET t == SubSeq(s, k + 1, Len(s))
         IN  /\ t \in Seq(S)
             /\ Len(t) = IF k <= Len(s) THEN Len(s) - k ELSE 0
             /\ \A i \in 1..Len(t) : k + i \in 1..Len(s) /\ t[i] = s[k + i]
<1>1. Len(s) \in Nat
  OBVIOUS
<1>2. CASE k <= Len(s)
  <2>1. Len(SubSeq(s, k + 1, Len(s))) = Len(s) - k
    BY <1>1, <1>2
  <2>2. SubSeq(s, k + 1, Len(s)) \in Seq(S)
    BY <1>1, <1>2
  <2> QED
    BY <1>1, <1>2, <2>1, <2>2
<1>3. CASE k > Len(s)
  <2>1. Len(SubSeq(s, k + 1, Len(s))) = 0
    BY <1>1, <1>3
  <2>2. SubSeq(s, k + 1, Len(s)) \in Seq(S)
    BY <1>1, <1>3
  <2> QED
    BY <1>1, <1>3, <2>1, <2>2
<1> QED
  BY <1>1, <1>2, <1>3

(***************************************************************************)
(* A page is a stretch of the entries: those that follow the ones passed.  *)
(***************************************************************************)
LEMMA PageIsStretch ==
  ASSUME NEW b \in Buckets,
         \A e, f \in b.changes : e.seq = f.seq => e = f,
         NEW since \in Nat, NEW answer, answer = Changes(b, since, Limit)
  PROVE  LET N == Cardinality(b.changes)
             k == Passed(b, since)
             n == Len(answer.docs)
         IN  /\ k \in Nat /\ n \in Nat
             /\ DOMAIN answer.docs = 1..n /\ (answer.docs = <<>> <=> n = 0)
             /\ \A i \in 1..n :
                  /\ k + i \in 1..N /\ Entries(b)[k + i] \in b.changes
                  /\ answer.docs[i] = Result(b, Entries(b)[k + i].id)
             /\ n = 0 => k >= N
             /\ answer.pending \in Nat
             /\ answer.pending = 0 => k + n >= N
<1> DEFINE N == Cardinality(b.changes)
           k == Passed(b, since)
           n == Len(answer.docs)
           entries == After(b, since)
           m       == Min({Limit, Len(entries)})
<1>1. N \in Nat /\ Entries(b) \in [1..N -> b.changes]
  BY EntriesInOrder
<1>2. /\ Entries(b) \in Seq(b.changes) /\ Len(Entries(b)) = N
  BY <1>1
<1>3. k \in Nat
  <2>1. since \in Int
    OBVIOUS
  <2> QED
    BY <2>1, EntriesInOrder DEF Passed
<1> HIDE DEF k
<1>4. entries = SubSeq(Entries(b), k + 1, Len(Entries(b)))
  BY <1>2 DEF After, k
<1> HIDE DEF N
<1>5. /\ entries \in Seq(b.changes)
      /\ Len(entries) = IF k <= N THEN N - k ELSE 0
      /\ \A i \in 1..Len(entries) :
           k + i \in 1..N /\ entries[i] = Entries(b)[k + i]
  <2> DEFINE s == Entries(b)
             t == SubSeq(s, k + 1, Len(s))
  <2>1. /\ t \in Seq(b.changes)
        /\ Len(t) = IF k <= Len(s) THEN Len(s) - k ELSE 0
        /\ \A i \in 1..Len(t) : k + i \in 1..Len(s) /\ t[i] = s[k + i]
    BY <1>2, <1>3, TailOfSequence
  <2>2. t = entries
    BY <1>4
  <2> HIDE DEF t, entries
  <2> QED
    BY <1>2, <2>1, <2>2
<1> HIDE DEF entries
<1>6. /\ Len(entries) \in Nat /\ Limit \in Nat \ {0}
      /\ m \in Nat /\ m <= Len(entries) /\ m <= Limit
      /\ m = Len(entries) \/ m = Limit
  <2>1. Len(entries) \in Nat /\ Limit \in Nat \ {0}
    BY <1>5, ChangesAssumption
  <2>2. PICK l \in {Limit, Len(entries)} : \A o \in {Limit, Len(entries)} : l <= o
    BY <2>1
  <2>3. \A y \in {Limit, Len(entries)} : y \in Nat
    BY <2>1
  <2>4. /\ m \in {Limit, Len(entries)}
        /\ \A o \in {Limit, Len(entries)} : m <= o
    BY <2>2 DEF Min
  <2> QED
    BY <2>1, <2>3, <2>4
<1>7. /\ answer.docs = [i \in 1..m |-> Result(b, entries[i].id)]
      /\ answer.pending = Len(entries) - m
  BY DEF Changes, entries
<1> HIDE DEF m
<1>8. n = m /\ DOMAIN answer.docs = 1..n /\ (answer.docs = <<>> <=> n = 0)
  BY <1>6, <1>7
<1> HIDE DEF n
<1>9. \A i \in 1..n :
        /\ k + i \in 1..N /\ Entries(b)[k + i] \in b.changes
        /\ answer.docs[i] = Result(b, Entries(b)[k + i].id)
  BY <1>1, <1>5, <1>6, <1>7, <1>8
<1>10. n = 0 => k >= N
  BY <1>1, <1>3, <1>5, <1>6, <1>8
<1>11. answer.pending \in Nat /\ (answer.pending = 0 => k + n >= N)
  BY <1>1, <1>3, <1>5, <1>6, <1>7, <1>8
<1> QED
  BY <1>3, <1>6, <1>8, <1>9, <1>10, <1>11 DEF N, k, n

LEMMA PageNames ==
  ASSUME NEW b \in Buckets,
         \A e, f \in b.changes : e.seq = f.seq => e = f,
         NEW since \in Nat, NEW answer, answer = Changes(b, since, Limit)
  PROVE  /\ Len(answer.docs) \in Nat
         /\ DOMAIN answer.docs = 1..Len(answer.docs)
         /\ answer.docs = <<>> <=> Len(answer.docs) = 0
         /\ \A i \in DOMAIN answer.docs :
              \E d \in Docs : answer.docs[i] = Result(b, d)
<1> DEFINE n == Len(answer.docs)
           k == Passed(b, since)
<1>1. /\ n \in Nat /\ DOMAIN answer.docs = 1..n
      /\ answer.docs = <<>> <=> n = 0
      /\ \A i \in 1..n :
           /\ Entries(b)[k + i] \in b.changes
           /\ answer.docs[i] = Result(b, Entries(b)[k + i].id)
  BY PageIsStretch
<1> HIDE DEF n, k
<1>2. \A e \in b.changes : e.id \in Docs
  BY DEF Buckets, Change
<1>3. \A i \in 1..n : \E d \in Docs : answer.docs[i] = Result(b, d)
  BY <1>1, <1>2
<1> QED
  BY <1>1, <1>3 DEF n

\* What a page holds has the sequences and revisions the documents have.
LEMMA PageTyped ==
  ASSUME NEW b \in Buckets,
         \A e, f \in b.changes : e.seq = f.seq => e = f,
         NEW since \in Nat, NEW answer, answer = Changes(b, since, Limit),
         NEW otherwise \in Nat, NEW m \in Nat, otherwise <= m,
         \A d \in Docs : b.inval[d] <= m
  PROVE  LastSeq(answer, otherwise) \in Nat /\ LastSeq(answer, otherwise) <= m
<1>1. /\ Len(answer.docs) \in Nat /\ DOMAIN answer.docs = 1..Len(answer.docs)
      /\ answer.docs = <<>> <=> Len(answer.docs) = 0
      /\ \A i \in DOMAIN answer.docs : \E d \in Docs : answer.docs[i] = Result(b, d)
  BY PageNames
<1> DEFINE S == {answer.docs[i].seq : i \in DOMAIN answer.docs}
<1>2. ASSUME NEW i \in DOMAIN answer.docs
      PROVE  answer.docs[i].seq \in Nat /\ answer.docs[i].seq <= m
  <2>1. PICK d \in Docs : answer.docs[i] = Result(b, d)
    BY <1>1
  <2> QED
    BY <2>1 DEF Result, Buckets
<1>3. CASE answer.docs = <<>>
  BY <1>3 DEF LastSeq
<1>4. CASE answer.docs # <<>>
  <2>1. S \in SUBSET Nat /\ S # {} /\ \A x \in S : x <= m
    <3>1. 1 \in DOMAIN answer.docs
      BY <1>1, <1>4
    <3>2. answer.docs[1].seq \in S
      BY <3>1
    <3>3. \A x \in S : \E i \in DOMAIN answer.docs : x = answer.docs[i].seq
      OBVIOUS
    <3> HIDE DEF S
    <3> QED
      BY <1>2, <3>2, <3>3
  <2>2. Max(S) \in S
    BY <2>1, MaxOf
  <2> QED
    BY <1>4, <2>1, <2>2 DEF LastSeq
<1> QED
  BY <1>3, <1>4

\* What is received is the revision each document of the page has now.
LEMMA PageReceived ==
  ASSUME NEW b \in Buckets,
         \A e, f \in b.changes : e.seq = f.seq => e = f,
         NEW since \in Nat, NEW answer, answer = Changes(b, since, Limit),
         NEW got, DOMAIN got = Docs, NEW d \in Docs
  PROVE  /\ DOMAIN Received(got, answer) = Docs
         /\ (\E i \in DOMAIN answer.docs : answer.docs[i].id = d) =>
               Received(got, answer)[d] = b.docs[d].rev
         /\ (\A i \in DOMAIN answer.docs : answer.docs[i].id # d) =>
               Received(got, answer)[d] = got[d]
<1> DEFINE mine == {i \in DOMAIN answer.docs : answer.docs[i].id = d}
<1>1. /\ Len(answer.docs) \in Nat /\ DOMAIN answer.docs = 1..Len(answer.docs)
      /\ \A i \in DOMAIN answer.docs : \E c \in Docs : answer.docs[i] = Result(b, c)
  BY PageNames
<1>2. ASSUME NEW i \in mine
      PROVE  answer.docs[i].rev = b.docs[d].rev
  <2>1. PICK c \in Docs : answer.docs[i] = Result(b, c)
    BY <1>1
  <2> QED
    BY <2>1 DEF Result
<1>3. Received(got, answer)[d] =
        IF mine = {} THEN got[d] ELSE answer.docs[Max(mine)].rev
  BY DEF Received
<1>4. mine # {} => Max(mine) \in mine
  <2>1. mine \in SUBSET Nat /\ \A i \in mine : i <= Len(answer.docs)
    BY <1>1
  <2>2. Len(answer.docs) \in Nat
    BY <1>1
  <2> QED
    BY <2>1, <2>2, MaxOf
<1> QED
  BY <1>2, <1>3, <1>4 DEF Received

(***************************************************************************)
(* When every entry is at its document's sequence, a page that begins at   *)
(* an entry, or at the start, leaves out nothing between that and its last *)
(* sequence.                                                               *)
(***************************************************************************)
LEMMA PageLeavesNoGap ==
  ASSUME NEW b \in Buckets,
         \A e, f \in b.changes : e.seq = f.seq => e = f,
         \A e \in b.changes : b.inval[e.id] = e.seq,
         NEW since \in Nat, NEW answer, answer = Changes(b, since, Limit),
         since = Start \/ \E e \in b.changes : e.seq = since,
         NEW otherwise \in Nat, otherwise <= since,
         NEW e \in b.changes, since < e.seq,
         e.seq <= LastSeq(answer, otherwise) \/ answer.pending = 0
  PROVE  \E i \in DOMAIN answer.docs : answer.docs[i].id = e.id
<1> DEFINE N == Cardinality(b.changes)
           k == Passed(b, since)
           n == Len(answer.docs)
<1>1. /\ N \in Nat /\ Entries(b) \in [1..N -> b.changes]
      /\ \A i, j \in 1..N : i < j => Entries(b)[i].seq < Entries(b)[j].seq
      /\ \A f \in b.changes : \E i \in 1..N : Entries(b)[i] = f
  BY EntriesInOrder
<1>2. /\ k \in Nat /\ n \in Nat
      /\ DOMAIN answer.docs = 1..n /\ (answer.docs = <<>> <=> n = 0)
      /\ n = 0 => k >= N
      /\ answer.pending = 0 => k + n >= N
      /\ \A i \in 1..n :
           /\ k + i \in 1..N /\ Entries(b)[k + i] \in b.changes
           /\ answer.docs[i] = Result(b, Entries(b)[k + i].id)
  BY PageIsStretch
<1> HIDE DEF N, k, n
<1>9. ASSUME NEW i \in 1..n
      PROVE  /\ answer.docs[i].id = Entries(b)[k + i].id
             /\ answer.docs[i].seq = Entries(b)[k + i].seq
  <2>1. PICK f \in b.changes : f = Entries(b)[k + i]
    BY <1>2
  <2>2. answer.docs[i] = [id |-> f.id, rev |-> b.docs[f.id].rev,
                          seq |-> b.inval[f.id]]
    BY <1>2, <2>1 DEF Result
  <2> QED
    BY <2>1, <2>2
<1>3. PICK j \in 1..N : Entries(b)[j] = e
  BY <1>1
<1>4. \A f \in b.changes : f.seq \in Nat /\ f.id \in Docs
  BY DEF Buckets, Change
<1>5. j > k
  <2>1. CASE since = Start
    BY <1>1, <2>1 DEF Passed, k
  <2>2. CASE since # Start
    <3> DEFINE below == Cardinality({f \in b.changes : f.seq < since})
    <3>1. /\ below \in Nat
          /\ \A i \in 1..N : Entries(b)[i].seq < since <=> i <= below
      BY EntriesInOrder DEF N
    <3>2. PICK g \in 1..N : Entries(b)[g].seq = since
      BY <1>1, <2>2
    <3> HIDE DEF below
    <3>3. g > below
      BY <1>1, <3>1, <3>2
    <3>4. j > g
      <4>1. j # g
        BY <1>3, <3>2
      <4>2. ~(j < g)
        BY <1>1, <1>3, <1>4, <3>2
      <4> QED
        BY <1>1, <4>1, <4>2
    <3>5. k = below + 1
      BY <2>2 DEF Passed, k, below, Now
    <3> QED
      BY <1>1, <3>1, <3>3, <3>4, <3>5
  <2> QED
    BY <2>1, <2>2
<1>6. j <= k + n
  <2>1. CASE answer.pending = 0
    BY <1>1, <1>2, <2>1
  <2>2. CASE e.seq <= LastSeq(answer, otherwise)
    <3>1. n # 0
      <4> SUFFICES ASSUME n = 0
                   PROVE  FALSE
        OBVIOUS
      <4> QED
        BY <1>1, <1>2, <1>5
    <3> DEFINE S == {answer.docs[i].seq : i \in DOMAIN answer.docs}
    <3>2. \A i \in 1..n : answer.docs[i].seq = Entries(b)[k + i].seq
      BY <1>9
    <3>3. DOMAIN answer.docs = 1..n
      BY <1>2
    <3>4. /\ S \in SUBSET Nat /\ S # {}
          /\ \A x \in S : x <= Entries(b)[k + n].seq
      <4>1. n \in 1..n /\ k + n \in 1..N
        BY <1>2, <3>1
      <4>2. ASSUME NEW i \in 1..n
            PROVE  /\ answer.docs[i].seq \in Nat
                   /\ answer.docs[i].seq <= Entries(b)[k + n].seq
        <5>1. k + i \in 1..N /\ i \in Nat /\ k \in Nat /\ n \in Nat
          <6>1. k \in Nat /\ n \in Nat /\ k + i \in 1..N
            BY <1>2
          <6> QED
            BY <6>1
        <5>2. CASE i = n
          BY <1>1, <1>4, <3>2, <4>1, <5>1, <5>2
        <5>3. CASE i < n
          <6>1. k + i < k + n
            BY <5>1, <5>3
          <6>2. Entries(b)[k + i].seq < Entries(b)[k + n].seq
            BY <1>1, <4>1, <5>1, <6>1
          <6>3. Entries(b)[k + i].seq \in Nat /\ Entries(b)[k + n].seq \in Nat
            BY <1>1, <1>4, <4>1, <5>1
          <6> QED
            BY <3>2, <6>2, <6>3
        <5> QED
          BY <5>1, <5>2, <5>3
      <4>3. \A x \in S : \E i \in 1..n : x = answer.docs[i].seq
        BY <3>3
      <4>4. answer.docs[n].seq \in S
        BY <3>3, <4>1
      <4> HIDE DEF S
      <4> QED
        BY <4>2, <4>3, <4>4
    <3>5. k + n \in 1..N
      BY <1>2, <3>1
    <3>6. Entries(b)[k + n].seq \in Nat
      BY <1>1, <1>4, <3>5
    <3>7. Max(S) \in S
      BY <3>4, <3>6, MaxOf
    <3>8. LastSeq(answer, otherwise) = Max(S)
      <4>1. answer.docs # <<>>
        BY <1>2, <3>1
      <4> QED
        BY <4>1 DEF LastSeq
    <3>9. LastSeq(answer, otherwise) <= Entries(b)[k + n].seq
      BY <3>4, <3>7, <3>8
    <3>10. LastSeq(answer, otherwise) \in Nat
      BY <3>4, <3>7, <3>8
    <3>11. Entries(b)[j].seq <= Entries(b)[k + n].seq
      BY <1>3, <1>4, <2>2, <3>6, <3>9, <3>10
    <3>12. ~(k + n < j)
      BY <1>1, <1>3, <1>4, <3>5, <3>6, <3>11
    <3> QED
      BY <1>1, <1>2, <3>12
  <2> QED
    BY <2>1, <2>2
<1>7. PICK i \in 1..n : k + i = j
  <2>1. j - k \in 1..n /\ k + (j - k) = j
    BY <1>1, <1>2, <1>5, <1>6
  <2> QED
    BY <2>1
<1>8. answer.docs[i].id = e.id /\ i \in DOMAIN answer.docs
  BY <1>2, <1>3, <1>7, <1>9
<1> QED
  BY <1>8

=============================================================================
