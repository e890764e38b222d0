-------------------------- MODULE ReplicatorProofs --------------------------
(***************************************************************************)
(* One replication job, for any settings of the job, any number of         *)
(* documents, writes, faults and runs and any size of a page: as long as   *)
(* no history at the target is cut, ReplicatorInv is inductive.  With it   *)
(* every step is a step of OneWayCopy, and a run that completes has copied *)
(* the source.                                                             *)
(*                                                                         *)
(* Until transactions overlap, the two steps of one have the effect that   *)
(* they would have at once, when the log is applied: JobInv is kept by     *)
(* transactions in one step, and LogsSound says why that is enough.        *)
(***************************************************************************)
EXTENDS Replicator, DocTxProofs

-----------------------------------------------------------------------------
(* Revisions that histories of the target may name. *)

LEMMA HistRevNumbers ==
  ASSUME NEW r \in HistRev \cup {NoRev}
  PROVE  r.gen \in Int /\ r.hash \in Nat /\ r = [gen |-> r.gen, hash |-> r.hash]
<1>1. CASE r \in HistRev
  BY <1>1, DocTxAssumption DEF HistRev
<1>2. CASE r = NoRev
  BY <1>2 DEF NoRev
<1> QED
  BY <1>1, <1>2

LEMMA HistRevOrder ==
  ASSUME NEW q \in HistRev \cup {NoRev}, NEW r \in HistRev \cup {NoRev}
  PROVE  /\ q = r \/ RevLess(q, r) \/ RevLess(r, q)
         /\ RevLess(q, r) => ~RevLess(r, q) /\ q # r
<1>1. /\ q.gen \in Int /\ q.hash \in Nat /\ q = [gen |-> q.gen, hash |-> q.hash]
      /\ r.gen \in Int /\ r.hash \in Nat /\ r = [gen |-> r.gen, hash |-> r.hash]
  BY HistRevNumbers
<1>2. q.gen = r.gen /\ q.hash = r.hash => q = r
  BY <1>1
<1> QED
  BY <1>1, <1>2 DEF RevLess

LEMMA HistRevTransitive ==
  ASSUME NEW q \in HistRev \cup {NoRev}, NEW r \in HistRev \cup {NoRev},
         NEW s \in HistRev \cup {NoRev}, RevLess(q, r), RevLess(r, s)
  PROVE  RevLess(q, s)
<1>1. /\ q.gen \in Int /\ q.hash \in Nat
      /\ r.gen \in Int /\ r.hash \in Nat
      /\ s.gen \in Int /\ s.hash \in Nat
  BY HistRevNumbers
<1> QED
  BY <1>1 DEF RevLess

LEMMA RevIsHistRev == Rev \subseteq HistRev
<1>1. 1..MaxGen \subseteq Int
  BY DocTxAssumption
<1> QED
  BY <1>1 DEF Rev, HistRev

LEMMA StoredDocumentIsNotNil ==
  ASSUME NEW doc \in StoredDocument
  PROVE  /\ doc # NoDoc
         /\ doc.rev \in Rev /\ doc.rev # NoRev
         /\ doc.deleted \in BOOLEAN /\ doc.hist \in Seq(HistRev)
  BY DocTxAssumption DEF StoredDocument, NoDoc, Rev, NoRev

LEMMA DocumentIsStored == Document \subseteq StoredDocument
<1>1. Seq(Rev) \subseteq Seq(HistRev)
  BY RevIsHistRev
<1> QED
  BY <1>1 DEF Document, StoredDocument

LEMMA BucketsAreTargets == Buckets \subseteq TargetBuckets
<1> SUFFICES ASSUME NEW b \in Buckets
             PROVE  b \in TargetBuckets
  OBVIOUS
<1>1. /\ b = [docs |-> b.docs, leaves |-> b.leaves, changes |-> b.changes,
              changesSeq |-> b.changesSeq, inval |-> b.inval,
              invalSeq |-> b.invalSeq, deleted |-> b.deleted]
      /\ b.docs \in [Docs -> Document \cup {NoDoc}]
      /\ b.leaves \in [Docs -> [Rev -> Document \cup {NoDoc}]]
      /\ b.changes \subseteq Change /\ b.changesSeq \in 0..MaxSeq
      /\ b.inval \in [Docs -> 0..MaxSeq] /\ b.invalSeq \in 0..MaxSeq
      /\ b.deleted \subseteq Docs
  BY DEF Buckets
<1>2. /\ 0..MaxSeq \subseteq Nat /\ Change \subseteq [seq : Nat, id : Docs]
      /\ Document \cup {NoDoc} \subseteq StoredDocument \cup {NoDoc}
  BY DocTxAssumption, DocumentIsStored DEF Change
<1> DEFINE D == Document \cup {NoDoc}
           E == StoredDocument \cup {NoDoc}
<1> HIDE DEF D, E
<1>3. [Docs -> D] \subseteq [Docs -> E] /\ [Rev -> D] \subseteq [Rev -> E]
  BY <1>2 DEF D, E
<1>4. [Docs -> [Rev -> D]] \subseteq [Docs -> [Rev -> E]]
  BY <1>3
<1>5. [Docs -> 0..MaxSeq] \subseteq [Docs -> Nat]
  BY <1>2
<1>6. b.docs \in [Docs -> E] /\ b.leaves \in [Docs -> [Rev -> E]]
  BY <1>1, <1>3, <1>4 DEF D
<1>7. b.changes \subseteq [seq : Nat, id : Docs] /\ b.inval \in [Docs -> Nat]
  BY <1>1, <1>2, <1>5
<1> QED
  BY <1>1, <1>2, <1>6, <1>7 DEF TargetBuckets, E

-----------------------------------------------------------------------------
(* What a document is known by. *)

\* The revisions the histories of a document's leaves name.
Named(b, d) == UNION {ToSet(b.leaves[d][r].hist) : r \in leafRevs(b, d)}

LEMMA StoredLeaf ==
  ASSUME NEW b \in TargetBuckets, NEW d \in Docs, NEW r \in leafRevs(b, d)
  PROVE  r \in Rev /\ b.leaves[d][r] \in StoredDocument
  BY DEF leafRevs, TargetBuckets

LEMMA HeadedNames ==
  ASSUME NEW doc \in StoredDocument, Headed(doc)
  PROVE  /\ doc.rev \in ToSet(doc.hist)
         /\ \A x \in ToSet(doc.hist) : x = doc.rev \/ RevLess(x, doc.rev)
<1>1. /\ doc.hist \in Seq(HistRev) /\ doc.hist # <<>>
      /\ doc.hist[1] = doc.rev
      /\ \A i \in 2..Len(doc.hist) : RevLess(doc.hist[i], doc.rev)
  BY StoredDocumentIsNotNil DEF Headed, Heads
<1>2. Len(doc.hist) \in Nat /\ Len(doc.hist) >= 1
  BY <1>1
<1>3. \A x : x \in ToSet(doc.hist) <=> \E i \in 1..Len(doc.hist) : doc.hist[i] = x
  BY <1>1, SeqToSet
<1>4. 1 \in 1..Len(doc.hist)
  BY <1>2
<1>5. \A i \in 1..Len(doc.hist) : i = 1 \/ i \in 2..Len(doc.hist)
  BY <1>2
<1> QED
  BY <1>1, <1>3, <1>4, <1>5

LEMMA TailToSet ==
  ASSUME NEW doc \in StoredDocument, Headed(doc)
  PROVE  \A x \in ToSet(Tail(doc.hist)) : RevLess(x, doc.rev)
<1> DEFINE h == doc.hist
<1>1. h \in Seq(HistRev) /\ h # <<>> /\ \A i \in 2..Len(h) : RevLess(h[i], doc.rev)
  BY StoredDocumentIsNotNil DEF Headed, Heads
<1> HIDE DEF h
<1>2. /\ Tail(h) \in Seq(HistRev) /\ Len(Tail(h)) = Len(h) - 1 /\ Len(h) \in Nat
      /\ \A i \in 1..Len(Tail(h)) : Tail(h)[i] = h[i + 1]
  BY <1>1
<1>3. \A x : x \in ToSet(Tail(h)) <=> \E i \in 1..Len(Tail(h)) : Tail(h)[i] = x
  BY <1>2, SeqToSet
<1>4. \A i \in 1..Len(Tail(h)) : i + 1 \in 2..Len(h)
  BY <1>2
<1> QED
  BY <1>1, <1>2, <1>3, <1>4 DEF h

LEMMA ConcatToSet ==
  ASSUME NEW S, NEW s \in Seq(S), NEW t \in Seq(S)
  PROVE  /\ s \o t \in Seq(S) /\ Len(s \o t) = Len(s) + Len(t)
         /\ ToSet(s \o t) = ToSet(s) \cup ToSet(t)
         /\ \A i \in 1..Len(s) : (s \o t)[i] = s[i]
         /\ \A i \in (Len(s) + 1)..(Len(s) + Len(t)) :
              (s \o t)[i] \in ToSet(t)
<1>1. /\ s \o t \in Seq(S) /\ Len(s \o t) = Len(s) + Len(t)
      /\ Len(s) \in Nat /\ Len(t) \in Nat
      /\ \A i \in 1..Len(s) : (s \o t)[i] = s[i]
      /\ \A i \in 1..Len(t) : (s \o t)[Len(s) + i] = t[i]
  OBVIOUS
<1>2. /\ \A x : x \in ToSet(s) <=> \E i \in 1..Len(s) : s[i] = x
      /\ \A x : x \in ToSet(t) <=> \E i \in 1..Len(t) : t[i] = x
      /\ \A x : x \in ToSet(s \o t) <=>
           \E i \in 1..Len(s \o t) : (s \o t)[i] = x
  BY <1>1, SeqToSet
<1>3. ASSUME NEW i \in (Len(s) + 1)..(Len(s) + Len(t))
      PROVE  (s \o t)[i] \in ToSet(t)
  <2>1. i - Len(s) \in 1..Len(t) /\ Len(s) + (i - Len(s)) = i
    BY <1>1
  <2>2. (s \o t)[i] = t[i - Len(s)]
    BY <1>1, <2>1
  <2> QED
    BY <1>2, <2>1, <2>2
<1>4. ASSUME NEW x \in ToSet(s \o t)
      PROVE  x \in ToSet(s) \cup ToSet(t)
  <2>1. PICK i \in 1..Len(s \o t) : (s \o t)[i] = x
    BY <1>2
  <2>2. i \in 1..Len(s) \/ i \in (Len(s) + 1)..(Len(s) + Len(t))
    BY <1>1
  <2> QED
    BY <1>1, <1>2, <1>3, <2>1, <2>2
<1>5. ASSUME NEW x \in ToSet(s) \cup ToSet(t)
      PROVE  x \in ToSet(s \o t)
  <2>1. CASE x \in ToSet(s)
    <3>1. PICK i \in 1..Len(s) : s[i] = x
      BY <1>2, <2>1
    <3>2. i \in 1..Len(s \o t) /\ (s \o t)[i] = x
      BY <1>1, <3>1
    <3> QED
      BY <1>2, <3>2
  <2>2. CASE x \in ToSet(t)
    <3>1. PICK i \in 1..Len(t) : t[i] = x
      BY <1>2, <2>2
    <3>2. Len(s) + i \in 1..Len(s \o t) /\ (s \o t)[Len(s) + i] = x
      BY <1>1, <3>1
    <3> QED
      BY <1>2, <3>2
  <2> QED
    BY <2>1, <2>2
<1> QED
  BY <1>1, <1>3, <1>4, <1>5

\* The histories of a document's leaves together name finitely many revisions.
LEMMA NamedFinite ==
  ASSUME NEW b \in TargetBuckets, NEW d \in Docs, NEW L \in SUBSET leafRevs(b, d)
  PROVE  /\ IsFiniteSet(UNION {ToSet(b.leaves[d][r].hist) : r \in L})
         /\ UNION {ToSet(b.leaves[d][r].hist) : r \in L} \subseteq HistRev
<1> DEFINE f == [r \in L |-> ToSet(b.leaves[d][r].hist)]
           T == {ToSet(b.leaves[d][r].hist) : r \in L}
<1>1. IsFiniteSet(L)
  <2>1. leafRevs(b, d) \subseteq Rev
    BY DEF leafRevs
  <2> QED
    BY <2>1, RevFinite, FS_Subset
<1>2. \A r \in L : ToSet(b.leaves[d][r].hist) \subseteq HistRev
                    /\ IsFiniteSet(ToSet(b.leaves[d][r].hist))
  BY StoredLeaf, StoredDocumentIsNotNil, SeqToSet
<1>3. f \in Surjection(L, T)
  BY DEF Surjection
<1>4. IsFiniteSet(T)
  BY <1>1, <1>3, FS_Surjection DEF ExistsSurjection
<1>5. \A t \in T : IsFiniteSet(t) /\ t \subseteq HistRev
  BY <1>2
<1> HIDE DEF T
<1> QED
  BY <1>4, <1>5, FS_UNION DEF T

\* GetDocument names exactly what the leaves name, its own revision first.
LEMMA GetDocumentNames ==
  ASSUME NEW b \in TargetBuckets, NEW d \in Docs, KeptAt(b, d),
         b.docs[d] # NoDoc
  PROVE  LET g == GetDocument(b, d)
         IN  /\ g \in StoredDocument /\ g.rev = b.docs[d].rev
             /\ Headed(g)
             /\ ToSet(g.hist) = Named(b, d)
<1> DEFINE doc == b.docs[d]
           others == leafRevs(b, d) \ {doc.rev}
           branches == UNION {ToSet(b.leaves[d][r].hist) : r \in others}
           extra == branches \ ToSet(doc.hist)
           h == doc.hist
           tail == SetToSeq(extra)
           g == GetDocument(b, d)
<1>1. /\ doc.rev \in leafRevs(b, d) /\ b.leaves[d][doc.rev] = doc
      /\ \A r \in leafRevs(b, d) : /\ r = doc.rev \/ RevLess(r, doc.rev)
                                   /\ b.leaves[d][r].rev = r
                                   /\ Headed(b.leaves[d][r])
  BY DEF KeptAt, AtLeast
<1>2. doc \in StoredDocument /\ Headed(doc)
  BY <1>1, StoredLeaf
<1>3. doc.rev \in Rev /\ h \in Seq(HistRev)
  BY <1>2, StoredDocumentIsNotNil
<1>4. Named(b, d) = ToSet(h) \cup branches
  BY <1>1 DEF Named
<1>5. CASE others = {}
  <2>1. g = doc
    BY <1>5 DEF GetDocument
  <2>2. branches = {}
    BY <1>5
  <2> QED
    BY <1>2, <1>4, <2>1, <2>2
<1>6. CASE others # {}
  <2>1. g = [doc EXCEPT !.hist = h \o tail]
    BY <1>1, <1>6 DEF GetDocument
  <2>2. IsFiniteSet(branches) /\ branches \subseteq HistRev
    <3>1. others \in SUBSET leafRevs(b, d)
      OBVIOUS
    <3> QED
      BY <3>1, NamedFinite
  <2>3. \A x \in branches : x = doc.rev \/ RevLess(x, doc.rev)
    <3> SUFFICES ASSUME NEW r \in others, NEW x \in ToSet(b.leaves[d][r].hist)
                 PROVE  RevLess(x, doc.rev)
      OBVIOUS
    <3>1. /\ b.leaves[d][r] \in StoredDocument /\ r \in Rev
          /\ b.leaves[d][r].rev = r /\ Headed(b.leaves[d][r])
          /\ RevLess(r, doc.rev)
      BY <1>1, StoredLeaf
    <3>2. x = r \/ RevLess(x, r)
      BY <3>1, HeadedNames
    <3>3. x \in HistRev /\ r \in HistRev /\ doc.rev \in HistRev
      BY <1>3, <2>2, <3>1, RevIsHistRev
    <3> QED
      BY <3>1, <3>2, <3>3, HistRevTransitive
  <2> HIDE DEF branches
  <2>4. IsFiniteSet(extra) /\ extra \subseteq HistRev
    BY <2>2, FS_Subset
  <2>5. \A x \in extra : RevLess(x, doc.rev)
    BY <1>2, <2>3, HeadedNames
  <2> HIDE DEF extra
  <2>6. tail \in Seq(HistRev) /\ ToSet(tail) = extra
    <3>1. tail \in Seq(extra) /\ ToSet(tail) = extra
      BY <2>4, SetToSeqIsSeq, SetToSeqCovers
    <3> QED
      BY <2>4, <3>1
  <2> HIDE DEF tail
  <2>7. /\ h \o tail \in Seq(HistRev) /\ Len(h \o tail) = Len(h) + Len(tail)
        /\ ToSet(h \o tail) = ToSet(h) \cup ToSet(tail)
        /\ \A i \in 1..Len(h) : (h \o tail)[i] = h[i]
        /\ \A i \in (Len(h) + 1)..(Len(h) + Len(tail)) :
             (h \o tail)[i] \in ToSet(tail)
    BY <1>3, <2>6, ConcatToSet
  <2>8. /\ g \in StoredDocument /\ g.rev = doc.rev /\ g.hist = h \o tail
    BY <1>2, <2>1, <2>7 DEF StoredDocument
  <2>9. Headed(g)
    <3>1. /\ h # <<>> /\ h[1] = doc.rev /\ Len(h) \in Nat /\ Len(tail) \in Nat
          /\ \A i \in 2..Len(h) : RevLess(h[i], doc.rev)
      BY <1>2, <1>3, <2>6 DEF Headed, Heads
    <3>2. Len(h) >= 1
      BY <1>3, <3>1
    <3>3. h \o tail # <<>> /\ (h \o tail)[1] = doc.rev
      BY <2>7, <3>1, <3>2
    <3>4. ASSUME NEW i \in 2..Len(h \o tail)
          PROVE  RevLess((h \o tail)[i], doc.rev)
      <4>1. i \in 2..Len(h) \/ i \in (Len(h) + 1)..(Len(h) + Len(tail))
        BY <2>7, <3>1, <3>2
      <4>2. i \in 2..Len(h) => (h \o tail)[i] = h[i]
        BY <2>7
      <4> QED
        BY <2>5, <2>6, <2>7, <3>1, <4>1, <4>2
    <3> QED
      BY <2>8, <3>3, <3>4 DEF Headed, Heads
  <2>10. ToSet(g.hist) = ToSet(h) \cup branches
    BY <2>6, <2>7, <2>8 DEF extra
  <2> QED
    BY <1>4, <2>8, <2>9, <2>10
<1> QED
  BY <1>5, <1>6

\* What revs_diff finds out of a revision.
LEMMA HasRevisionNamed ==
  ASSUME NEW b \in TargetBuckets, NEW d \in Docs, KeptAt(b, d), NEW x \in Rev
  PROVE  HasRevision(GetDocument(b, d), x) <=> x \in Named(b, d)
<1>1. CASE b.docs[d] = NoDoc
  <2>1. leafRevs(b, d) = {} /\ Named(b, d) = {}
    BY <1>1 DEF KeptAt, Named
  <2>2. GetDocument(b, d) = NoDoc
    BY <1>1, <2>1 DEF GetDocument
  <2>3. NoDoc.rev = NoRev /\ NoDoc.hist = <<>> /\ x # NoRev
    BY RevFields DEF NoDoc
  <2>4. ToSet(<<>>) = {}
    BY DEF ToSet
  <2> QED
    BY <2>1, <2>2, <2>3, <2>4 DEF HasRevision
<1>2. CASE b.docs[d] # NoDoc
  <2> DEFINE g == GetDocument(b, d)
  <2>1. g \in StoredDocument /\ Headed(g) /\ ToSet(g.hist) = Named(b, d)
    BY <1>2, GetDocumentNames
  <2>2. g.rev \in ToSet(g.hist)
    BY <2>1, HeadedNames
  <2> HIDE DEF g
  <2> QED
    BY <2>1, <2>2 DEF HasRevision, g
<1> QED
  BY <1>1, <1>2

-----------------------------------------------------------------------------
(* Applying a log to buckets of the target. *)

\* A log for the buckets of a target.
TargetLog ==
  [id : Docs, put : StoredDocument \cup {NoDoc}, chg : Nat, undel : BOOLEAN,
   puts : SUBSET StoredDocument, dels : SUBSET Rev]

LEMMA TargetLeaves ==
  ASSUME NEW f \in [Rev -> StoredDocument \cup {NoDoc}], NEW op \in TargetLog
  PROVE  ApplyLeaves(f, op) \in [Rev -> StoredDocument \cup {NoDoc}]
<1>1. op.puts \subseteq StoredDocument /\ op.dels \subseteq Rev
  BY DEF TargetLog
<1>2. ASSUME NEW s \in Rev, \E l \in op.puts : l.rev = s
      PROVE  (CHOOSE l \in op.puts : l.rev = s) \in op.puts
  BY <1>2
<1> QED
  BY <1>1, <1>2 DEF ApplyLeaves

LEMMA TargetApply ==
  ASSUME NEW b \in TargetBuckets, NEW op \in TargetLog
  PROVE  /\ Apply(b, op) \in TargetBuckets
         /\ Apply(b, op).leaves =
              [b.leaves EXCEPT ![op.id] = ApplyLeaves(@, op)]
         /\ Apply(b, op).docs =
              IF op.put = NoDoc THEN b.docs
              ELSE [b.docs EXCEPT ![op.id] = op.put]
<1> DEFINE D == StoredDocument \cup {NoDoc}
           c == [b EXCEPT !.leaves[op.id] = ApplyLeaves(@, op)]
<1>1. /\ op.id \in Docs /\ op.put \in D
      /\ op.undel \in BOOLEAN
  BY DEF TargetLog
<1>2. /\ b.leaves \in [Docs -> [Rev -> D]] /\ b.docs \in [Docs -> D]
      /\ b.changes \subseteq [seq : Nat, id : Docs] /\ b.changesSeq \in Nat
      /\ b.inval \in [Docs -> Nat] /\ b.invalSeq \in Nat
      /\ b.deleted \subseteq Docs
  BY DEF TargetBuckets
<1> HIDE DEF D
<1>3. ApplyLeaves(b.leaves[op.id], op) \in [Rev -> D]
  BY <1>1, <1>2, TargetLeaves DEF D
<1>4. [b.leaves EXCEPT ![op.id] = ApplyLeaves(@, op)] \in [Docs -> [Rev -> D]]
  BY <1>1, <1>2, <1>3
<1>5. /\ c \in TargetBuckets
      /\ c.leaves = [b.leaves EXCEPT ![op.id] = ApplyLeaves(@, op)]
      /\ c.docs = b.docs
  BY <1>2, <1>4 DEF TargetBuckets, D
<1>6. CASE op.put = NoDoc
  BY <1>5, <1>6 DEF Apply
<1>7. CASE op.put # NoDoc
  <2> DEFINE a == ApplyIndices(c, op)
             chg == {e \in c.changes : e.seq # op.chg}
                      \cup {[seq |-> c.changesSeq + 1, id |-> op.id]}
             del == (IF op.undel THEN c.deleted \ {op.id} ELSE c.deleted)
                      \cup (IF op.put.deleted THEN {op.id} ELSE {})
  <2>1. /\ c.leaves \in [Docs -> [Rev -> D]] /\ c.docs \in [Docs -> D]
        /\ c.changes \subseteq [seq : Nat, id : Docs] /\ c.changesSeq \in Nat
        /\ c.inval \in [Docs -> Nat] /\ c.invalSeq \in Nat
        /\ c.deleted \subseteq Docs
    BY <1>5 DEF TargetBuckets, D
  <2>2. Apply(b, op) = a
    BY <1>7 DEF Apply
  <2> HIDE DEF c
  <2>3. /\ a.leaves = c.leaves
        /\ a.docs = [c.docs EXCEPT ![op.id] = op.put]
        /\ a.changes = chg /\ a.changesSeq = c.changesSeq + 1
        /\ a.inval = [c.inval EXCEPT ![op.id] = c.invalSeq + 1]
        /\ a.invalSeq = c.invalSeq + 1 /\ a.deleted = del
    BY <1>5 DEF ApplyIndices, TargetBuckets
  <2>4. /\ chg \subseteq [seq : Nat, id : Docs]
        /\ del \subseteq Docs
    BY <1>1, <2>1
  <2>5. /\ [c.docs EXCEPT ![op.id] = op.put] \in [Docs -> D]
        /\ [c.inval EXCEPT ![op.id] = c.invalSeq + 1] \in [Docs -> Nat]
        /\ c.changesSeq + 1 \in Nat /\ c.invalSeq + 1 \in Nat
    BY <1>1, <2>1
  <2> HIDE DEF chg, del
  <2>6. a = [c EXCEPT !.docs = a.docs, !.changes = a.changes,
                      !.changesSeq = a.changesSeq, !.inval = a.inval,
                      !.invalSeq = a.invalSeq, !.deleted = a.deleted]
    BY <1>5 DEF ApplyIndices, TargetBuckets
  <2> HIDE DEF a
  <2>7. a \in TargetBuckets
    <3>1. /\ a.docs \in [Docs -> D] /\ a.changes \subseteq [seq : Nat, id : Docs]
          /\ a.changesSeq \in Nat /\ a.inval \in [Docs -> Nat]
          /\ a.invalSeq \in Nat /\ a.deleted \subseteq Docs
      BY <2>3, <2>4, <2>5
    <3> QED
      BY <1>5, <2>6, <3>1 DEF TargetBuckets, D
  <2> QED
    BY <1>5, <1>7, <2>2, <2>3, <2>7
<1> QED
  BY <1>6, <1>7

-----------------------------------------------------------------------------
(* A document with one leaf more. *)

\* op writes leaf over b, for a document that is the greatest leaf afterwards.
AddsLeaf(b, op, d, leaf) ==
  /\ op \in TargetLog /\ op.id = d
  /\ op.puts = {leaf}
  /\ \A r \in op.dels : RevLess(r, leaf.rev)
  /\ op.put = IF RevLess(b.docs[d].rev, leaf.rev) THEN leaf ELSE NoDoc

\* Document d of a is that of b with the log op applied.
WithLeaf(b, op, d, a) ==
  /\ a.leaves[d] = ApplyLeaves(b.leaves[d], op)
  /\ a.docs[d] = IF op.put = NoDoc THEN b.docs[d] ELSE op.put

LEMMA WithLeafLeaves ==
  ASSUME NEW b \in TargetBuckets, NEW a \in TargetBuckets, NEW d \in Docs,
         NEW leaf \in StoredDocument, NEW op, AddsLeaf(b, op, d, leaf),
         WithLeaf(b, op, d, a)
  PROVE  /\ leafRevs(a, d) = (leafRevs(b, d) \ op.dels) \cup {leaf.rev}
         /\ a.leaves[d][leaf.rev] = leaf
         /\ \A r \in leafRevs(a, d) \ {leaf.rev} :
              r \in leafRevs(b, d) /\ a.leaves[d][r] = b.leaves[d][r]
<1> DEFINE f == b.leaves[d]
<1>1. leaf.rev \in Rev /\ leaf # NoDoc
  BY StoredDocumentIsNotNil
<1>2. leaf.rev \notin op.dels
  <2>1. ~RevLess(leaf.rev, leaf.rev)
    BY <1>1, RevIsHistRev, HistRevOrder
  <2> QED
    BY <2>1 DEF AddsLeaf
<1>3. ASSUME NEW r \in Rev
      PROVE  a.leaves[d][r] = IF r \in op.dels THEN NoDoc
                              ELSE IF r = leaf.rev THEN leaf ELSE f[r]
  <2>1. op.puts = {leaf}
    BY DEF AddsLeaf
  <2>2. (\E l \in op.puts : l.rev = r) <=> r = leaf.rev
    BY <2>1
  <2>3. r = leaf.rev => (CHOOSE l \in op.puts : l.rev = r) = leaf
    BY <2>1
  <2> QED
    BY <2>2, <2>3 DEF WithLeaf, ApplyLeaves
<1>4. \A r \in Rev : r \in leafRevs(a, d) <=>
                       r \notin op.dels /\ (r = leaf.rev \/ f[r] # NoDoc)
  BY <1>1, <1>3 DEF leafRevs
<1>5. \A r \in Rev : r \in leafRevs(b, d) <=> f[r] # NoDoc
  BY DEF leafRevs
<1>6. leafRevs(a, d) \subseteq Rev /\ leafRevs(b, d) \subseteq Rev
  BY DEF leafRevs
<1> HIDE DEF f
<1>7. leafRevs(a, d) = (leafRevs(b, d) \ op.dels) \cup {leaf.rev}
  BY <1>1, <1>2, <1>4, <1>5, <1>6
<1>8. a.leaves[d][leaf.rev] = leaf
  BY <1>1, <1>2, <1>3
<1>9. \A r \in leafRevs(a, d) \ {leaf.rev} :
        r \in leafRevs(b, d) /\ a.leaves[d][r] = b.leaves[d][r]
  BY <1>3, <1>4, <1>5, <1>6 DEF f
<1> QED
  BY <1>7, <1>8, <1>9

LEMMA WithLeafKept ==
  ASSUME NEW b \in TargetBuckets, NEW a \in TargetBuckets, NEW d \in Docs,
         KeptAt(b, d), NEW leaf \in StoredDocument, Headed(leaf),
         leaf.rev # b.docs[d].rev,
         NEW op, AddsLeaf(b, op, d, leaf), WithLeaf(b, op, d, a)
  PROVE  /\ KeptAt(a, d) /\ a.docs[d] # NoDoc
         /\ leaf.rev \in Named(a, d)
         /\ AtLeast(a.docs[d].rev, b.docs[d].rev)
<1> DEFINE old == b.docs[d]
<1>1. /\ leafRevs(a, d) = (leafRevs(b, d) \ op.dels) \cup {leaf.rev}
      /\ a.leaves[d][leaf.rev] = leaf
      /\ \A r \in leafRevs(a, d) \ {leaf.rev} :
           r \in leafRevs(b, d) /\ a.leaves[d][r] = b.leaves[d][r]
  BY WithLeafLeaves
<1>2. leaf.rev \in Rev /\ leaf # NoDoc
  BY StoredDocumentIsNotNil
<1>3. old.rev \in Rev \cup {NoRev}
  <2>1. old \in StoredDocument \cup {NoDoc}
    BY DEF TargetBuckets
  <2> QED
    BY <2>1, StoredDocumentIsNotNil, NilDocument
<1>4. old = NoDoc => leafRevs(b, d) = {} /\ old.rev = NoRev
  BY NilDocument DEF KeptAt
<1>5. old # NoDoc => /\ old.rev \in leafRevs(b, d)
                     /\ b.leaves[d][old.rev] = old
  BY DEF KeptAt
<1>6. \A r \in leafRevs(b, d) : /\ r = old.rev \/ RevLess(r, old.rev)
                                /\ b.leaves[d][r].rev = r
                                /\ Headed(b.leaves[d][r])
  BY <1>4 DEF KeptAt, AtLeast
<1>7. leafRevs(b, d) \subseteq Rev
  BY DEF leafRevs
<1>8. leaf.rev \in Named(a, d)
  <2>1. leaf.rev \in ToSet(leaf.hist)
    BY HeadedNames
  <2> QED
    BY <1>1, <2>1 DEF Named
<1>9. \A r \in leafRevs(a, d) :
        a.leaves[d][r].rev = r /\ Headed(a.leaves[d][r])
  BY <1>1, <1>6
<1> HIDE DEF old
<1>10. CASE RevLess(old.rev, leaf.rev)
  <2>1. a.docs[d] = leaf
    BY <1>2, <1>10 DEF AddsLeaf, WithLeaf, old
  <2>2. \A r \in leafRevs(a, d) : r = leaf.rev \/ RevLess(r, leaf.rev)
    <3> SUFFICES ASSUME NEW r \in leafRevs(a, d), r # leaf.rev
                 PROVE  RevLess(r, leaf.rev)
      OBVIOUS
    <3>1. r \in leafRevs(b, d) /\ (r = old.rev \/ RevLess(r, old.rev))
      BY <1>1, <1>6
    <3> QED
      BY <1>2, <1>3, <1>7, <1>10, <3>1, RevLessTransitive
  <2> QED
    BY <1>1, <1>2, <1>8, <1>9, <1>10, <2>1, <2>2 DEF KeptAt, AtLeast, old
<1>11. CASE ~RevLess(old.rev, leaf.rev)
  <2>1. RevLess(leaf.rev, old.rev)
    BY <1>2, <1>3, <1>11, RevOrder DEF old
  <2>2. old # NoDoc
    BY <1>2, <1>4, <1>11, NoRevIsLeast
  <2>3. a.docs[d] = old
    BY <1>11 DEF AddsLeaf, WithLeaf, old
  <2>4. old.rev \notin op.dels
    <3> SUFFICES ASSUME old.rev \in op.dels
                 PROVE  FALSE
      OBVIOUS
    <3>1. RevLess(old.rev, leaf.rev)
      BY DEF AddsLeaf
    <3> QED
      BY <1>11, <3>1
  <2>5. old.rev \in leafRevs(a, d) /\ old.rev # leaf.rev
    BY <1>1, <1>5, <2>2, <2>4 DEF old
  <2>6. a.leaves[d][old.rev] = old
    BY <1>1, <1>5, <2>2, <2>5
  <2>7. \A r \in leafRevs(a, d) : r = old.rev \/ RevLess(r, old.rev)
    BY <1>1, <1>6, <2>1
  <2> QED
    BY <1>8, <1>9, <2>2, <2>3, <2>5, <2>6, <2>7 DEF KeptAt, AtLeast, old
<1> QED
  BY <1>10, <1>11

-----------------------------------------------------------------------------
(* The logs of edits and deliveries, with histories that name anything. *)

LEMMA TargetDocType ==
  ASSUME NEW b \in TargetBuckets, NEW d \in Docs
  PROVE  /\ b.docs[d] \in StoredDocument \cup {NoDoc}
         /\ b.docs[d].rev \in Rev \cup {NoRev}
         /\ b.docs[d].deleted \in BOOLEAN
         /\ b.docs[d] = NoDoc <=> b.docs[d].rev = NoRev
<1>1. b.docs[d] \in StoredDocument \cup {NoDoc}
  BY DEF TargetBuckets
<1> QED
  BY <1>1, StoredDocumentIsNotNil, NilDocument

LEMMA ReplaceWinnerIsLog ==
  ASSUME NEW b \in TargetBuckets, NEW d \in Docs, NEW leaf \in StoredDocument,
         NEW dels \in SUBSET Rev,
         NEW op, op = ReplaceWinner(b, d, leaf, {leaf}, dels)
  PROVE  /\ op \in TargetLog
         /\ op.id = d /\ op.put = leaf /\ op.puts = {leaf} /\ op.dels = dels
<1> DEFINE chg == IF b.docs[d] = NoDoc THEN 0 ELSE b.inval[d]
<1>1. b.inval[d] \in Nat /\ b.docs[d].deleted \in BOOLEAN
  BY TargetDocType DEF TargetBuckets
<1>2. chg \in Nat
  BY <1>1
<1>3. op = [id |-> d, put |-> leaf, chg |-> chg, undel |-> b.docs[d].deleted,
            puts |-> {leaf}, dels |-> dels]
  BY DEF ReplaceWinner
<1> HIDE DEF chg
<1> QED
  BY <1>1, <1>2, <1>3 DEF TargetLog

LEMMA KeepWinnerIsLog ==
  ASSUME NEW d \in Docs, NEW leaf \in StoredDocument, NEW dels \in SUBSET Rev,
         NEW op, op = KeepWinner(d, {leaf}, dels)
  PROVE  /\ op \in TargetLog
         /\ op.id = d /\ op.put = NoDoc /\ op.puts = {leaf} /\ op.dels = dels
  BY DEF KeepWinner, TargetLog

\* A delivery adds the document as a leaf, and makes it the winner if it is
\* greater than the winner.
LEMMA DeliveryAddsLeaf ==
  ASSUME NEW b \in TargetBuckets, NEW d \in Docs, KeptAt(b, d),
         NEW doc \in StoredDocument, Headed(doc), doc.rev # b.docs[d].rev
  PROVE  LET op == PutDocumentForReplication(b, d, doc)
         IN  /\ AddsLeaf(b, op, d, doc)
             /\ op.dels \subseteq ToSet(Tail(doc.hist))
<1> DEFINE old     == b.docs[d]
           stored  == leafRevs(b, d)
           legacy  == IF old = NoDoc \/ old.rev \in stored THEN {}
                      ELSE {GetDocument(b, d)}
           leafSet == stored \cup {l.rev : l \in legacy} \cup {doc.rev}
           parents == ToSet(Tail(doc.hist)) \cap leafSet
           winner  == WinnerRev(leafSet \ parents)
           winnerDoc == IF winner = doc.rev THEN doc
                        ELSE IF winner \in stored THEN b.leaves[d][winner]
                        ELSE NoDoc
           new == doc.rev
           op == PutDocumentForReplication(b, d, doc)
<1>1. /\ old = NoDoc => stored = {}
      /\ old # NoDoc => /\ old.rev \in stored
                        /\ \A r \in stored : r = old.rev \/ RevLess(r, old.rev)
  BY DEF KeptAt, AtLeast
<1>2. legacy = {}
  BY <1>1
<1>3. leafSet = stored \cup {new} /\ stored \subseteq Rev
  BY <1>2 DEF leafRevs
<1>4. new \in Rev /\ doc # NoDoc /\ old.rev \in Rev \cup {NoRev}
  BY StoredDocumentIsNotNil, TargetDocType
<1>5. \A r \in parents : RevLess(r, new)
  BY TailToSet
<1>6. op = IF winnerDoc # NoDoc /\ winner # old.rev
           THEN ReplaceWinner(b, d, winnerDoc, legacy \cup {doc}, parents)
           ELSE KeepWinner(d, legacy \cup {doc}, parents)
  BY DEF PutDocumentForReplication
<1>7. parents \subseteq ToSet(Tail(doc.hist)) /\ parents \subseteq leafSet
  OBVIOUS
<1> HIDE DEF legacy, leafSet, parents, winner, winnerDoc, op
<1>8. new \notin parents /\ parents \in SUBSET Rev
  <2>1. ~RevLess(new, new)
    BY <1>4, RevOrder
  <2> QED
    BY <1>3, <1>4, <1>5, <1>7, <2>1
<1>9. leafSet \ parents \in SUBSET Rev /\ new \in leafSet \ parents
  BY <1>3, <1>4, <1>8
<1>10. CASE RevLess(old.rev, new)
  <2>1. \A r \in stored : RevLess(r, new)
    <3> SUFFICES ASSUME NEW r \in stored
                 PROVE  RevLess(r, new)
      OBVIOUS
    <3>1. r = old.rev \/ RevLess(r, old.rev)
      BY <1>1
    <3> QED
      BY <1>3, <1>4, <1>10, <3>1, RevLessTransitive
  <2>2. winner = new
    BY <1>3, <1>9, <2>1, WinnerIsGreatest DEF winner
  <2>3. op = ReplaceWinner(b, d, doc, {doc}, parents)
    <3>1. new # old.rev
      OBVIOUS
    <3> QED
      BY <1>2, <1>4, <1>6, <2>2, <3>1 DEF winnerDoc
  <2>4. /\ op \in TargetLog /\ op.id = d
        /\ op.put = doc /\ op.puts = {doc} /\ op.dels = parents
    BY <1>8, <2>3, ReplaceWinnerIsLog
  <2> QED
    BY <1>5, <1>7, <1>10, <2>4 DEF AddsLeaf, op
<1>11. CASE ~RevLess(old.rev, new)
  <2>1. RevLess(new, old.rev)
    BY <1>4, <1>11, RevOrder
  <2>2. old # NoDoc
    <3>1. RevLess(NoRev, new)
      BY <1>4, NoRevIsLeast
    <3> QED
      BY <1>11, <3>1, NilDocument
  <2>3. old.rev \in Rev
    BY <1>1, <1>3, <2>2
  <2>4. old.rev \notin parents
    BY <1>5, <1>11
  <2>5. winner = old.rev
    <3>1. old.rev \in leafSet \ parents
      BY <1>1, <1>3, <2>2, <2>4
    <3>2. \A o \in leafSet \ parents : o = old.rev \/ RevLess(o, old.rev)
      BY <1>1, <1>3, <2>1, <2>2
    <3> QED
      BY <1>9, <3>1, <3>2, WinnerIsGreatest DEF winner
  <2>6. op = KeepWinner(d, {doc}, parents)
    BY <1>2, <1>6, <2>5
  <2>7. /\ op \in TargetLog /\ op.id = d
        /\ op.put = NoDoc /\ op.puts = {doc} /\ op.dels = parents
    <3>1. op = [id |-> d, put |-> NoDoc, chg |-> 0, undel |-> FALSE,
                puts |-> {doc}, dels |-> parents]
      BY <2>6 DEF KeepWinner
    <3> QED
      BY <1>8, <3>1 DEF TargetLog
  <2> QED
    BY <1>5, <1>7, <1>11, <2>7 DEF AddsLeaf, op
<1> QED
  BY <1>10, <1>11

\* What an edit stores follows on what the document was known by.
LEMMA ChainNames ==
  ASSUME NEW r \in Rev, NEW h \in Seq(HistRev)
  PROVE  /\ Chain(r, h) \in Seq(HistRev) /\ Chain(r, h) # <<>>
         /\ Chain(r, h)[1] = r
         /\ \A i \in 2..Len(Chain(r, h)) : Chain(r, h)[i] \in ToSet(h)
         /\ Len(h) < HistCap => ToSet(h) \subseteq ToSet(Chain(r, h))
<1> DEFINE s == <<r>> \o h
<1>1. r \in HistRev /\ <<r>> \in Seq(HistRev) /\ Len(<<r>>) = 1 /\ <<r>>[1] = r
  BY RevIsHistRev
<1>2. /\ s \in Seq(HistRev) /\ Len(s) = 1 + Len(h) /\ s[1] = r
      /\ ToSet(h) \subseteq ToSet(s)
      /\ \A i \in 2..(1 + Len(h)) : s[i] \in ToSet(h)
  <2> DEFINE one == <<r>>
  <2>1. /\ one \o h \in Seq(HistRev) /\ Len(one \o h) = Len(one) + Len(h)
        /\ ToSet(one \o h) = ToSet(one) \cup ToSet(h)
        /\ \A i \in 1..Len(one) : (one \o h)[i] = one[i]
        /\ \A i \in (Len(one) + 1)..(Len(one) + Len(h)) :
              (one \o h)[i] \in ToSet(h)
    BY <1>1, ConcatToSet
  <2>2. Len(one) = 1 /\ one[1] = r
    BY <1>1
  <2> HIDE DEF one
  <2> QED
    BY <2>1, <2>2 DEF one
<1>3. Len(h) \in Nat /\ HistCap \in Nat /\ HistCap >= 1
  BY DocTxAssumption
<1>4. Chain(r, h) = IF Len(s) > HistCap THEN SubSeq(s, 1, HistCap) ELSE s
  BY DEF Chain
<1> HIDE DEF s
<1>5. CASE Len(s) > HistCap
  <2> DEFINE c == SubSeq(s, 1, HistCap)
  <2>1. /\ c \in Seq(HistRev) /\ Len(c) = HistCap
        /\ \A i \in 1..HistCap : c[i] = s[i]
    BY <1>2, <1>3, <1>5
  <2>2. Chain(r, h) = c
    BY <1>4, <1>5
  <2> HIDE DEF c
  <2>3. c # <<>> /\ c[1] = r
    BY <1>2, <1>3, <2>1
  <2>4. \A i \in 2..Len(c) : i \in 1..HistCap /\ i \in 2..(1 + Len(h))
    BY <1>2, <1>3, <1>5, <2>1
  <2> QED
    BY <1>2, <1>3, <1>5, <2>1, <2>2, <2>3, <2>4
<1>6. CASE ~(Len(s) > HistCap)
  <2>1. s # <<>>
    BY <1>2, <1>3
  <2> QED
    BY <1>2, <1>4, <1>6, <2>1
<1> QED
  BY <1>5, <1>6

LEMMA EditAddsLeaf ==
  ASSUME NEW b \in TargetBuckets, NEW d \in Docs, KeptAt(b, d),
         NEW new \in Rev, b.docs[d].rev.gen < new.gen
  PROVE  LET op == PutDocument(b, d, new, FALSE)
         IN  \E leaf \in StoredDocument :
               /\ Headed(leaf) /\ leaf.rev = new
               /\ AddsLeaf(b, op, d, leaf)
               /\ op.dels \subseteq {b.docs[d].rev}
               /\ Len(GetDocument(b, d).hist) < HistCap =>
                    Named(b, d) \subseteq ToSet(leaf.hist)
<1> DEFINE old == GetDocument(b, d)
           leaf == [rev |-> new, deleted |-> FALSE, hist |-> Chain(new, old.hist)]
           dels == IF old = NoDoc THEN {} ELSE {old.rev}
           op == PutDocument(b, d, new, FALSE)
<1>1. /\ old.hist \in Seq(HistRev) /\ old.rev = b.docs[d].rev
      /\ ToSet(old.hist) = Named(b, d)
      /\ \A x \in ToSet(old.hist) : x = old.rev \/ RevLess(x, old.rev)
      /\ old # NoDoc => old.rev \in Rev
  <2>1. CASE b.docs[d] = NoDoc
    <3>1. leafRevs(b, d) = {} /\ Named(b, d) = {}
      BY <2>1 DEF KeptAt, Named
    <3>2. old = NoDoc
      BY <2>1, <3>1 DEF GetDocument
    <3>3. old.hist = <<>> /\ ToSet(<<>>) = {}
      BY <3>2 DEF ToSet, NoDoc
    <3> QED
      BY <2>1, <3>1, <3>2, <3>3
  <2>2. CASE b.docs[d] # NoDoc
    BY <2>2, GetDocumentNames, StoredDocumentIsNotNil, HeadedNames
  <2> QED
    BY <2>1, <2>2
<1>2. RevLess(b.docs[d].rev, new)
  BY DEF RevLess
<1>3. b.docs[d].rev \in Rev \cup {NoRev}
  BY TargetDocType
<1> DEFINE h == old.hist
           c == Chain(new, h)
<1>4. op = ReplaceWinner(b, d, leaf, {leaf}, dels)
  BY DEF PutDocument
<1> HIDE DEF old, op
<1>5. /\ c \in Seq(HistRev) /\ c # <<>> /\ c[1] = new
      /\ \A i \in 2..Len(c) : c[i] \in ToSet(h)
      /\ Len(h) < HistCap => ToSet(h) \subseteq ToSet(c)
  BY <1>1, ChainNames
<1>6. \A x \in ToSet(h) : RevLess(x, new)
  <2> SUFFICES ASSUME NEW x \in ToSet(h)
               PROVE  RevLess(x, new)
    OBVIOUS
  <2>1. x \in HistRev
    BY <1>1, SeqToSet
  <2> QED
    BY <1>1, <1>2, <1>3, <2>1, RevIsHistRev, HistRevTransitive
<1> HIDE DEF c
<1>7. /\ leaf \in StoredDocument /\ leaf.rev = new /\ leaf.hist = c
  BY <1>5 DEF StoredDocument, c
<1> HIDE DEF leaf
<1>8. Headed(leaf)
  BY <1>5, <1>6, <1>7 DEF Headed, Heads
<1>9. dels \in SUBSET Rev /\ dels \subseteq {b.docs[d].rev}
  BY <1>1
<1> HIDE DEF dels
<1>10. /\ op \in TargetLog /\ op.id = d
       /\ op.put = leaf /\ op.puts = {leaf} /\ op.dels = dels
  <2>1. dels \in SUBSET Rev
    BY <1>9
  <2>2. leaf \in StoredDocument
    BY <1>7
  <2> DEFINE chg == IF b.docs[d] = NoDoc THEN 0 ELSE b.inval[d]
  <2>3. b.inval[d] \in Nat /\ b.docs[d].deleted \in BOOLEAN
    BY TargetDocType DEF TargetBuckets
  <2>4. chg \in Nat
    BY <2>3
  <2>5. op = [id |-> d, put |-> leaf, chg |-> chg, undel |-> b.docs[d].deleted,
              puts |-> {leaf}, dels |-> dels]
    BY <1>4 DEF ReplaceWinner
  <2> HIDE DEF chg
  <2> QED
    BY <2>1, <2>2, <2>3, <2>4, <2>5 DEF TargetLog
<1>11. AddsLeaf(b, op, d, leaf)
  BY <1>2, <1>7, <1>9, <1>10 DEF AddsLeaf
<1>12. Len(h) < HistCap => Named(b, d) \subseteq ToSet(leaf.hist)
  BY <1>1, <1>5, <1>7
<1> QED
  BY <1>7, <1>8, <1>9, <1>10, <1>11, <1>12 DEF op, old

-----------------------------------------------------------------------------
(* What a document is known by stays. *)

\* A leaf not greater than c hides nothing that c is named by.
LEMMA DeliveryKeepsNames ==
  ASSUME NEW b \in TargetBuckets, NEW a \in TargetBuckets, NEW d \in Docs,
         KeptAt(b, d), NEW leaf \in StoredDocument, Headed(leaf),
         NEW op, AddsLeaf(b, op, d, leaf), WithLeaf(b, op, d, a),
         NEW c \in Rev, AtLeast(c, leaf.rev), c \in Named(b, d)
  PROVE  c \in Named(a, d)
<1>1. /\ leafRevs(a, d) = (leafRevs(b, d) \ op.dels) \cup {leaf.rev}
      /\ a.leaves[d][leaf.rev] = leaf
      /\ \A r \in leafRevs(a, d) \ {leaf.rev} :
           r \in leafRevs(b, d) /\ a.leaves[d][r] = b.leaves[d][r]
  BY WithLeafLeaves
<1>2. PICK l \in leafRevs(b, d) : c \in ToSet(b.leaves[d][l].hist)
  BY DEF Named
<1>3. /\ b.leaves[d][l] \in StoredDocument /\ l \in Rev
      /\ b.leaves[d][l].rev = l /\ Headed(b.leaves[d][l])
  <2>1. b.docs[d] # NoDoc
    BY DEF KeptAt
  <2> QED
    BY <2>1, StoredLeaf DEF KeptAt
<1>4. c = l \/ RevLess(c, l)
  BY <1>2, <1>3, HeadedNames
<1>5. leaf.rev \in Rev /\ (c = leaf.rev \/ RevLess(leaf.rev, c))
  BY StoredDocumentIsNotNil DEF AtLeast
<1>6. l \notin op.dels
  <2> SUFFICES ASSUME l \in op.dels
               PROVE  FALSE
    OBVIOUS
  <2>1. RevLess(l, leaf.rev)
    BY DEF AddsLeaf
  <2>2. RevLess(c, leaf.rev)
    BY <1>3, <1>4, <1>5, <2>1, RevLessTransitive
  <2> QED
    BY <1>5, <2>2, RevOrder
<1>7. CASE l = leaf.rev
  <2>1. c = leaf.rev
    BY <1>4, <1>5, <1>7, RevOrder
  <2>2. leaf.rev \in ToSet(leaf.hist)
    BY HeadedNames
  <2> QED
    BY <1>1, <2>1, <2>2 DEF Named
<1>8. CASE l # leaf.rev
  <2>1. l \in leafRevs(a, d) /\ a.leaves[d][l] = b.leaves[d][l]
    BY <1>1, <1>6, <1>8
  <2> QED
    BY <1>2, <2>1 DEF Named
<1> QED
  BY <1>7, <1>8

\* An edit keeps all names, unless its history is cut.
LEMMA EditKeepsNames ==
  ASSUME NEW b \in TargetBuckets, NEW a \in TargetBuckets, NEW d \in Docs,
         KeptAt(b, d), NEW leaf \in StoredDocument,
         NEW op, AddsLeaf(b, op, d, leaf), WithLeaf(b, op, d, a),
         leaf.rev \notin leafRevs(b, d),
         op.dels = {} \/ Named(b, d) \subseteq ToSet(leaf.hist)
  PROVE  Named(b, d) \subseteq Named(a, d)
<1>1. /\ leafRevs(a, d) = (leafRevs(b, d) \ op.dels) \cup {leaf.rev}
      /\ a.leaves[d][leaf.rev] = leaf
      /\ \A r \in leafRevs(a, d) \ {leaf.rev} :
           r \in leafRevs(b, d) /\ a.leaves[d][r] = b.leaves[d][r]
  BY WithLeafLeaves
<1>2. CASE Named(b, d) \subseteq ToSet(leaf.hist)
  BY <1>1, <1>2 DEF Named
<1>3. CASE op.dels = {}
  <2>1. \A r \in leafRevs(b, d) :
          r \in leafRevs(a, d) /\ a.leaves[d][r] = b.leaves[d][r]
    BY <1>1, <1>3
  <2> QED
    BY <2>1 DEF Named
<1> QED
  BY <1>2, <1>3

-----------------------------------------------------------------------------
(* A document on the wire. *)

LEMMA ArrivingHeaded ==
  ASSUME NEW doc \in Document, Headed(doc)
  PROVE  /\ Arriving(doc) \in StoredDocument
         /\ Arriving(doc).rev = doc.rev
         /\ Headed(Arriving(doc))
<1>1. CASE ~("http" \in {job.source, job.target})
  BY <1>1, DocumentIsStored DEF Arriving
<1>2. CASE "http" \in {job.source, job.target}
  <2> DEFINE h == doc.hist
             a == Arriving(doc)
  <2>1. doc.rev \in Rev /\ h \in Seq(Rev) /\ h # <<>> /\ h[1] = doc.rev
    BY DocIsNotNil DEF Headed, Heads
  <2>2. a = [doc EXCEPT !.hist = Renumbered(h)]
    BY <1>2 DEF Arriving
  <2>3. a.rev = doc.rev /\ a.hist = Renumbered(h)
    BY <2>2 DEF Document
  <2> HIDE DEF h
  <2>4. Len(h) \in Nat /\ Len(h) >= 1 /\ DOMAIN h = 1..Len(h) /\ Head(h) = doc.rev
    BY <2>1
  <2>5. \A i \in 1..Len(h) : h[i].hash \in Hashes
    BY <2>1, RevFields
  <2>6. doc.rev.gen \in Nat /\ doc.rev.hash \in Nat
        /\ doc.rev = [gen |-> doc.rev.gen, hash |-> doc.rev.hash]
    BY <2>1, RevNumbers DEF Rev
  <2>7. \A i \in 1..Len(h) :
          /\ Renumbered(h)[i] = [gen |-> doc.rev.gen - i + 1, hash |-> h[i].hash]
          /\ Renumbered(h)[i] \in HistRev
    BY <2>4, <2>5, <2>6 DEF Renumbered, HistRev
  <2>8. Renumbered(h) \in Seq(HistRev) /\ Len(Renumbered(h)) = Len(h)
    <3>1. Renumbered(h) \in [1..Len(h) -> HistRev]
      BY <2>4, <2>7 DEF Renumbered
    <3> QED
      BY <2>4, <3>1
  <2>9. Renumbered(h)[1] = doc.rev
    <3>1. 1 \in 1..Len(h)
      BY <2>4
    <3>2. Renumbered(h)[1] = [gen |-> doc.rev.gen - 1 + 1, hash |-> h[1].hash]
      BY <2>7, <3>1
    <3> QED
      BY <2>1, <2>6, <3>2
  <2>10. \A i \in 2..Len(h) : RevLess(Renumbered(h)[i], doc.rev)
    <3> SUFFICES ASSUME NEW i \in 2..Len(h)
                 PROVE  RevLess(Renumbered(h)[i], doc.rev)
      OBVIOUS
    <3>1. i \in 1..Len(h)
      BY <2>4
    <3>2. Renumbered(h)[i] = [gen |-> doc.rev.gen - i + 1, hash |-> h[i].hash]
      BY <2>7, <3>1
    <3> DEFINE n == doc.rev.gen - i + 1
    <3>3. n < doc.rev.gen
      BY <2>6
    <3> HIDE DEF n
    <3>4. Renumbered(h)[i].gen = n
      BY <3>2 DEF n
    <3> QED
      BY <3>3, <3>4 DEF RevLess
  <2>11. a \in StoredDocument
    BY <2>2, <2>8, DocIsNotNil DEF Document, StoredDocument
  <2>12. Renumbered(h) # <<>>
    BY <2>4, <2>8
  <2> HIDE DEF a
  <2> QED
    BY <2>3, <2>8, <2>9, <2>10, <2>11, <2>12 DEF Headed, Heads, a
<1> QED
  BY <1>1, <1>2

-----------------------------------------------------------------------------
(* What clients and other peers write. *)

NewLeaf(b, op, d, leaf) ==
  /\ leaf \in StoredDocument /\ Headed(leaf)
  /\ leaf.rev \notin leafRevs(b, d) /\ leaf.rev # b.docs[d].rev
  /\ AddsLeaf(b, op, d, leaf)
  /\ \/ op.dels = {}
     \/ Len(GetDocument(b, d).hist) < HistCap =>
          Named(b, d) \subseteq ToSet(leaf.hist)

LEMMA ClientEdit ==
  ASSUME NEW b \in TargetBuckets, NEW d \in Docs, KeptAt(b, d),
         NEW new \in Rev, b.docs[d].rev.gen < new.gen,
         NEW op, op = PutDocument(b, d, new, FALSE)
  PROVE  \E leaf : NewLeaf(b, op, d, leaf)
<1>1. PICK leaf \in StoredDocument :
        /\ Headed(leaf) /\ leaf.rev = new
        /\ AddsLeaf(b, op, d, leaf)
        /\ op.dels \subseteq {b.docs[d].rev}
        /\ Len(GetDocument(b, d).hist) < HistCap =>
             Named(b, d) \subseteq ToSet(leaf.hist)
  BY EditAddsLeaf
<1>2. RevLess(b.docs[d].rev, new) /\ b.docs[d].rev \in Rev \cup {NoRev}
  BY TargetDocType DEF RevLess
<1>3. new # b.docs[d].rev
  BY <1>2, RevOrder
<1>4. new \notin leafRevs(b, d)
  <2> SUFFICES ASSUME new \in leafRevs(b, d)
               PROVE  FALSE
    OBVIOUS
  <2>1. new = b.docs[d].rev \/ RevLess(new, b.docs[d].rev)
    BY DEF KeptAt, AtLeast
  <2> QED
    BY <1>2, <1>3, <2>1, RevOrder
<1> QED
  BY <1>1, <1>3, <1>4 DEF NewLeaf

LEMMA PeerDelivery ==
  ASSUME NEW b \in TargetBuckets, NEW d \in Docs, KeptAt(b, d),
         NEW r \in Rev, r \notin leafRevs(b, d), NEW doc,
         doc = [rev |-> r, deleted |-> FALSE, hist |-> <<r>>],
         NEW op, op = PutDocumentForReplication(b, d, doc)
  PROVE  /\ doc \in Document /\ Heads(r, doc.hist) /\ r # b.docs[d].rev
         /\ ToSet(Tail(doc.hist)) = {}
         /\ NewLeaf(b, op, d, doc)
<1>1. /\ doc \in Document /\ doc.rev = r /\ doc.hist = <<r>>
  BY DEF Document
<1>2. <<r>> # <<>> /\ <<r>>[1] = r /\ Len(<<r>>) = 1 /\ Tail(<<r>>) = <<>>
  OBVIOUS
<1>3. Heads(doc.rev, doc.hist) /\ Headed(doc)
  <2>1. \A i \in 2..Len(doc.hist) : FALSE
    BY <1>1, <1>2
  <2> QED
    BY <1>1, <1>2, <2>1 DEF Headed, Heads
<1>4. ToSet(Tail(doc.hist)) = {}
  BY <1>1, <1>2 DEF ToSet
<1>5. r # b.docs[d].rev
  BY TargetDocType, RevFields DEF KeptAt
<1>6. doc \in StoredDocument
  BY <1>1, DocumentIsStored
<1>7. AddsLeaf(b, op, d, doc) /\ op.dels \subseteq ToSet(Tail(doc.hist))
  BY <1>1, <1>3, <1>5, <1>6, DeliveryAddsLeaf
<1> QED
  BY <1>1, <1>3, <1>4, <1>5, <1>6, <1>7 DEF NewLeaf

\* The log of an edit of sound buckets keeps them sound.
SoundLog(b, op, d) ==
  /\ op \in OpLog /\ op.id = d
  /\ OwnChange(b, op)
  /\ SoundAt(Apply(b, op), d)

LEMMA NewRevType ==
  ASSUME NEW b \in TargetBuckets, NEW d \in Docs, b.docs[d].rev.gen < MaxGen,
         NEW h \in Hashes
  PROVE  /\ NewRev(b.docs[d].rev, h) \in Rev
         /\ b.docs[d].rev.gen < NewRev(b.docs[d].rev, h).gen
         /\ NewRev(NoRev, h) \in Rev
<1> DEFINE g == b.docs[d].rev.gen
<1>1. g \in Nat
  BY TargetDocType, RevNumbers
<1>2. MaxGen \in Nat
  BY DocTxAssumption
<1>3. g + 1 \in 1..MaxGen /\ 1 \in 1..MaxGen
  BY <1>1, <1>2
<1>4. NewRev(b.docs[d].rev, h) = [gen |-> g + 1, hash |-> h]
  BY DEF NewRev, NextSequenceRevision
<1>5. NewRev(NoRev, h) = [gen |-> 1, hash |-> h]
  BY DEF NewRev, NextSequenceRevision, NoRev
<1> HIDE DEF g
<1>6. g < g + 1
  BY <1>1
<1> QED
  BY <1>3, <1>4, <1>5, <1>6 DEF Rev, g

\* What a client makes of document d of b.
Edited(b, d) == {Apply(b, op) : op \in EditLogs(b, d)}

LEMMA EditedByLog ==
  ASSUME NEW b \in TargetBuckets, NEW d \in Docs, KeptAt(b, d),
         b.docs[d].rev.gen < MaxGen, NEW a \in Edited(b, d)
  PROVE  \E op, leaf :
           /\ a = Apply(b, op) /\ NewLeaf(b, op, d, leaf)
           /\ b \in Buckets /\ b.changesSeq = b.invalSeq /\ SoundAt(b, d) =>
                SoundLog(b, op, d)
<1>1. CASE \E h \in ClientHashes :
             a = Apply(b, PutDocument(b, d, NewRev(b.docs[d].rev, h), FALSE))
  <2>1. PICK h \in ClientHashes :
          a = Apply(b, PutDocument(b, d, NewRev(b.docs[d].rev, h), FALSE))
    BY <1>1
  <2> DEFINE new == NewRev(b.docs[d].rev, h)
             op == PutDocument(b, d, new, FALSE)
  <2>2. h \in Hashes
    BY ReplicatorAssumption
  <2>3. new \in Rev /\ b.docs[d].rev.gen < new.gen
    BY <2>2, NewRevType
  <2>4. a = Apply(b, op) /\ op = PutDocument(b, d, new, FALSE)
    BY <2>1
  <2> HIDE DEF new, op
  <2>5. PICK leaf : NewLeaf(b, op, d, leaf)
    BY <2>3, <2>4, ClientEdit
  <2>6. b \in Buckets /\ b.changesSeq = b.invalSeq /\ SoundAt(b, d) =>
          SoundLog(b, op, d)
    <3> SUFFICES ASSUME b \in Buckets, b.changesSeq = b.invalSeq, SoundAt(b, d)
                 PROVE  SoundLog(b, op, d)
      OBVIOUS
    <3> PICK live \in BOOLEAN : live = FALSE
      OBVIOUS
    <3>4. op = PutDocument(b, d, new, live)
      BY <2>4
    <3>1. op \in OpLog /\ op.id = d /\ OwnChange(b, op)
      BY <2>3, <3>4, PutDocumentLog
    <3>3. KeepsSound(b, op, d, new, FALSE)
      BY <2>3, <2>4, PutDocumentSound
    <3> QED
      BY <3>1, <3>3 DEF KeepsSound, SoundLog
  <2> QED
    BY <2>4, <2>5, <2>6
<1>2. CASE \E r \in {NewRev(NoRev, h) : h \in PeerHashes} \ leafRevs(b, d) :
             a = Apply(b, PutDocumentForReplication(b, d,
                            [rev |-> r, deleted |-> FALSE, hist |-> <<r>>]))
  <2>1. PICK r \in {NewRev(NoRev, h) : h \in PeerHashes} \ leafRevs(b, d) :
             a = Apply(b, PutDocumentForReplication(b, d,
                            [rev |-> r, deleted |-> FALSE, hist |-> <<r>>]))
    BY <1>2
  <2> DEFINE doc == [rev |-> r, deleted |-> FALSE, hist |-> <<r>>]
             op == PutDocumentForReplication(b, d, doc)
  <2>2. r \in Rev /\ r \notin leafRevs(b, d)
    BY <2>1, NewRevType, ReplicatorAssumption
  <2>3. /\ doc \in Document /\ Heads(r, doc.hist) /\ r # b.docs[d].rev
        /\ ToSet(Tail(doc.hist)) = {}
        /\ NewLeaf(b, op, d, doc)
    BY <2>2, PeerDelivery
  <2>4. doc.rev = r /\ a = Apply(b, op)
    BY <2>1
  <2>5. b \in Buckets /\ b.changesSeq = b.invalSeq /\ SoundAt(b, d) =>
          SoundLog(b, op, d)
    <3> SUFFICES ASSUME b \in Buckets, b.changesSeq = b.invalSeq, SoundAt(b, d)
                 PROVE  SoundLog(b, op, d)
      OBVIOUS
    <3> HIDE DEF doc
    <3>1. op \in OpLog /\ op.id = d /\ OwnChange(b, op)
      <4>1. doc.hist # <<>>
        BY <2>3 DEF Heads
      <4> QED
        BY <2>3, <4>1, ReplicationOp
    <3>2. KeepsSound(b, op, d, doc.rev, doc.deleted)
      BY <2>3, <2>4, ReplicationSound
    <3> QED
      BY <3>1, <3>2 DEF KeepsSound, SoundLog
  <2> HIDE DEF op, doc
  <2> QED
    BY <2>3, <2>4, <2>5
<1> QED
  BY <1>1, <1>2 DEF Edited, EditLogs

LEMMA LogIsWithLeaf ==
  ASSUME NEW b \in TargetBuckets, NEW d \in Docs, NEW op, NEW leaf,
         AddsLeaf(b, op, d, leaf), NEW a, a = Apply(b, op)
  PROVE  /\ a \in TargetBuckets
         /\ WithLeaf(b, op, d, a)
         /\ \A c \in Docs \ {d} :
              a.docs[c] = b.docs[c] /\ a.leaves[c] = b.leaves[c]
<1>1. op \in TargetLog /\ op.id = d
  BY DEF AddsLeaf
<1>2. /\ a \in TargetBuckets
      /\ a.leaves = [b.leaves EXCEPT ![d] = ApplyLeaves(@, op)]
      /\ a.docs = IF op.put = NoDoc THEN b.docs
                  ELSE [b.docs EXCEPT ![d] = op.put]
  BY <1>1, TargetApply
<1>3. /\ b.leaves \in [Docs -> [Rev -> StoredDocument \cup {NoDoc}]]
      /\ b.docs \in [Docs -> StoredDocument \cup {NoDoc}]
  BY DEF TargetBuckets
<1> QED
  BY <1>2, <1>3 DEF WithLeaf

LEMMA OthersStayKept ==
  ASSUME NEW b, NEW a, NEW c \in Docs,
         a.docs[c] = b.docs[c], a.leaves[c] = b.leaves[c]
  PROVE  /\ KeptAt(b, c) => KeptAt(a, c)
         /\ Named(a, c) = Named(b, c)
         /\ GetDocument(a, c) = GetDocument(b, c)
<1>1. leafRevs(a, c) = leafRevs(b, c)
  BY DEF leafRevs
<1> QED
  BY <1>1 DEF KeptAt, Named, GetDocument

-----------------------------------------------------------------------------
(* The source. *)

\* What a write does to the sequences of the source.
SourceMoves(d) ==
  /\ src'.inval \in [Docs -> 0..MaxSeq] /\ src'.changesSeq \in 0..MaxSeq
  /\ AtLeast(src'.docs[d].rev, src.docs[d].rev)
  /\ \A c \in Docs \ {d} : /\ src'.inval[c] = src.inval[c]
                           /\ src'.docs[c] = src.docs[c]
                           /\ src'.leaves[c] = src.leaves[c]
  /\ \/ /\ src'.inval = src.inval /\ src'.docs = src.docs
        /\ src'.changesSeq = src.changesSeq
     \/ /\ src'.changesSeq = src.changesSeq + 1
        /\ src'.inval[d] = src.changesSeq + 1
        /\ src'.docs[d] # NoDoc

LEMMA SourceWritten ==
  ASSUME job \in Jobs, src \in Buckets, SourceSound, NEW d \in Docs,
         src.changesSeq < Bounds[job].source, src.docs[d].rev.gen < MaxGen,
         src' \in Edited(src, d)
  PROVE  src' \in Buckets /\ SourceSound' /\ SourceMoves(d)
<1>1. src \in TargetBuckets
  BY BucketsAreTargets
<1>2. /\ SoundAt(src, d) /\ KeptAt(src, d) /\ src.changesSeq = src.invalSeq
      /\ \A c \in Docs : SoundAt(src, c) /\ KeptAt(src, c)
      /\ \A c \in Docs : /\ src.inval[c] <= src.changesSeq
                         /\ src.inval[c] = 0 <=> src.docs[c] = NoDoc
      /\ \A c, e \in Docs :
           src.inval[c] = src.inval[e] => c = e \/ src.inval[c] = 0
      /\ src.changesSeq = 0 \/ \E c \in Docs : src.inval[c] = src.changesSeq
  BY DEF SourceSound, SequencesOwned
<1>3. PICK op, leaf :
        /\ src' = Apply(src, op) /\ NewLeaf(src, op, d, leaf)
        /\ SoundLog(src, op, d)
  BY <1>1, <1>2, EditedByLog
<1>4. op \in OpLog /\ op.id = d
  BY <1>3 DEF SoundLog
<1>5. src.changesSeq < MaxSeq /\ src.changesSeq \in Nat
  <2>1. Bounds[job].source \in 0..MaxSeq
    BY ReplicatorAssumption
  <2> QED
    BY <2>1, DocTxAssumption DEF Buckets
<1>6. src' \in Buckets
  BY <1>2, <1>3, <1>4, <1>5, ApplyInBuckets
<1>7. /\ WithLeaf(src, op, d, src')
      /\ \A c \in Docs \ {d} :
           src'.docs[c] = src.docs[c] /\ src'.leaves[c] = src.leaves[c]
  BY <1>1, <1>3, LogIsWithLeaf DEF NewLeaf
<1>8. /\ KeptAt(src', d) /\ src'.docs[d] # NoDoc
      /\ AtLeast(src'.docs[d].rev, src.docs[d].rev)
  <2>1. src' \in TargetBuckets
    BY <1>6, BucketsAreTargets
  <2> QED
    BY <1>1, <1>2, <1>3, <1>7, <2>1, WithLeafKept DEF NewLeaf
<1>9. \A c \in Docs : KeptAt(src', c)
  BY <1>2, <1>7, <1>8, OthersStayKept
<1>10. \A c \in Docs : SoundAt(src', c)
  <2>1. SoundAt(src', d)
    BY <1>3 DEF SoundLog
  <2>2. \A e \in src.changes : e.seq = op.chg => e.id = op.id
    <3> SUFFICES ASSUME NEW e \in src.changes, e.seq = op.chg
                 PROVE  e.id = d
      BY <1>4
    <3>1. e.id \in Docs /\ e.seq \in 1..MaxSeq
      BY DEF Buckets, Change
    <3>2. e.seq = src.inval[e.id]
      <4>1. e \in {f \in src.changes : f.id = e.id}
        OBVIOUS
      <4>2. IndicesExactAt(src, e.id)
        BY <1>2, <3>1 DEF SoundAt
      <4>3. e \in {[seq |-> src.inval[e.id], id |-> e.id]}
        BY <4>1, <4>2 DEF IndicesExactAt
      <4> QED
        BY <4>3
    <3>3. op.chg # 0
      BY <3>1
    <3>4. op.chg = src.inval[d]
      BY <1>3, <1>4, <3>3 DEF SoundLog, OwnChange
    <3> QED
      BY <1>2, <3>1, <3>2, <3>3, <3>4
  <2>3. \A c \in Docs \ {d} : SoundAt(src', c)
    BY <1>2, <1>3, <1>4, <2>2, OthersStaySound
  <2> QED
    BY <2>1, <2>3
<1>11. SourceMoves(d)
  <2>1. src'.changesSeq \in 0..MaxSeq /\ src'.inval \in [Docs -> 0..MaxSeq]
    BY <1>6 DEF Buckets
  <2>2. CASE op.put = NoDoc
    <3>1. src.changesSeq = src.invalSeq /\ src' = Apply(src, op)
      BY <1>2, <1>3
    <3>2. /\ src'.docs = src.docs /\ src'.inval = src.inval
          /\ src'.changesSeq = src.changesSeq
      BY <1>4, <2>2, <3>1, ApplySequences
    <3> QED
      BY <1>7, <1>8, <2>1, <3>2 DEF SourceMoves
  <2>3. CASE op.put # NoDoc
    <3>3. src.changesSeq = src.invalSeq /\ src' = Apply(src, op)
      BY <1>2, <1>3
    <3>1. /\ src'.changesSeq = src.changesSeq + 1
          /\ src'.inval = [src.inval EXCEPT ![d] = src.changesSeq + 1]
      BY <1>4, <2>3, <3>3, ApplySequences
    <3>2. src.inval \in [Docs -> 0..MaxSeq]
      BY DEF Buckets
    <3> QED
      BY <1>7, <1>8, <2>1, <3>1, <3>2 DEF SourceMoves
  <2> QED
    BY <2>2, <2>3
<1>12. SequencesOwned'
  <2>1. src'.changesSeq = src'.invalSeq
    <3>1. src.changesSeq = src.invalSeq /\ src' = Apply(src, op)
      BY <1>2, <1>3
    <3> QED
      BY <1>4, <3>1, ApplySequences
  <2>2. src.inval \in [Docs -> 0..MaxSeq] /\ 0..MaxSeq \subseteq Nat
    BY DocTxAssumption DEF Buckets
  <2>3. CASE /\ src'.inval = src.inval /\ src'.docs = src.docs
             /\ src'.changesSeq = src.changesSeq
    BY <1>2, <2>1, <2>3 DEF SequencesOwned
  <2>4. CASE /\ src'.changesSeq = src.changesSeq + 1
             /\ src'.inval[d] = src.changesSeq + 1
             /\ src'.docs[d] # NoDoc
    <3>1. \A c \in Docs \ {d} : /\ src'.inval[c] = src.inval[c]
                                /\ src'.docs[c] = src.docs[c]
      BY <1>11 DEF SourceMoves
    <3>2. \A c \in Docs : /\ src'.inval[c] <= src'.changesSeq
                          /\ src'.inval[c] = 0 <=> src'.docs[c] = NoDoc
      BY <1>2, <1>5, <2>2, <2>4, <3>1
    <3>3. \A c, e \in Docs :
           src'.inval[c] = src'.inval[e] => c = e \/ src'.inval[c] = 0
      BY <1>2, <1>5, <2>2, <2>4, <3>1
    <3> QED
      BY <2>1, <2>4, <3>2, <3>3 DEF SequencesOwned
  <2> QED
    BY <1>11, <2>3, <2>4 DEF SourceMoves
<1> QED
  BY <1>6, <1>9, <1>10, <1>11, <1>12 DEF SourceSound

-----------------------------------------------------------------------------
(* The target. *)

LEMMA TargetWritten ==
  ASSUME TargetSound, NeverCut, NEW d \in Docs,
         tgt.docs[d].rev.gen < MaxGen, tgt' \in Edited(tgt, d)
  PROVE  TargetSound' /\ \A c \in Docs : Named(tgt, c) \subseteq Named(tgt', c)
<1>1. tgt \in TargetBuckets /\ \A c \in Docs : KeptAt(tgt, c)
  BY DEF TargetSound
<1>2. PICK op, leaf : tgt' = Apply(tgt, op) /\ NewLeaf(tgt, op, d, leaf)
  BY <1>1, EditedByLog
<1>3. /\ leaf \in StoredDocument /\ Headed(leaf)
      /\ leaf.rev \notin leafRevs(tgt, d) /\ leaf.rev # tgt.docs[d].rev
      /\ AddsLeaf(tgt, op, d, leaf)
      /\ op.dels = {} \/ Named(tgt, d) \subseteq ToSet(leaf.hist)
  BY <1>2 DEF NewLeaf, NeverCut
<1>4. /\ tgt' \in TargetBuckets
      /\ WithLeaf(tgt, op, d, tgt')
      /\ \A c \in Docs \ {d} :
           tgt'.docs[c] = tgt.docs[c] /\ tgt'.leaves[c] = tgt.leaves[c]
  BY <1>1, <1>2, <1>3, LogIsWithLeaf
<1>5. KeptAt(tgt', d)
  BY <1>1, <1>3, <1>4, WithLeafKept
<1>6. Named(tgt, d) \subseteq Named(tgt', d)
  BY <1>1, <1>3, <1>4, EditKeepsNames
<1>7. \A c \in Docs \ {d} : KeptAt(tgt', c) /\ Named(tgt', c) = Named(tgt, c)
  BY <1>1, <1>4, OthersStayKept
<1> QED
  BY <1>4, <1>5, <1>6, <1>7 DEF TargetSound

(***************************************************************************)
(* A batch, document by document.                                          *)
(***************************************************************************)
LEMMA AppliedTwice ==
  ASSUME NEW f \in [Rev -> StoredDocument \cup {NoDoc}], NEW op \in TargetLog
  PROVE  ApplyLeaves(ApplyLeaves(f, op), op) = ApplyLeaves(f, op)
BY DEF ApplyLeaves

\* A batch stored at once.
Stored(b, docs) == Applied(b, Delivery(b, docs))

\* An empty log changes nothing.
LEMMA NothingApplied ==
  ASSUME NEW b \in TargetBuckets, NEW d \in Docs
  PROVE  Apply(b, KeepWinner(d, {}, {})) = b
<1> DEFINE op == KeepWinner(d, {}, {})
<1>1. /\ op.id = d /\ op.put = NoDoc /\ op.puts = {} /\ op.dels = {}
  BY DEF KeepWinner
<1> HIDE DEF op
<1>2. b.leaves \in [Docs -> [Rev -> StoredDocument \cup {NoDoc}]]
  BY DEF TargetBuckets
<1>3. ApplyLeaves(b.leaves[d], op) = b.leaves[d]
  BY <1>1, <1>2 DEF ApplyLeaves
<1>4. [b.leaves EXCEPT ![d] = ApplyLeaves(@, op)] = b.leaves
  BY <1>2, <1>3
<1>5. [b EXCEPT !.leaves[d] = ApplyLeaves(@, op)] = b
  BY <1>4 DEF TargetBuckets
<1> QED
  BY <1>1, <1>5 DEF Apply, op

\* f takes the buckets b through the documents of a batch.
IsStoring(f, b, docs) ==
  /\ f[0] = b
  /\ \A i \in 1..Len(docs) : f[i] = Apply(f[i - 1], Delivery(b, docs)[i])

LEMMA StoredLast ==
  ASSUME NEW b, NEW docs \in Seq([id : Docs, doc : Document])
  PROVE  \E f : IsStoring(f, b, docs) /\ Stored(b, docs) = f[Len(docs)]
<1> DEFINE logs == Delivery(b, docs)
           after[i \in 0..Len(docs)] ==
             IF i = 0 THEN b ELSE Apply(after[i - 1], logs[i])
           S == {n \in Nat : \E f : f = [i \in 0..n |->
                   IF i = 0 THEN b ELSE Apply(f[i - 1], logs[i])]}
<1>0. Len(docs) \in Nat /\ Len(logs) = Len(docs)
  BY DEF Delivery
<1>1. Stored(b, docs) = after[Len(docs)]
  BY <1>0 DEF Stored, Applied
<1> HIDE DEF logs
<1>2. S = Nat
  <2>1. 0 \in S
    <3> DEFINE f == [i \in 0..0 |-> b]
    <3>1. f = [i \in 0..0 |-> IF i = 0 THEN b ELSE Apply(f[i - 1], logs[i])]
      OBVIOUS
    <3> QED
      BY <3>1
  <2>2. ASSUME NEW n \in S
        PROVE  n + 1 \in S
    <3>1. PICK f : f = [i \in 0..n |->
                          IF i = 0 THEN b ELSE Apply(f[i - 1], logs[i])]
      OBVIOUS
    <3> DEFINE g == [i \in 0..(n + 1) |->
                       IF i = 0 THEN b ELSE Apply(f[i - 1], logs[i])]
    <3>2. \A i \in 0..n : g[i] = f[i]
      BY <3>1
    <3>3. \A i \in 0..(n + 1) : i # 0 => i - 1 \in 0..n
      OBVIOUS
    <3>4. g = [i \in 0..(n + 1) |->
                 IF i = 0 THEN b ELSE Apply(g[i - 1], logs[i])]
      BY <3>2, <3>3
    <3> HIDE DEF g
    <3>5. \E h : h = [i \in 0..(n + 1) |->
                      IF i = 0 THEN b ELSE Apply(h[i - 1], logs[i])]
      BY <3>4
    <3>6. n + 1 \in Nat
      OBVIOUS
    <3> QED
      BY <3>5, <3>6
  <2> QED
    BY <2>1, <2>2, SetInduction
<1>3. Len(docs) \in S
  BY <1>0, <1>2
<1>4. after = [i \in 0..Len(docs) |->
                 IF i = 0 THEN b ELSE Apply(after[i - 1], logs[i])]
  BY <1>3
<1> HIDE DEF after
<1>5. after[0] = b
  BY <1>4
<1>6. \A i \in 1..Len(docs) : after[i] = Apply(after[i - 1], logs[i])
  BY <1>4
<1> QED
  BY <1>1, <1>5, <1>6 DEF logs, IsStoring

LEMMA FetchedTyped ==
  ASSUME NEW docs \in Seq([id : Docs, doc : Document])
  PROVE  /\ Len(docs) \in Nat /\ DOMAIN docs = 1..Len(docs)
         /\ \A i \in 1..Len(docs) :
              docs[i].id \in Docs /\ docs[i].doc \in Document
<1> DEFINE T == [id : Docs, doc : Document]
<1>1. docs \in Seq(T)
  OBVIOUS
<1>2. \A t \in T : t.id \in Docs /\ t.doc \in Document
  OBVIOUS
<1> HIDE DEF T
<1>3. /\ Len(docs) \in Nat /\ DOMAIN docs = 1..Len(docs)
      /\ \A i \in 1..Len(docs) : docs[i] \in T
  BY <1>1
<1> QED
  BY <1>2, <1>3

\* What is fetched of one document is the same document.
WellFetched(docs) ==
  /\ docs \in Seq([id : Docs, doc : Document])
  /\ \A i \in 1..Len(docs) : Headed(docs[i].doc)
  /\ \A i, j \in 1..Len(docs) : docs[i].id = docs[j].id => docs[i] = docs[j]

\* The first n documents of a batch for b leave document d alone in x, ...
Skipped(b, docs, d, x, n) ==
  /\ x.docs[d] = b.docs[d] /\ x.leaves[d] = b.leaves[d]
  /\ \A i \in 1..n : docs[i].id = d => docs[i].doc.rev = b.docs[d].rev

\* or one of them is stored.
Added(b, docs, op, d, x, n) ==
  \E i \in 1..n :
    /\ docs[i].id = d /\ docs[i].doc.rev # b.docs[d].rev
    /\ WithLeaf(b, op[i], d, x)

\* x is what b is after n documents of a batch.
Stage(b, docs, op, x, n) ==
  /\ x \in TargetBuckets
  /\ \A d \in Docs : Skipped(b, docs, d, x, n) \/ Added(b, docs, op, d, x, n)

\* Of the first m documents, those with the id of the last are stored alike.
Alike(docs, op, m) ==
  \A i \in 1..m : docs[i].id = docs[m].id => op[i] = op[m]

LEMMA OneMoreStored ==
  ASSUME NEW b \in TargetBuckets, NEW x, NEW docs, NEW op, NEW n \in Nat,
         NEW e \in Docs, docs[n + 1].id = e,
         Alike(docs, op, n + 1),
         docs[n + 1].doc.rev # b.docs[e].rev,
         op[n + 1] \in TargetLog, op[n + 1].id = e,
         Stage(b, docs, op, x, n), NEW y, y = Apply(x, op[n + 1])
  PROVE  Stage(b, docs, op, y, n + 1)
<1>9. /\ x \in TargetBuckets
      /\ \A d \in Docs : Skipped(b, docs, d, x, n) \/ Added(b, docs, op, d, x, n)
  BY DEF Stage
<1> DEFINE o == op[n + 1]
<1>1. o \in TargetLog /\ o.id = e
  OBVIOUS
<1>2. /\ \A i \in 1..(n + 1) : i \in 1..n \/ i = n + 1
      /\ \A i \in 1..n : i \in 1..(n + 1)
      /\ n + 1 \in 1..(n + 1)
  OBVIOUS
<1>3. y = Apply(x, o)
  OBVIOUS
<1> HIDE DEF o
<1>4. /\ y \in TargetBuckets
      /\ y.leaves = [x.leaves EXCEPT ![e] = ApplyLeaves(@, o)]
      /\ y.docs = IF o.put = NoDoc THEN x.docs
                  ELSE [x.docs EXCEPT ![e] = o.put]
  BY <1>1, <1>3, <1>9, TargetApply
<1>5. /\ x.leaves \in [Docs -> [Rev -> StoredDocument \cup {NoDoc}]]
      /\ x.docs \in [Docs -> StoredDocument \cup {NoDoc}]
      /\ b.leaves \in [Docs -> [Rev -> StoredDocument \cup {NoDoc}]]
  BY <1>9 DEF TargetBuckets
<1>6. ASSUME NEW d \in Docs, d # e
      PROVE  Skipped(b, docs, d, y, n + 1) \/ Added(b, docs, op, d, y, n + 1)
  <2>1. y.leaves[d] = x.leaves[d] /\ y.docs[d] = x.docs[d]
    BY <1>4, <1>5, <1>6
  <2>2. CASE Skipped(b, docs, d, x, n)
    BY <1>2, <1>6, <2>1, <2>2 DEF Skipped
  <2>3. CASE Added(b, docs, op, d, x, n)
    BY <1>2, <2>1, <2>3 DEF Added, WithLeaf
  <2> QED
    BY <1>9, <2>2, <2>3
<1>7. WithLeaf(b, o, e, y)
  <2>1. /\ y.leaves[e] = ApplyLeaves(x.leaves[e], o)
        /\ y.docs[e] = IF o.put = NoDoc THEN x.docs[e] ELSE o.put
    BY <1>4, <1>5
  <2>2. CASE Skipped(b, docs, e, x, n)
    BY <2>1, <2>2 DEF WithLeaf, Skipped
  <2>3. CASE Added(b, docs, op, e, x, n)
    <3>1. PICK i \in 1..n : docs[i].id = e /\ WithLeaf(b, op[i], e, x)
      BY <2>3 DEF Added
    <3>2. op[i] = o
      BY <1>2, <3>1 DEF o, Alike
    <3>3. WithLeaf(b, o, e, x)
      BY <3>1, <3>2
    <3>4. b.leaves[e] \in [Rev -> StoredDocument \cup {NoDoc}]
      BY <1>5
    <3>5. y.leaves[e] = ApplyLeaves(b.leaves[e], o)
      BY <1>1, <2>1, <3>3, <3>4, AppliedTwice DEF WithLeaf
    <3> QED
      BY <2>1, <3>3, <3>5 DEF WithLeaf
  <2> QED
    BY <1>9, <2>2, <2>3
<1>8. Added(b, docs, op, e, y, n + 1)
  BY <1>2, <1>7 DEF Added, o
<1> QED
  BY <1>4, <1>6, <1>8 DEF Stage

\* Every document of the target after a batch is the one before, or has one
\* leaf more.
LEMMA BatchByDocument ==
  ASSUME NEW b \in TargetBuckets, \A d \in Docs : KeptAt(b, d),
         NEW docs, WellFetched(docs),
         NEW op, op = [i \in 1..Len(docs) |->
                         PutDocumentForReplication(b, docs[i].id,
                                                   Arriving(docs[i].doc))],
         NEW a, a = Stored(b, docs)
  PROVE  Stage(b, docs, op, a, Len(docs))
<1>1. PICK f : IsStoring(f, b, docs) /\ Stored(b, docs) = f[Len(docs)]
  BY StoredLast DEF WellFetched
<1> DEFINE N == Len(docs)
<1> DEFINE S == {n \in Nat : n <= N => Stage(b, docs, op, f[n], n)}
<1>2. N \in Nat /\ \A i \in 1..N : docs[i].id \in Docs /\ docs[i].doc \in Document
  BY FetchedTyped DEF WellFetched
<1>9. \A i \in 1..N :
        /\ Headed(docs[i].doc)
        /\ op[i] = PutDocumentForReplication(b, docs[i].id, Arriving(docs[i].doc))
  BY DEF WellFetched
<1>10. \A i, j \in 1..N : docs[i].id = docs[j].id => docs[i] = docs[j]
  BY DEF WellFetched
<1> HIDE DEF N
<1>3. ASSUME NEW i \in 1..N, docs[i].doc.rev # b.docs[docs[i].id].rev
      PROVE  op[i] \in TargetLog /\ op[i].id = docs[i].id
  <2> DEFINE d   == docs[i].id
             doc == Arriving(docs[i].doc)
  <2>1. d \in Docs /\ docs[i].doc \in Document /\ Headed(docs[i].doc)
    BY <1>2, <1>9
  <2>2. doc \in StoredDocument /\ doc.rev = docs[i].doc.rev /\ Headed(doc)
    BY <2>1, ArrivingHeaded
  <2>3. op[i] = PutDocumentForReplication(b, d, doc)
    BY <1>9
  <2>4. KeptAt(b, d) /\ doc.rev # b.docs[d].rev
    BY <1>3, <2>1, <2>2
  <2> HIDE DEF d, doc
  <2>5. AddsLeaf(b, op[i], d, doc)
    BY <2>1, <2>2, <2>3, <2>4, DeliveryAddsLeaf
  <2> QED
    BY <2>5 DEF AddsLeaf, d, doc
<1>4. 0 \in S
  BY <1>1 DEF Skipped, Stage, IsStoring
<1>5. ASSUME NEW n \in S, n + 1 <= N
      PROVE  Stage(b, docs, op, f[n + 1], n + 1)
  <2>1. n \in Nat /\ n + 1 \in 1..N /\ (n + 1) - 1 = n /\ n <= N
    BY <1>2, <1>5
  <2>2. Stage(b, docs, op, f[n], n)
    BY <1>5, <2>1
  <2> HIDE DEF S
  <2> DEFINE e == docs[n + 1].id
             r == docs[n + 1].doc.rev
  <2>3. e \in Docs
    BY <1>2, <2>1
  <2>4. /\ r = b.docs[e].rev => f[n + 1] = f[n]
        /\ r # b.docs[e].rev => f[n + 1] = Apply(f[n], op[n + 1])
    <3>1. f[n + 1] = Apply(f[n], Delivery(b, docs)[n + 1])
      BY <1>1, <2>1 DEF N, IsStoring
    <3>2. n + 1 \in DOMAIN docs
      BY <2>1, FetchedTyped DEF N, WellFetched
    <3>3. /\ r = b.docs[e].rev =>
               Delivery(b, docs)[n + 1] = KeepWinner(e, {}, {})
          /\ r # b.docs[e].rev => Delivery(b, docs)[n + 1] = op[n + 1]
      BY <1>9, <2>1, <3>2 DEF Delivery
    <3>4. Apply(f[n], KeepWinner(e, {}, {})) = f[n]
      BY <2>2, <2>3, NothingApplied DEF Stage
    <3> QED
      BY <3>1, <3>3, <3>4
  <2>5. CASE r = b.docs[e].rev
    <3>1. f[n + 1] = f[n]
      BY <2>4, <2>5
    <3>2. \A i \in 1..(n + 1) : i \in 1..n \/ i = n + 1
      BY <2>1
    <3>3. \A i \in 1..n : i \in 1..(n + 1)
      BY <2>1
    <3>4. ASSUME NEW d \in Docs
          PROVE  \/ Skipped(b, docs, d, f[n], n + 1)
                 \/ Added(b, docs, op, d, f[n], n + 1)
      <4>1. CASE Skipped(b, docs, d, f[n], n)
        BY <2>5, <3>2, <4>1 DEF Skipped
      <4>2. CASE Added(b, docs, op, d, f[n], n)
        BY <3>3, <4>2 DEF Added
      <4> QED
        BY <2>2, <4>1, <4>2 DEF Stage
    <3> QED
      BY <2>2, <3>1, <3>4 DEF Stage
  <2>6. CASE r # b.docs[e].rev
    <3>1. op[n + 1] \in TargetLog /\ op[n + 1].id = e
      BY <1>3, <2>1, <2>6
    <3>2. f[n + 1] = Apply(f[n], op[n + 1])
      BY <2>4, <2>6
    <3>3. \A i \in 1..(n + 1) : i \in 1..N
      BY <1>2, <2>1
    <3>4. Alike(docs, op, n + 1)
      <4> SUFFICES ASSUME NEW i \in 1..(n + 1), docs[i].id = docs[n + 1].id
                   PROVE  op[i] = op[n + 1]
        BY DEF Alike
      <4>1. docs[i] = docs[n + 1]
        BY <1>10, <2>1, <3>3
      <4> QED
        BY <1>9, <2>1, <3>3, <4>1
    <3>6. docs[n + 1].doc.rev # b.docs[e].rev
      BY <2>6
    <3> QED
      BY <2>1, <2>2, <2>3, <3>1, <3>2, <3>4, <3>6, OneMoreStored
  <2> QED
    BY <2>5, <2>6
<1>6. ASSUME NEW n \in S
      PROVE  n + 1 \in S
  <2>1. n \in Nat
    OBVIOUS
  <2> QED
    BY <1>5, <2>1
<1>7. N \in S
  <2> HIDE DEF S
  <2>1. S \in SUBSET Nat
    BY DEF S
  <2>2. S = Nat
    BY <1>4, <1>6, <2>1, SetInduction
  <2> QED
    BY <1>2, <2>2
<1>8. Stage(b, docs, op, f[N], N)
  BY <1>2, <1>7
<1> QED
  BY <1>1, <1>8 DEF N

LEMMA BatchStored ==
  ASSUME NEW b \in TargetBuckets, \A d \in Docs : KeptAt(b, d),
         NEW docs, WellFetched(docs),
         NEW a, a = Stored(b, docs)
  PROVE  /\ a \in TargetBuckets
         /\ \A d \in Docs :
              /\ KeptAt(a, d)
              /\ \A i \in 1..Len(docs) :
                   docs[i].id = d => docs[i].doc.rev \in Named(a, d)
              /\ \A c \in Rev :
                   /\ c \in Named(b, d)
                   /\ \A i \in 1..Len(docs) :
                        docs[i].id = d => AtLeast(c, docs[i].doc.rev)
                   => c \in Named(a, d)
<1> PICK op : op = [i \in 1..Len(docs) |->
                      PutDocumentForReplication(b, docs[i].id,
                                                Arriving(docs[i].doc))]
  OBVIOUS
<1>1. /\ a \in TargetBuckets
      /\ \A d \in Docs : \/ Skipped(b, docs, d, a, Len(docs))
                         \/ Added(b, docs, op, d, a, Len(docs))
  BY BatchByDocument DEF Stage
<1> DEFINE N == Len(docs)
<1>2. \A i \in 1..N : docs[i].id \in Docs /\ docs[i].doc \in Document
  BY FetchedTyped DEF WellFetched
<1>9. \A i \in 1..N :
        /\ Headed(docs[i].doc)
        /\ op[i] = PutDocumentForReplication(b, docs[i].id, Arriving(docs[i].doc))
  BY DEF WellFetched
<1>10. \A i, j \in 1..N : docs[i].id = docs[j].id => docs[i] = docs[j]
  BY DEF WellFetched
<1> HIDE DEF N
<1> SUFFICES ASSUME NEW d \in Docs
             PROVE  /\ KeptAt(a, d)
                    /\ \A i \in 1..N :
                         docs[i].id = d => docs[i].doc.rev \in Named(a, d)
                    /\ \A c \in Rev :
                         /\ c \in Named(b, d)
                         /\ \A i \in 1..N :
                              docs[i].id = d => AtLeast(c, docs[i].doc.rev)
                         => c \in Named(a, d)
  BY <1>1 DEF N
<1>3. CASE Skipped(b, docs, d, a, N)
  <2>1. KeptAt(a, d) /\ Named(a, d) = Named(b, d)
    BY <1>3, OthersStayKept DEF Skipped
  <2>2. ASSUME NEW i \in 1..N, docs[i].id = d
        PROVE  docs[i].doc.rev \in Named(a, d)
    <3> DEFINE doc == b.docs[d]
    <3>1. docs[i].doc.rev = doc.rev /\ docs[i].doc.rev \in Rev
      BY <1>2, <1>3, <2>2, DocIsNotNil DEF Skipped
    <3>2. doc # NoDoc
      BY <3>1, NilDocument, RevFields
    <3>3. /\ doc.rev \in leafRevs(b, d) /\ b.leaves[d][doc.rev] = doc
          /\ Headed(b.leaves[d][doc.rev])
      BY <3>2 DEF KeptAt
    <3>4. doc \in StoredDocument
      BY <3>3, StoredLeaf
    <3> HIDE DEF doc
    <3>5. doc.rev \in ToSet(doc.hist)
      BY <3>3, <3>4, HeadedNames
    <3>6. doc.rev \in Named(b, d)
      BY <3>3, <3>5 DEF Named
    <3> QED
      BY <2>1, <3>1, <3>6
  <2> QED
    BY <2>1, <2>2
<1>4. CASE Added(b, docs, op, d, a, N)
  <2>1. PICK i \in 1..N :
                /\ docs[i].id = d /\ docs[i].doc.rev # b.docs[d].rev
                /\ WithLeaf(b, op[i], d, a)
    BY <1>4 DEF Added
  <2> DEFINE leaf == Arriving(docs[i].doc)
             o == op[i]
  <2>2. leaf \in StoredDocument /\ leaf.rev = docs[i].doc.rev /\ Headed(leaf)
    BY <1>2, <1>9, ArrivingHeaded
  <2>3. o = PutDocumentForReplication(b, d, leaf)
    BY <1>9, <2>1
  <2>4. leaf.rev # b.docs[d].rev /\ WithLeaf(b, o, d, a) /\ KeptAt(b, d)
    BY <2>1, <2>2
  <2>7. \A j \in 1..N : docs[j].id = d => docs[j].doc.rev = leaf.rev
    BY <1>10, <2>1, <2>2
  <2> HIDE DEF leaf, o
  <2>5. AddsLeaf(b, o, d, leaf)
    BY <2>2, <2>3, <2>4, DeliveryAddsLeaf
  <2>6. KeptAt(a, d) /\ leaf.rev \in Named(a, d)
    BY <1>1, <2>2, <2>4, <2>5, WithLeafKept
  <2>8. ASSUME NEW c \in Rev, c \in Named(b, d), AtLeast(c, leaf.rev)
        PROVE  c \in Named(a, d)
    BY <1>1, <2>2, <2>4, <2>5, <2>8, DeliveryKeepsNames
  <2> QED
    BY <2>1, <2>2, <2>6, <2>7, <2>8
<1> QED
  BY <1>1, <1>3, <1>4 DEF N

-----------------------------------------------------------------------------
(* What is fetched. *)

LEMMA FlattenCovers ==
  ASSUME NEW S, NEW n \in Nat, NEW s \in [1..n -> Seq(S)]
  PROVE  /\ FlattenSeq(s) \in Seq(S)
         /\ ToSet(FlattenSeq(s)) = UNION {ToSet(s[i]) : i \in 1..n}
<1>0. s \in Seq(Seq(S)) /\ Len(s) = n
  OBVIOUS
<1>1. CASE n = 0
  <2>1. FlattenSeq(s) = s /\ s = <<>>
    BY <1>0, <1>1 DEF FlattenSeq
  <2>2. ToSet(<<>>) = {}
    BY DEF ToSet
  <2>3. UNION {ToSet(s[i]) : i \in 1..n} = {}
    BY <1>1
  <2> QED
    BY <2>1, <2>2, <2>3
<1>2. CASE n # 0
  <2> DEFINE flatten[i \in 1..Len(s)] ==
               IF i = 1 THEN s[i] ELSE flatten[i - 1] \o s[i]
             T == {m \in Nat : \E f : f = [i \in 1..m |->
                     IF i = 1 THEN s[i] ELSE f[i - 1] \o s[i]]}
             Upto(m) == UNION {ToSet(s[i]) : i \in 1..m}
             U == {m \in Nat : m + 1 <= n =>
                     /\ flatten[m + 1] \in Seq(S)
                     /\ ToSet(flatten[m + 1]) = Upto(m + 1)}
  <2>1. FlattenSeq(s) = flatten[n]
    BY <1>0, <1>2 DEF FlattenSeq
  <2>2. T = Nat
    <3> HIDE DEF flatten, U, Upto
    <3>1. 0 \in T
      <4> DEFINE f == [i \in 1..0 |-> <<>>]
      <4>1. f = [i \in 1..0 |-> IF i = 1 THEN s[i] ELSE f[i - 1] \o s[i]]
        OBVIOUS
      <4> QED
        BY <4>1
    <3>2. ASSUME NEW m \in T
          PROVE  m + 1 \in T
      <4>1. PICK f : f = [i \in 1..m |-> IF i = 1 THEN s[i] ELSE f[i - 1] \o s[i]]
        OBVIOUS
      <4> DEFINE g == [i \in 1..(m + 1) |->
                         IF i = 1 THEN s[i] ELSE f[i - 1] \o s[i]]
      <4>5. m \in Nat
        OBVIOUS
      <4> HIDE DEF T
      <4>2. \A i \in 1..m : g[i] = f[i]
        <5>1. \A i \in 1..m : i \in 1..(m + 1)
          BY <4>5
        <5>2. \A i \in 1..(m + 1) : g[i] = IF i = 1 THEN s[i] ELSE f[i - 1] \o s[i]
          OBVIOUS
        <5>3. \A i \in 1..m : f[i] = IF i = 1 THEN s[i] ELSE f[i - 1] \o s[i]
          BY <4>1
        <5> QED
          BY <5>1, <5>2, <5>3
      <4>3. \A i \in 1..(m + 1) : i # 1 => i - 1 \in 1..m
        BY <4>5
      <4>4. g = [i \in 1..(m + 1) |->
                   IF i = 1 THEN s[i] ELSE g[i - 1] \o s[i]]
        BY <4>2, <4>3
      <4> HIDE DEF g
      <4>6. \E h : h = [i \in 1..(m + 1) |->
                          IF i = 1 THEN s[i] ELSE h[i - 1] \o s[i]]
        BY <4>4
      <4>7. m + 1 \in Nat
        BY <4>5
      <4> QED
        BY <4>6, <4>7, Zenon DEF T
    <3> QED
      BY <3>1, <3>2, SetInduction
  <2>3. flatten = [i \in 1..Len(s) |->
                     IF i = 1 THEN s[i] ELSE flatten[i - 1] \o s[i]]
    <3>1. Len(s) \in T
      BY <1>0, <2>2
    <3> QED
      BY <3>1
  <2> HIDE DEF flatten
  <2>4. flatten[1] = s[1]
    BY <1>0, <1>2, <2>3
  <2>5. \A i \in 1..n : i # 1 => flatten[i] = flatten[i - 1] \o s[i]
    BY <1>0, <2>3
  <2>6. \A m \in Nat : Upto(m + 1) = Upto(m) \cup ToSet(s[m + 1])
    <3> SUFFICES ASSUME NEW m \in Nat
                 PROVE  Upto(m + 1) = Upto(m) \cup ToSet(s[m + 1])
      OBVIOUS
    <3>1. \A i : i \in 1..(m + 1) <=> i \in 1..m \/ i = m + 1
      OBVIOUS
    <3> QED
      BY <3>1
  <2>7. 0 \in U
    <3>1. Upto(1) = ToSet(s[1])
      <4>1. 1..1 = {1}
        OBVIOUS
      <4> QED
        BY <4>1
    <3>2. 0 + 1 <= n => s[1] \in Seq(S)
      OBVIOUS
    <3> QED
      BY <2>4, <3>1, <3>2
  <2>8. ASSUME NEW m \in U
        PROVE  m + 1 \in U
    <3> SUFFICES ASSUME m + 2 <= n
                 PROVE  /\ flatten[m + 2] \in Seq(S)
                        /\ ToSet(flatten[m + 2]) = Upto(m + 2)
      <4>1. m + 1 \in Nat /\ (m + 1) + 1 = m + 2
        OBVIOUS
      <4> HIDE DEF Upto
      <4> QED
        BY <4>1
    <3>1. flatten[m + 1] \in Seq(S) /\ ToSet(flatten[m + 1]) = Upto(m + 1)
      OBVIOUS
    <3>2. Upto(m + 2) = Upto(m + 1) \cup ToSet(s[m + 2])
      <4>1. m + 1 \in Nat /\ (m + 1) + 1 = m + 2
        OBVIOUS
      <4> HIDE DEF Upto, U
      <4> QED
        BY <2>6, <4>1
    <3>3. flatten[m + 2] = flatten[m + 1] \o s[m + 2]
      <4>1. m + 2 \in 1..n /\ m + 2 # 1 /\ (m + 2) - 1 = m + 1
        OBVIOUS
      <4> QED
        BY <2>5, <4>1
    <3>4. s[m + 2] \in Seq(S)
      OBVIOUS
    <3> DEFINE p == flatten[m + 1]
               q == s[m + 2]
    <3> HIDE DEF Upto, U, p, q
    <3>5. p \in Seq(S) /\ q \in Seq(S)
      BY <3>1, <3>4 DEF p, q
    <3>6. p \o q \in Seq(S) /\ ToSet(p \o q) = ToSet(p) \cup ToSet(q)
      BY <3>5, ConcatToSet
    <3> QED
      BY <3>1, <3>2, <3>3, <3>6 DEF p, q
  <2>9. U = Nat
    <3>1. U \in SUBSET Nat
      OBVIOUS
    <3> HIDE DEF U
    <3> QED
      BY <2>7, <2>8, <3>1, SetInduction
  <2>10. n - 1 \in U /\ (n - 1) + 1 = n /\ n <= n
    <3> HIDE DEF U
    <3> QED
      BY <1>2, <2>9
  <2>11. flatten[n] \in Seq(S) /\ ToSet(flatten[n]) = Upto(n)
    <3> HIDE DEF Upto
    <3> QED
      BY <2>10
  <2> QED
    BY <2>1, <2>11
<1> QED
  BY <1>1, <1>2

LEMMA FetchedOfOne ==
  ASSUME src \in Buckets, NEW d \in Docs, src.docs[d] # NoDoc,
         NEW revs \in SUBSET Rev, revs # {},
         NEW f, f = [id |-> d, doc |-> GetDocument(src, d)]
  PROVE  /\ Fetched(d, revs) \in Seq([id : Docs, doc : Document])
         /\ ToSet(Fetched(d, revs)) = {f}
<1> DEFINE k == IF job.source = "http" THEN Cardinality(revs) ELSE 1
           s == Fetched(d, revs)
           T == [id : Docs, doc : Document]
<1>1. k \in Nat /\ k >= 1
  <2>1. IsFiniteSet(revs)
    BY RevFinite, FS_Subset
  <2>2. Cardinality(revs) \in Nat /\ Cardinality(revs) # 0
    BY <2>1, FS_CardinalityType, FS_EmptySet
  <2> QED
    BY <2>2
<1>2. GetDocument(src, d) \in Document
  BY GetDocumentType
<1>3. f \in T
  BY <1>2
<1>4. s = [i \in 1..k |-> f]
  BY DEF Fetched
<1> HIDE DEF k, s, T
<1>5. s \in [1..k -> T]
  BY <1>3, <1>4
<1>6. s \in Seq(T) /\ DOMAIN s = 1..k
  BY <1>1, <1>5
<1>7. ToSet(s) = {f}
  <2>1. 1 \in 1..k /\ \A i \in 1..k : s[i] = f
    BY <1>1, <1>4
  <2> QED
    BY <1>6, <2>1 DEF ToSet
<1> QED
  BY <1>6, <1>7 DEF s, T

LEMMA BatchFetched ==
  ASSUME src \in Buckets,
         NEW ids \in SUBSET Docs, IsFiniteSet(ids),
         NEW page \in [Docs -> SUBSET Rev],
         \A d \in ids : page[d] # {} /\ src.docs[d] # NoDoc,
         NEW docs, docs = FlattenSeq([i \in 1..Cardinality(ids) |->
                            LET d == SetToSeq(ids)[i]
                            IN  Fetched(d, page[d])])
  PROVE  /\ docs \in Seq([id : Docs, doc : Document])
         /\ ToSet(docs) = {[id |-> d, doc |-> GetDocument(src, d)] : d \in ids}
<1> DEFINE n == Cardinality(ids)
           q == SetToSeq(ids)
           T == [id : Docs, doc : Document]
           F(d) == [id |-> d, doc |-> GetDocument(src, d)]
           s == [i \in 1..n |-> Fetched(q[i], page[q[i]])]
<1>1. n \in Nat
  BY FS_CardinalityType
<1>2. q \in Seq(ids) /\ ToSet(q) = ids /\ Len(q) = n
  <2>1. q \in [1..n -> ids]
    <3>1. PICK m \in Nat : ExistsBijection(1..m, ids)
      BY FS_NatBijection
    <3>2. n = m
      BY <3>1, FS_CountingElements
    <3>3. \E f \in [1..m -> ids] : IsInjective(f)
      BY <3>1 DEF ExistsBijection, Bijection, Injection
    <3> QED
      BY <3>2, <3>3 DEF SetToSeq
  <2> QED
    BY <1>1, <2>1, SetToSeqCovers
<1> HIDE DEF q, n
<1>3. \A i \in 1..n : q[i] \in ids
  BY <1>1, <1>2
<1>4. \A d \in ids : /\ Fetched(d, page[d]) \in Seq(T)
                     /\ ToSet(Fetched(d, page[d])) = {F(d)}
  BY FetchedOfOne
<1>5. \A d \in ids : \E i \in 1..n : q[i] = d
  BY <1>2, SeqToSet
<1> HIDE DEF T
<1>6. s \in [1..n -> Seq(T)]
  BY <1>3, <1>4
<1>7. docs = FlattenSeq(s)
  BY DEF n, q
<1>8. \A i \in 1..n : ToSet(s[i]) = {F(q[i])}
  BY <1>3, <1>4
<1> HIDE DEF s, F
<1>9. docs \in Seq(T) /\ ToSet(docs) = UNION {ToSet(s[i]) : i \in 1..n}
  BY <1>1, <1>6, <1>7, FlattenCovers
<1>10. ToSet(docs) = {F(d) : d \in ids}
  <2>1. ASSUME NEW x \in ToSet(docs)
        PROVE  x \in {F(d) : d \in ids}
    <3>1. PICK i \in 1..n : x \in ToSet(s[i])
      BY <1>9, <2>1
    <3>2. x = F(q[i]) /\ q[i] \in ids
      BY <1>3, <1>8, <3>1
    <3> QED
      BY <3>2
  <2>2. ASSUME NEW d \in ids
        PROVE  F(d) \in ToSet(docs)
    <3>1. PICK i \in 1..n : q[i] = d
      BY <1>5
    <3>2. F(d) \in ToSet(s[i])
      BY <1>8, <3>1
    <3> QED
      BY <1>9, <3>2
  <2> QED
    BY <2>1, <2>2
<1> QED
  BY <1>9, <1>10 DEF T, F

LEMMA FetchedAsStored ==
  ASSUME src \in Buckets, SourceSound, NEW d \in Docs, src.docs[d] # NoDoc
  PROVE  /\ GetDocument(src, d).rev = src.docs[d].rev
         /\ Headed(GetDocument(src, d))
<1>1. src \in TargetBuckets /\ KeptAt(src, d)
  BY BucketsAreTargets DEF SourceSound
<1> QED
  BY <1>1, GetDocumentNames

-----------------------------------------------------------------------------
(* What the target has of the source. *)

LEMMA HasCurrentNamed ==
  ASSUME src \in Buckets, TargetSound, NEW d \in Docs
  PROVE  HasCurrent(d) <=>
           src.docs[d] = NoDoc \/ src.docs[d].rev \in Named(tgt, d)
<1>1. CASE src.docs[d] = NoDoc
  BY <1>1 DEF HasCurrent
<1>2. CASE src.docs[d] # NoDoc
  <2>1. src.docs[d].rev \in Rev
    BY <1>2, DocIsNotNil DEF Buckets
  <2>2. tgt \in TargetBuckets /\ KeptAt(tgt, d)
    BY DEF TargetSound
  <2>3. HasRevision(GetDocument(tgt, d), src.docs[d].rev) <=>
          src.docs[d].rev \in Named(tgt, d)
    BY <2>1, <2>2, HasRevisionNamed
  <2> QED
    BY <1>2, <2>3 DEF HasCurrent
<1> QED
  BY <1>1, <1>2

\* What the target has stays.
Keeps == \A d \in Docs : HasCurrent(d) => HasCurrent(d)'

LEMMA SafeAtStart ==
  ASSUME src \in Buckets, SourceSound, NEW s \in {Empty, Start}
  PROVE  Safe(s)
<1> SUFFICES ASSUME NEW d \in Docs, src.inval[d] <= s
             PROVE  HasCurrent(d)
  BY DEF Safe
<1>1. /\ src.inval[d] \in 0..MaxSeq
      /\ src.inval[d] = 0 <=> src.docs[d] = NoDoc
  BY DEF Buckets, SourceSound, SequencesOwned
<1>2. src.inval[d] = 0
  BY <1>1, DocTxAssumption DEF Empty, Start
<1> QED
  BY <1>1, <1>2 DEF HasCurrent

LEMMA SafeStays ==
  ASSUME Keeps, src' = src
  PROVE  \A s : Safe(s) => Safe(s)'
BY DEF Keeps, Safe

\* The source's entries are where its documents are.
LEMMA SourceFeed ==
  ASSUME src \in Buckets, SourceSound
  PROVE  /\ \A e, f \in src.changes : e.seq = f.seq => e = f
         /\ \A e \in src.changes : /\ e.id \in Docs /\ src.docs[e.id] # NoDoc
                                   /\ src.inval[e.id] = e.seq
                                   /\ e.seq \in 1..MaxSeq
         /\ \A d \in Docs : src.docs[d] # NoDoc =>
              [seq |-> src.inval[d], id |-> d] \in src.changes
         /\ src.changesSeq \in Nat
         /\ \A d \in Docs : src.inval[d] \in Nat /\ src.inval[d] <= src.changesSeq
<1>1. \A e \in src.changes : e \in Change
  BY DEF Buckets
<1>2. \A d \in Docs :
        {e \in src.changes : e.id = d} =
          IF src.docs[d] = NoDoc THEN {} ELSE {[seq |-> src.inval[d], id |-> d]}
  BY DEF SourceSound, SoundAt, IndicesExactAt
<1>3. \A e \in src.changes : /\ e.id \in Docs /\ src.docs[e.id] # NoDoc
                             /\ e = [seq |-> src.inval[e.id], id |-> e.id]
                             /\ e.seq \in 1..MaxSeq
  <2> SUFFICES ASSUME NEW e \in src.changes
               PROVE  /\ e.id \in Docs /\ src.docs[e.id] # NoDoc
                      /\ e = [seq |-> src.inval[e.id], id |-> e.id]
                      /\ e.seq \in 1..MaxSeq
    OBVIOUS
  <2>1. e.id \in Docs /\ e.seq \in 1..MaxSeq
    BY <1>1 DEF Change
  <2>2. e \in {f \in src.changes : f.id = e.id}
    OBVIOUS
  <2> QED
    BY <1>2, <2>1, <2>2
<1>4. \A c, d \in Docs : src.inval[c] = src.inval[d] => c = d \/ src.inval[c] = 0
  BY DEF SourceSound, SequencesOwned
<1>5. \A e, f \in src.changes : e.seq = f.seq => e = f
  BY <1>3, <1>4
<1>6. \A d \in Docs : src.docs[d] # NoDoc =>
        [seq |-> src.inval[d], id |-> d] \in src.changes
  BY <1>2
<1>7. /\ src.changesSeq \in Nat
      /\ \A d \in Docs : src.inval[d] \in Nat /\ src.inval[d] <= src.changesSeq
  BY DocTxAssumption DEF Buckets, SourceSound, SequencesOwned
<1>8. \A e \in src.changes : src.inval[e.id] = e.seq
  BY <1>3
<1> QED
  BY <1>3, <1>5, <1>6, <1>7, <1>8

-----------------------------------------------------------------------------
(* The invariant, in parts. *)

LEMMA PositionsAreNumbers ==
  /\ FeedPosition \subseteq Int /\ Empty \in Int /\ Empty < 0 /\ Empty \in FeedPosition
  /\ 0..MaxSeq \subseteq FeedPosition /\ Start \in FeedPosition
BY DocTxAssumption DEF FeedPosition, Empty, Start

LEMMA RunTyped ==
  ASSUME ReplicatorTypeOK
  PROVE  /\ run.at \in Steps /\ run.session \in 0..MaxSessions
         /\ run.since \in FeedPosition /\ run.last \in FeedPosition
         /\ run.page \in [Docs -> SUBSET Rev] /\ run.pending \in Nat
         /\ run.docs \in Seq([id : Docs, doc : Document])
         /\ run.quiet \in BOOLEAN
         /\ run = [at |-> run.at, session |-> run.session, since |-> run.since,
                   page |-> run.page, last |-> run.last,
                   pending |-> run.pending, docs |-> run.docs,
                   quiet |-> run.quiet]
BY DEF ReplicatorTypeOK, Run

LEMMA CheckpointsTyped ==
  ASSUME ReplicatorTypeOK, NEW p \in {"source", "target"}
  PROVE  /\ DOMAIN cp = {"source", "target"}
         /\ cp[p] \in Checkpoint \cup {NoCheckpoint}
         /\ cp[p].session \in 0..MaxSessions
         /\ cp[p].seq \in FeedPosition
         /\ cp[p].recorded \in [Sessions -> FeedPosition]
         /\ cp[p].session \notin Sessions => cp[p] = NoCheckpoint
<1>1. /\ cp[p] \in Checkpoint \cup {NoCheckpoint}
      /\ DOMAIN cp = {"source", "target"}
  BY DEF ReplicatorTypeOK
<1>2. MaxSessions \in Nat /\ MaxSessions >= 1
  BY ReplicatorAssumption
<1>3. 0..MaxSeq \subseteq FeedPosition /\ Empty \in FeedPosition
  BY PositionsAreNumbers
<1>4. CASE cp[p] = NoCheckpoint
  BY <1>1, <1>2, <1>3, <1>4 DEF NoCheckpoint
<1>5. CASE cp[p] \in Checkpoint
  BY <1>1, <1>2, <1>3, <1>5 DEF Checkpoint, Sessions
<1> QED
  BY <1>1, <1>4, <1>5

\* A client's transaction at the source, at once.
SourceEdit(d) ==
  /\ src.changesSeq < Bounds[job].source
  /\ src.docs[d].rev.gen < MaxGen
  /\ src' \in Edited(src, d)
  /\ run' = [run EXCEPT !.quiet = FALSE]
  /\ UNCHANGED <<job, tgt, cp, env, gap>>

LEMMA SourceEditKeepsSafe ==
  ASSUME src \in Buckets, SourceSound, NEW d \in Docs, SourceMoves(d),
         tgt' = tgt, NEW s \in Int, s <= src.changesSeq, Safe(s)
  PROVE  Safe(s)'
<1> SUFFICES ASSUME NEW c \in Docs, src'.inval[c] <= s
             PROVE  HasCurrent(c)'
  BY DEF Safe
<1>1. src.changesSeq \in Nat
  BY SourceFeed
<1>2. src'.inval[c] = src.inval[c] /\ src'.docs[c] = src.docs[c]
  <2>1. ~(src'.inval[c] = src.changesSeq + 1)
    BY <1>1
  <2> QED
    BY <2>1 DEF SourceMoves
<1>3. HasCurrent(c)
  BY <1>2 DEF Safe
<1> QED
  BY <1>2, <1>3 DEF HasCurrent

LEMMA SourceEditKeeps ==
  ASSUME JobInv, NEW d \in Docs, SourceEdit(d)
  PROVE  JobInv'
<1>1. /\ ReplicatorTypeOK /\ SourceSound /\ TargetSound /\ FetchedSound
      /\ CheckpointsSound /\ src \in Buckets /\ job \in Jobs
  BY DEF JobInv, ReplicatorTypeOK
<1>2. /\ src' \in Edited(src, d) /\ run' = [run EXCEPT !.quiet = FALSE]
      /\ src.changesSeq < Bounds[job].source /\ src.docs[d].rev.gen < MaxGen
      /\ job' = job /\ tgt' = tgt /\ cp' = cp /\ env' = env /\ gap' = gap
  BY DEF SourceEdit
<1>3. src' \in Buckets /\ SourceSound' /\ SourceMoves(d)
  BY <1>1, <1>2, SourceWritten
<1>4. /\ run' \in Run /\ run'.at = run.at /\ run'.session = run.session
      /\ run'.since = run.since /\ run'.last = run.last
      /\ run'.page = run.page /\ run'.docs = run.docs /\ run'.quiet = FALSE
      /\ run'.pending = run.pending
  BY <1>1, <1>2 DEF ReplicatorTypeOK, Run
<1>5. \A s \in Int : s <= src.changesSeq /\ Safe(s) => Safe(s)'
  BY <1>1, <1>2, <1>3, SourceEditKeepsSafe
<1>6. src.changesSeq <= src'.changesSeq /\ src.changesSeq \in Nat
      /\ src'.changesSeq \in Nat
  BY <1>1, <1>3, SourceFeed DEF SourceMoves
<1>7. ReplicatorTypeOK'
  BY <1>1, <1>2, <1>3, <1>4 DEF ReplicatorTypeOK, Env
<1>8. TargetSound'
  BY <1>1, <1>2 DEF TargetSound
<1>9. FetchedSound'
  <2>1. \A c \in Docs : src.docs[c] # NoDoc =>
          src'.docs[c] # NoDoc /\ AtLeast(src'.docs[c].rev, src.docs[c].rev)
    BY <1>3 DEF SourceMoves, AtLeast
  <2>2. ASSUME NEW i \in DOMAIN run.docs
        PROVE  LET f == run.docs[i]
               IN  /\ src'.docs[f.id] # NoDoc
                   /\ AtLeast(src'.docs[f.id].rev, f.doc.rev)
                   /\ Headed(f.doc)
    <3> DEFINE f == run.docs[i]
    <3>1. f.id \in Docs /\ f.doc \in Document
      <4>1. run.docs \in Seq([id : Docs, doc : Document])
        BY <1>1, RunTyped
      <4> QED
        BY <4>1, FetchedTyped
    <3>2. /\ src.docs[f.id] # NoDoc /\ AtLeast(src.docs[f.id].rev, f.doc.rev)
          /\ Headed(f.doc)
      BY <1>1 DEF FetchedSound
    <3> HIDE DEF f
    <3>3. /\ src'.docs[f.id] # NoDoc
          /\ AtLeast(src'.docs[f.id].rev, src.docs[f.id].rev)
      BY <2>1, <3>1, <3>2
    <3>4. /\ src'.docs[f.id].rev \in Rev /\ src.docs[f.id].rev \in Rev
          /\ f.doc.rev \in Rev
      BY <1>1, <1>3, <3>1, <3>2, <3>3, DocIsNotNil DEF Buckets
    <3>5. AtLeast(src'.docs[f.id].rev, f.doc.rev)
      BY <3>2, <3>3, <3>4, RevLessTransitive DEF AtLeast
    <3> QED
      BY <3>2, <3>3, <3>5 DEF f
  <2>3. \A c \in Docs : run'.page[c] # {} => src'.docs[c] # NoDoc
    BY <1>1, <1>4, <2>1 DEF FetchedSound
  <2>4. /\ \A i, j \in DOMAIN run.docs :
             run.docs[i].id = run.docs[j].id => run.docs[i] = run.docs[j]
        /\ IsFiniteSet({c \in Docs : run.page[c] # {}})
    BY <1>1 DEF FetchedSound
  <2> QED
    BY <1>4, <2>2, <2>3, <2>4 DEF FetchedSound
<1>10. CheckpointsSound'
  <2>1. run.since \in Int /\ run.last \in Int
    BY <1>1, RunTyped, PositionsAreNumbers
  <2>2. run'.since <= src'.changesSeq /\ run'.last <= src'.changesSeq
    BY <1>1, <1>4, <1>6, <2>1 DEF CheckpointsSound
  <2>3. ASSUME NEW p \in {"source", "target"}
        PROVE  /\ cp[p].seq <= src'.changesSeq
               /\ \A i \in Sessions : cp[p].recorded[i] <= src'.changesSeq
    <3>1. /\ cp[p].seq \in Int
          /\ \A i \in Sessions : cp[p].recorded[i] \in Int
      BY <1>1, CheckpointsTyped, PositionsAreNumbers
    <3>2. /\ cp[p].seq <= src.changesSeq
          /\ \A i \in Sessions : cp[p].recorded[i] <= src.changesSeq
      BY <1>1 DEF CheckpointsSound
    <3> QED
      BY <1>6, <3>1, <3>2
  <2>4. InSession' <=> InSession
    BY <1>4 DEF InSession
  <2> QED
    BY <1>1, <1>2, <1>4, <2>2, <2>3, <2>4 DEF CheckpointsSound, At
<1>11. ASSUME ~gap
       PROVE  ResumesSafely' /\ (env.exists => RunsSafely')
  <2>1. ResumesSafely /\ (env.exists => RunsSafely)
    BY <1>11 DEF JobInv
  <2>2. /\ \A p \in {"source", "target"} :
             /\ cp[p].seq \in Int /\ cp[p].seq <= src.changesSeq
             /\ \A i \in Sessions : /\ cp[p].recorded[i] \in Int
                                    /\ cp[p].recorded[i] <= src.changesSeq
        /\ run.since \in Int /\ run.since <= src.changesSeq
    BY <1>1, CheckpointsTyped, PositionsAreNumbers, RunTyped
       DEF CheckpointsSound
  <2>3. ResumesSafely'
    <3>1. \A i \in Common(cp.source, cp.target) : i \in Sessions
      BY DEF Common
    <3> QED
      BY <1>2, <1>5, <2>1, <2>2, <3>1 DEF ResumesSafely
  <2>4. ASSUME env.exists
        PROVE  RunsSafely'
    <3>1. RunsSafely
      BY <2>1, <2>4
    <3>2. InSession' <=> InSession
      BY <1>4 DEF InSession
    <3>3. InSession => run.session \in Sessions
      BY <1>1 DEF CheckpointsSound
    <3>4. (InSession =>
             /\ Safe(run.since)
             /\ Safe(cp.source.recorded[run.session])
             /\ cp.source.session = run.session => Safe(cp.source.seq))'
      BY <1>2, <1>4, <1>5, <2>2, <3>1, <3>2, <3>3 DEF RunsSafely
    <3>5. ASSUME NEW c \in Docs, Answered(c)'
          PROVE  /\ Answered(c)
                 /\ src'.docs[c] = src.docs[c]
                 /\ HasCurrent(c) => HasCurrent(c)'
      <4>1. src'.inval[c] <= run.last
        BY <1>4, <3>5 DEF Answered
      <4>2. run.last <= src.changesSeq /\ run.last \in Int
        BY <1>1, RunTyped, PositionsAreNumbers DEF CheckpointsSound
      <4>3. src'.inval[c] = src.inval[c] /\ src'.docs[c] = src.docs[c]
        <5>1. ~(src'.inval[c] = src.changesSeq + 1)
          BY <1>6, <4>1, <4>2
        <5> QED
          BY <1>3, <5>1 DEF SourceMoves
      <4> QED
        BY <1>2, <4>1, <4>3 DEF Answered, HasCurrent
    <3>6. (At("diff") \/ At("fetch") =>
             \A c \in Docs : Answered(c) =>
               HasCurrent(c) \/ src.docs[c].rev \in run.page[c])'
      BY <1>4, <3>1, <3>5 DEF RunsSafely, At
    <3>7. (At("write") \/ At("commit") =>
             \A c \in Docs : Answered(c) =>
               \/ HasCurrent(c)
               \/ \E i \in DOMAIN run.docs :
                    run.docs[i].id = c /\ run.docs[i].doc.rev = src.docs[c].rev)'
      BY <1>4, <3>1, <3>5 DEF RunsSafely, At
    <3> QED
      BY <1>4, <3>4, <3>6, <3>7 DEF RunsSafely
  <2> QED
    BY <2>3, <2>4
<1> QED
  BY <1>2, <1>3, <1>7, <1>8, <1>9, <1>10, <1>11 DEF JobInv

LEMMA NoRunTyped ==
  /\ NoRun \in Run /\ NoRun.at = "idle" /\ NoRun.since = Empty
  /\ NoRun.last = Empty /\ NoRun.docs = <<>> /\ NoRun.page = NoPage
  /\ NoRun.session = 0 /\ NoRun.pending = 0 /\ NoRun.quiet = FALSE
<1>1. Empty \in FeedPosition
  BY PositionsAreNumbers
<1>2. 0 \in 0..MaxSessions
  BY ReplicatorAssumption
<1>3. <<>> \in Seq([id : Docs, doc : Document])
  OBVIOUS
<1>4. NoPage \in [Docs -> SUBSET Rev]
  BY DEF NoPage
<1> QED
  BY <1>1, <1>2, <1>3, <1>4 DEF NoRun, Run, Steps

\* A run after its page was saved, or had nothing to save.
LEMMA AfterSaveShape ==
  ASSUME NEW r \in Run, NEW a, a = AfterSave(r)
  PROVE  /\ a \in Run /\ a.session = r.session /\ a.since = r.since
         /\ a.quiet = r.quiet /\ a.last = Empty /\ a.page = NoPage
         /\ a.docs = <<>> /\ a.at \in {"read", "completed"}
         /\ a.at = "completed" => r.pending = 0
<1>1. a = [at |-> IF ~job.continuous /\ r.pending = 0
                  THEN "completed" ELSE "read",
           session |-> r.session, since |-> r.since, page |-> NoPage,
           last |-> Empty, pending |-> 0, docs |-> <<>>, quiet |-> r.quiet]
  BY DEF AfterSave, NoRun
<1>2. /\ r.session \in 0..MaxSessions /\ r.since \in FeedPosition
      /\ r.quiet \in BOOLEAN
  BY DEF Run
<1>3. /\ Empty \in FeedPosition /\ <<>> \in Seq([id : Docs, doc : Document])
      /\ NoPage \in [Docs -> SUBSET Rev]
  BY PositionsAreNumbers DEF NoPage
<1> HIDE DEF NoPage
<1>4. a \in Run
  BY <1>1, <1>2, <1>3 DEF Run, Steps
<1> QED
  BY <1>1, <1>4

LEMMA AfterBatchShape ==
  ASSUME NEW r \in Run, NEW a, a = AfterBatch(r)
  PROVE  /\ a \in Run /\ a.session = r.session /\ a.quiet = r.quiet
         /\ a.page = NoPage /\ a.docs = <<>>
         /\ \/ /\ a.at \in {"read", "completed"}
               /\ a.since = r.since /\ a.last = Empty
               /\ a.at = "completed" => r.pending = 0
            \/ /\ a.at = "save_source"
               /\ a.since = r.last /\ a.last = r.last /\ r.last # Empty
               /\ a.pending = r.pending
<1>1. CASE r.last \in {r.since, Empty}
  <2>1. a = AfterSave(r)
    BY <1>1 DEF AfterBatch
  <2> QED
    BY <2>1, AfterSaveShape
<1>2. CASE ~(r.last \in {r.since, Empty})
  <2>1. a = [at |-> "save_source", session |-> r.session, since |-> r.last,
             page |-> NoPage, last |-> r.last, pending |-> r.pending,
             docs |-> <<>>, quiet |-> r.quiet]
    BY <1>2 DEF AfterBatch, Run
  <2>2. /\ r.session \in 0..MaxSessions /\ r.last \in FeedPosition
        /\ r.quiet \in BOOLEAN /\ r.pending \in Nat
    BY DEF Run
  <2>3. /\ <<>> \in Seq([id : Docs, doc : Document])
        /\ NoPage \in [Docs -> SUBSET Rev]
    BY DEF NoPage
  <2> HIDE DEF NoPage
  <2>4. a \in Run
    BY <2>1, <2>2, <2>3 DEF Run, Steps
  <2> QED
    BY <1>2, <2>1, <2>4
<1> QED
  BY <1>1, <1>2

LEMMA FetchedStays ==
  ASSUME FetchedSound, src' = src, run'.docs \in {run.docs, <<>>},
         run'.page \in {run.page, NoPage}
  PROVE  FetchedSound'
<1>1. CASE run'.docs = run.docs /\ run'.page = run.page
  BY <1>1 DEF FetchedSound
<1>2. \A d \in Docs : NoPage[d] = {}
  BY DEF NoPage
<1>3. IsFiniteSet({d \in Docs : run'.page[d] # {}})
      /\ \A d \in Docs : run'.page[d] # {} => src.docs[d] # NoDoc
  <2>1. CASE run'.page = run.page
    BY <2>1 DEF FetchedSound
  <2>2. CASE run'.page = NoPage
    <3>1. {d \in Docs : run'.page[d] # {}} = {}
      BY <1>2, <2>2
    <3> QED
      BY <1>2, <2>2, <3>1, FS_EmptySet
  <2> QED
    BY <2>1, <2>2
<1>4. CASE run'.docs = <<>>
  <2>1. DOMAIN run'.docs = {}
    BY <1>4
  <2> QED
    BY <1>3, <2>1 DEF FetchedSound
<1>5. CASE run'.docs = run.docs
  BY <1>3, <1>5 DEF FetchedSound
<1> QED
  BY <1>4, <1>5

LEMMA CheckpointsStay ==
  ASSUME CheckpointsSound, src' = src, cp' = cp,
         run'.since <= src.changesSeq, run'.last <= src.changesSeq,
         InSession' => InSession /\ run'.session = run.session,
         run'.at \in {"save_source", "save_target"} => run'.since # Empty,
         ~env'.exists => ~env.exists \/ cp.target = NoCheckpoint
  PROVE  CheckpointsSound'
BY DEF CheckpointsSound, At

LEMMA ResumesStays ==
  ASSUME ResumesSafely, src' = src, cp' = cp, Keeps
  PROVE  ResumesSafely'
<1>1. \A s : Safe(s) => Safe(s)'
  BY SafeStays
<1> QED
  BY <1>1 DEF ResumesSafely

\* What is left to show of a step that writes neither to the source nor to a
\* checkpoint.
LEMMA StepKeeps ==
  ASSUME JobInv, job' = job, src' = src, cp' = cp,
         run' \in Run, env' \in Env, gap' \in BOOLEAN, ~gap' => ~gap,
         TargetSound', Keeps, FetchedSound', CheckpointsSound',
         ~gap' /\ env'.exists => RunsSafely'
  PROVE  JobInv'
<1>1. ReplicatorTypeOK'
  BY DEF JobInv, ReplicatorTypeOK, Env
<1>2. SourceSound'
  BY DEF JobInv, SourceSound, SequencesOwned
<1>3. ~gap' => ResumesSafely'
  BY ResumesStays DEF JobInv
<1> QED
  BY <1>1, <1>2, <1>3 DEF JobInv

LEMMA TargetStays ==
  ASSUME TargetSound, tgt' = tgt, src' = src
  PROVE  TargetSound' /\ Keeps
BY DEF TargetSound, Keeps, HasCurrent

LEMMA FaultTyped ==
  ASSUME ReplicatorTypeOK, Fault, job' = job
  PROVE  env' \in Env /\ env'.exists = env.exists
<1>1. /\ env.exists \in BOOLEAN /\ env.writes \in 0..Bounds[job].target
      /\ env.faults \in 0..Bounds[job].faults
  BY DEF ReplicatorTypeOK, Env
<1>2. Bounds[job].faults \in Nat
  BY ReplicatorAssumption DEF ReplicatorTypeOK
<1>3. env' = [exists |-> env.exists, writes |-> env.writes,
              faults |-> env.faults + 1]
  BY DEF Fault, ReplicatorTypeOK, Env
<1>4. env.faults + 1 \in 0..Bounds[job].faults
  BY <1>1, <1>2 DEF Fault
<1> QED
  BY <1>1, <1>3, <1>4 DEF Env

\* Between runs, and before one has loaded a checkpoint.
LEMMA OutsideKeeps ==
  ASSUME JobInv, UNCHANGED <<job, src, tgt, cp, gap>>,
         run' \in Run, run'.at \in {"idle", "verify", "load"},
         \/ run' = NoRun
         \/ /\ run'.docs = run.docs /\ run'.page = run.page
            /\ run'.since = run.since /\ run'.last = run.last,
         env' \in Env, ~env'.exists => ~env.exists
  PROVE  JobInv'
<1>1. /\ ReplicatorTypeOK /\ SourceSound /\ TargetSound /\ FetchedSound
      /\ CheckpointsSound /\ src \in Buckets /\ gap \in BOOLEAN
  BY DEF JobInv, ReplicatorTypeOK
<1>2. ~InSession'
  BY DEF InSession
<1>3. /\ run'.docs \in {run.docs, <<>>} /\ run'.page \in {run.page, NoPage}
      /\ run'.since \in {run.since, Empty} /\ run'.last \in {run.last, Empty}
  BY NoRunTyped
<1>4. Empty <= src.changesSeq
  BY <1>1, SourceFeed DEF Empty
<1>5. CheckpointsSound'
  <2>1. run.since <= src.changesSeq /\ run.last <= src.changesSeq
    BY <1>1 DEF CheckpointsSound
  <2>2. run'.since <= src.changesSeq /\ run'.last <= src.changesSeq
    BY <1>3, <1>4, <2>1
  <2> QED
    BY <1>1, <1>2, <2>2, CheckpointsStay
<1>6. FetchedSound'
  BY <1>1, <1>3, FetchedStays
<1>7. RunsSafely'
  BY <1>2 DEF RunsSafely, At
<1>8. TargetSound' /\ Keeps
  BY <1>1, TargetStays
<1> QED
  BY <1>1, <1>5, <1>6, <1>7, <1>8, StepKeeps

LEMMA StartRunKeeps ==
  ASSUME JobInv, StartRun
  PROVE  JobInv'
<1>1. /\ run' = [run EXCEPT !.at = "verify"] /\ run \in Run /\ env \in Env
      /\ UNCHANGED <<job, src, tgt, cp, env, gap>>
  BY DEF StartRun, GoTo, JobInv, ReplicatorTypeOK
<1>2. /\ run' \in Run /\ run'.at = "verify"
      /\ run'.docs = run.docs /\ run'.page = run.page
      /\ run'.since = run.since /\ run'.last = run.last
  BY <1>1 DEF Run, Steps
<1>3. env' \in Env
  BY <1>1 DEF Env
<1> QED
  BY <1>1, <1>2, <1>3, OutsideKeeps

LEMMA VerifyPeersKeeps ==
  ASSUME JobInv, VerifyPeers
  PROVE  JobInv'
<1>1. /\ run \in Run /\ env \in Env
      /\ UNCHANGED <<job, src, tgt, cp, gap>>
      /\ \E s \in {"load", "idle"} : run' = [run EXCEPT !.at = s]
      /\ env' \in {env, [env EXCEPT !.exists = TRUE]}
  BY DEF VerifyPeers, GoTo, JobInv, ReplicatorTypeOK
<1>2. /\ run' \in Run /\ run'.at \in {"load", "idle"}
      /\ run'.docs = run.docs /\ run'.page = run.page
      /\ run'.since = run.since /\ run'.last = run.last
  BY <1>1 DEF Run, Steps
<1>3. env' \in Env /\ (~env'.exists => ~env.exists)
  BY <1>1 DEF Env
<1> QED
  BY <1>1, <1>2, <1>3, OutsideKeeps

LEMMA RunEndsKeeps ==
  ASSUME JobInv, Stops \/ TargetMissing \/ Again
  PROVE  JobInv'
<1>1. run' = NoRun /\ UNCHANGED <<job, src, tgt, cp, gap>>
  BY DEF Stops, TargetMissing, Again, RunEnds
<1>2. env' \in Env /\ env'.exists = env.exists
  <2>1. ReplicatorTypeOK
    BY DEF JobInv
  <2>2. Fault \/ env' = env
    BY DEF Stops, TargetMissing, Again, RunEnds
  <2> QED
    BY <1>1, <2>1, <2>2, FaultTyped DEF ReplicatorTypeOK, Env
<1> QED
  BY <1>1, <1>2, NoRunTyped, OutsideKeeps

LEMMA BatchDone ==
  ASSUME JobInv, UNCHANGED <<job, src, cp, env>>,
         NEW r \in Run, run' = AfterBatch(r), InSession,
         r.session = run.session, r.since = run.since,
         r.last <= src.changesSeq,
         gap' \in BOOLEAN, ~gap' => ~gap, TargetSound', Keeps,
         ~gap' /\ env.exists =>
           \A d \in Docs :
             src.inval[d] <= r.last \/ (r.quiet /\ r.pending = 0) =>
               HasCurrent(d)'
  PROVE  JobInv'
<1>1. /\ ReplicatorTypeOK /\ SourceSound /\ TargetSound /\ FetchedSound
      /\ CheckpointsSound /\ src \in Buckets /\ env \in Env
  BY DEF JobInv, ReplicatorTypeOK
<1>2. /\ run' \in Run /\ run'.session = run.session /\ run'.quiet = r.quiet
      /\ run'.page = NoPage /\ run'.docs = <<>>
      /\ \/ /\ run'.at \in {"read", "completed"}
            /\ run'.since = run.since /\ run'.last = Empty
            /\ run'.at = "completed" => r.pending = 0
         \/ /\ run'.at = "save_source"
            /\ run'.since = r.last /\ run'.last = r.last /\ r.last # Empty
            /\ run'.pending = r.pending
  BY AfterBatchShape
<1>3. run'.at \in {"read", "completed", "save_source"}
  BY <1>2
<1>4. FetchedSound'
  BY <1>1, <1>2, FetchedStays
<1>5. CheckpointsSound'
  <2>1. Empty <= src.changesSeq
    BY <1>1, SourceFeed DEF Empty
  <2>2. run'.since <= src.changesSeq /\ run'.last <= src.changesSeq
    BY <1>1, <1>2, <2>1 DEF CheckpointsSound
  <2>3. ~(run'.at = "save_target") /\ (run'.at = "save_source" => run'.since # Empty)
    BY <1>2
  <2> QED
    BY <1>1, <1>2, <2>2, <2>3, CheckpointsStay
<1>6. env' \in Env
  BY <1>1 DEF Env
<1>7. ASSUME ~gap', env'.exists
      PROVE  RunsSafely'
  <2>1. RunsSafely /\ \A s : Safe(s) => Safe(s)'
    BY <1>7, SafeStays DEF JobInv
  <2>2. \A d \in Docs :
          src.inval[d] <= r.last \/ (r.quiet /\ r.pending = 0) => HasCurrent(d)'
    BY <1>7
  <2>4. Safe(run.since)'
    <3>1. CASE run'.since = run.since
      <4>1. Safe(run.since)
        BY <2>1 DEF RunsSafely
      <4> QED
        BY <2>1, <3>1, <4>1 DEF Safe
    <3>2. CASE run'.since = r.last
      <4>1. \A d \in Docs : src.inval[d] <= r.last => HasCurrent(d)'
        BY <2>2
      <4> QED
        BY <3>2, <4>1 DEF Safe
    <3> QED
      BY <1>2, <3>1, <3>2
  <2>5. /\ Safe(cp.source.recorded[run.session])'
        /\ (cp.source.session = run.session => Safe(cp.source.seq))'
    BY <1>2, <2>1 DEF RunsSafely, Safe
  <2>6. /\ (At("save_source") \/ At("save_target") =>
              (run.quiet /\ run.pending = 0 => \A d \in Docs : HasCurrent(d)))'
        /\ (At("completed") => (run.quiet => \A d \in Docs : HasCurrent(d)))'
    <3>1. /\ run'.at = "save_source" /\ run'.quiet /\ run'.pending = 0 =>
               r.quiet /\ r.pending = 0
          /\ run'.at = "completed" /\ run'.quiet => r.quiet /\ r.pending = 0
      BY <1>2
    <3>2. run'.at # "save_target"
      BY <1>2
    <3> QED
      BY <2>2, <3>1, <3>2 DEF At
  <2>7. ~(At("diff") \/ At("fetch") \/ At("write") \/ At("commit"))'
    BY <1>3 DEF At
  <2> QED
    BY <2>4, <2>5, <2>6, <2>7 DEF RunsSafely
<1> QED
  BY <1>2, <1>4, <1>5, <1>6, <1>7, StepKeeps

-----------------------------------------------------------------------------
(* A run loads a checkpoint. *)

LEMMA SessionIsNew ==
  ASSUME ReplicatorTypeOK, NEW p \in {"source", "target"}, NEW i \in Sessions,
         cp[p].recorded[i] # Empty
  PROVE  i < Session
<1> DEFINE S == {0} \cup {j \in Sessions :
                            \E q \in DOMAIN cp : cp[q].recorded[j] # Empty}
<1>1. MaxSessions \in Nat /\ Sessions \subseteq Nat
      /\ \A j \in Sessions : j <= MaxSessions
  BY ReplicatorAssumption DEF Sessions
<1>2. p \in DOMAIN cp
  BY CheckpointsTyped
<1>3. i \in S /\ S \in SUBSET Nat /\ S # {} /\ \A j \in S : j <= MaxSessions
  <2>1. i \in S /\ 0 \in S
    BY <1>2
  <2>2. \A j \in S : j = 0 \/ j \in Sessions
    OBVIOUS
  <2> HIDE DEF S
  <2> QED
    BY <1>1, <2>1, <2>2
<1>4. Session = Max(S) + 1
  BY DEF Session
<1> HIDE DEF S
<1>5. Max(S) \in S /\ i <= Max(S)
  BY <1>1, <1>3, MaxOf
<1>6. Max(S) \in Nat /\ i \in Nat
  BY <1>1, <1>3, <1>5
<1> QED
  BY <1>4, <1>5, <1>6

LEMMA LoadsFrom ==
  ASSUME NEW c \in [source : Checkpoint \cup {NoCheckpoint},
                    target : Checkpoint \cup {NoCheckpoint}],
         NEW n, n = LoadCheckpoint(c)
  PROVE  /\ n \in FeedPosition
         /\ \/ n = Empty
            \/ /\ c.target # NoCheckpoint /\ c.source.session = c.target.session
               /\ n = c.source.seq
            \/ \E m \in Common(c.source, c.target) : n = c.source.recorded[m]
<1> DEFINE s == c.source
           t == c.target
<1>1. Empty \in FeedPosition /\ 0..MaxSeq \subseteq FeedPosition
  BY PositionsAreNumbers
<1>2. CASE n = Empty
  BY <1>1, <1>2
<1>3. CASE s # NoCheckpoint /\ t # NoCheckpoint /\ s.session = t.session
           /\ n = s.seq
  <2>1. n \in 0..MaxSeq
    BY <1>3 DEF Checkpoint
  <2> QED
    BY <1>1, <1>3, <2>1
<1>4. CASE s # NoCheckpoint /\ Common(s, t) # {}
           /\ n = s.recorded[Min(Common(s, t))]
  <2>1. Common(s, t) \in SUBSET Nat /\ Common(s, t) \subseteq Sessions
    BY DEF Common, Sessions
  <2>2. \E m \in Common(s, t) : \A k \in Common(s, t) : m <= k
    BY <1>4, <2>1, LeastNumber
  <2>3. Min(Common(s, t)) \in Common(s, t)
    BY <2>2, Zenon DEF Min
  <2>4. PICK m \in Common(s, t) : n = s.recorded[m]
    BY <1>4, <2>3
  <2>5. s.recorded \in [Sessions -> FeedPosition]
    BY <1>4 DEF Checkpoint
  <2>6. n \in FeedPosition
    BY <2>1, <2>4, <2>5
  <2> QED
    BY <2>4, <2>6
<1> QED
  BY <1>2, <1>3, <1>4 DEF LoadCheckpoint

LEMMA LoadsSafely ==
  ASSUME ReplicatorTypeOK, SourceSound, CheckpointsSound
  PROVE  /\ LoadCheckpoint(cp) \in FeedPosition
         /\ LoadCheckpoint(cp) <= src.changesSeq
         /\ ResumesSafely => Safe(LoadCheckpoint(cp))
<1>1. /\ src \in Buckets
      /\ cp \in [source : Checkpoint \cup {NoCheckpoint},
                 target : Checkpoint \cup {NoCheckpoint}]
  BY DEF ReplicatorTypeOK
<1>2. PICK n : n = LoadCheckpoint(cp)
  OBVIOUS
<1>3. /\ n \in FeedPosition
      /\ \/ n = Empty
         \/ /\ cp.target # NoCheckpoint
            /\ cp.source.session = cp.target.session
            /\ n = cp.source.seq
         \/ \E m \in Common(cp.source, cp.target) : n = cp.source.recorded[m]
  BY <1>1, <1>2, LoadsFrom
<1>4. n <= src.changesSeq
  <2>1. Empty <= src.changesSeq
    BY <1>1, SourceFeed DEF Empty
  <2>2. Common(cp.source, cp.target) \subseteq Sessions
    BY DEF Common
  <2> QED
    BY <1>3, <2>1, <2>2 DEF CheckpointsSound
<1>5. ResumesSafely => Safe(n)
  <2>1. Safe(Empty)
    BY <1>1, SafeAtStart
  <2> QED
    BY <1>3, <2>1 DEF ResumesSafely
<1> QED
  BY <1>2, <1>3, <1>4, <1>5

LEMMA LoadsKeeps ==
  ASSUME JobInv, NEW since \in FeedPosition, since <= src.changesSeq,
         ~gap => Safe(since), At("load"), Loads(since), env' \in Env,
         env'.exists = env.exists
  PROVE  JobInv'
<1>1. /\ ReplicatorTypeOK /\ SourceSound /\ TargetSound /\ FetchedSound
      /\ CheckpointsSound /\ src \in Buckets /\ gap \in BOOLEAN /\ run \in Run
  BY DEF JobInv, ReplicatorTypeOK
<1>2. /\ Session \in Sessions
      /\ run' = [run EXCEPT !.at = "read", !.session = Session, !.since = since]
      /\ UNCHANGED <<job, src, tgt, cp, gap>>
  BY DEF Loads
<1>3. /\ run' \in Run /\ run'.at = "read" /\ run'.session = Session
      /\ run'.since = since /\ run'.last = run.last
      /\ run'.page = run.page /\ run'.docs = run.docs
  <2>1. Session \in 0..MaxSessions
    BY <1>2, ReplicatorAssumption DEF Sessions
  <2> QED
    BY <1>1, <1>2, <2>1 DEF Run, Steps
<1>4. FetchedSound'
  BY <1>1, <1>2, <1>3, FetchedStays
<1>5. \A p \in {"source", "target"} : \A i \in Sessions :
        cp[p].recorded[i] # Empty => i < Session /\ i <= Session
  <2> SUFFICES ASSUME NEW p \in {"source", "target"}, NEW i \in Sessions,
                      cp[p].recorded[i] # Empty
               PROVE  i < Session /\ i <= Session
    OBVIOUS
  <2>1. i < Session
    BY <1>1, SessionIsNew
  <2>2. i \in Int /\ Session \in Int
    BY <1>2 DEF Sessions
  <2> QED
    BY <2>1, <2>2
<1> HIDE DEF Session
<1>6. CheckpointsSound'
  <2>1. /\ run'.since <= src.changesSeq /\ run'.last <= src.changesSeq
        /\ InSession'
    BY <1>1, <1>3 DEF CheckpointsSound, InSession
  <2> QED
    BY <1>1, <1>2, <1>3, <1>5, <2>1 DEF CheckpointsSound, At
<1>7. ASSUME ~gap', env'.exists
      PROVE  RunsSafely'
  <2>1. Safe(since)
    BY <1>2, <1>7
  <2>2. Session \in Int /\ ~(Session < Session)
    BY <1>2 DEF Sessions
  <2>3. cp.source.recorded[Session] = Empty
    BY <1>2, <1>5, <2>2
  <2>4. cp.source.session # Session
    <3>1. cp.source # NoCheckpoint => cp.source.recorded[cp.source.session] # Empty
      BY <1>1 DEF CheckpointsSound
    <3>2. NoCheckpoint.session \notin Sessions
      BY DEF NoCheckpoint, Sessions
    <3> QED
      BY <1>2, <2>3, <3>1, <3>2
  <2>5. Safe(Empty)
    BY <1>1, SafeAtStart
  <2>6. Safe(run.since)' /\ Safe(cp.source.recorded[run.session])'
    BY <1>2, <1>3, <2>1, <2>3, <2>5 DEF Safe, HasCurrent
  <2>7. ~(At("diff") \/ At("fetch") \/ At("write") \/ At("commit") \/ At("save_source")
          \/ At("save_target") \/ At("completed"))'
    BY <1>3 DEF At
  <2> QED
    BY <1>2, <1>3, <2>4, <2>6, <2>7 DEF RunsSafely
<1>8. TargetSound' /\ Keeps
  BY <1>1, <1>2, TargetStays
<1> QED
  BY <1>1, <1>2, <1>3, <1>4, <1>6, <1>7, <1>8, StepKeeps

LEMMA LoadingKeeps ==
  ASSUME JobInv, LoadsCheckpoint \/ LoadFails
  PROVE  JobInv'
<1>1. /\ ReplicatorTypeOK /\ SourceSound /\ CheckpointsSound /\ src \in Buckets
      /\ ~gap => ResumesSafely
  BY DEF JobInv, ReplicatorTypeOK
<1>2. CASE LoadsCheckpoint
  <2>1. /\ LoadCheckpoint(cp) \in FeedPosition
        /\ LoadCheckpoint(cp) <= src.changesSeq
        /\ ~gap => Safe(LoadCheckpoint(cp))
    BY <1>1, LoadsSafely
  <2>2. At("load") /\ Loads(LoadCheckpoint(cp)) /\ env' = env
    BY <1>2 DEF LoadsCheckpoint
  <2>3. env' \in Env
    BY <1>1, <2>2 DEF ReplicatorTypeOK, Env, Loads
  <2> QED
    BY <2>1, <2>2, <2>3, LoadsKeeps
<1>3. CASE LoadFails
  <2>1. At("load") /\ Loads(Empty) /\ Fault
    BY <1>3 DEF LoadFails
  <2>2. Empty <= src.changesSeq /\ Safe(Empty) /\ Empty \in FeedPosition
    BY <1>1, SourceFeed, SafeAtStart, PositionsAreNumbers
  <2>3. env' \in Env /\ env'.exists = env.exists
    BY <1>1, <2>1, FaultTyped DEF Loads
  <2> QED
    BY <2>1, <2>2, <2>3, LoadsKeeps
<1> QED
  BY <1>2, <1>3

-----------------------------------------------------------------------------
(* A run reads a page. *)

\* The documents of a page.
InPage(answer) == {answer.docs[i].id : i \in DOMAIN answer.docs}

\* The documents of a page read from since are documents, and it goes up to
\* last.  Unless the entry it was read from was replaced, it leaves out none of
\* what it answers for.
PageOf(since, answer, ids, last) ==
  /\ ids \in SUBSET Docs /\ IsFiniteSet(ids)
  /\ \A d \in ids : src.docs[d] # NoDoc
  /\ answer.pending \in Nat
  /\ last \in FeedPosition /\ last <= src.changesSeq
  /\ since = Start \/ (\E e \in src.changes : e.seq = since) =>
       \A d \in Docs :
         /\ src.docs[d] # NoDoc /\ since < src.inval[d]
         /\ src.inval[d] <= last \/ answer.pending = 0
         => d \in ids

LEMMA SourcePage ==
  ASSUME src \in Buckets, SourceSound, NEW since \in Nat,
         NEW answer, answer = Changes(src, since, Limit),
         NEW otherwise \in FeedPosition, otherwise <= since,
         otherwise <= src.changesSeq
  PROVE  PageOf(since, answer, InPage(answer), LastSeq(answer, otherwise))
<1> DEFINE n == Len(answer.docs)
           last == LastSeq(answer, otherwise)
           ids == InPage(answer)
<1>1. /\ \A e, f \in src.changes : e.seq = f.seq => e = f
      /\ \A e \in src.changes : /\ e.id \in Docs /\ src.docs[e.id] # NoDoc
                                /\ src.inval[e.id] = e.seq
      /\ \A d \in Docs : src.docs[d] # NoDoc =>
           [seq |-> src.inval[d], id |-> d] \in src.changes
      /\ src.changesSeq \in Nat
      /\ \A d \in Docs : src.inval[d] \in Nat /\ src.inval[d] <= src.changesSeq
  BY SourceFeed
<1>2. /\ n \in Nat /\ DOMAIN answer.docs = 1..n
      /\ answer.docs = <<>> <=> n = 0
      /\ \A i \in 1..n : \E e \in src.changes : answer.docs[i] = Result(src, e.id)
      /\ answer.pending \in Nat
  BY <1>1, PageIsStretch
<1> HIDE DEF n
<1>3. ids = {answer.docs[i].id : i \in 1..n}
  BY <1>2 DEF InPage
<1> HIDE DEF ids
<1>4. \A d \in ids : d \in Docs /\ src.docs[d] # NoDoc
  <2> SUFFICES ASSUME NEW d \in ids
               PROVE  d \in Docs /\ src.docs[d] # NoDoc
    OBVIOUS
  <2>1. PICK i \in 1..n : answer.docs[i].id = d
    BY <1>3
  <2>2. PICK e \in src.changes : answer.docs[i] = Result(src, e.id)
    BY <1>2, <2>1
  <2>3. e.id = d
    BY <2>1, <2>2 DEF Result
  <2> QED
    BY <1>1, <2>3
<1>5. IsFiniteSet(ids)
  <2>1. IsFiniteSet(1..n)
    BY <1>2, FS_Interval
  <2> DEFINE f == [i \in 1..n |-> answer.docs[i].id]
  <2>2. f \in Surjection(1..n, ids)
    BY <1>3 DEF Surjection
  <2> HIDE DEF f
  <2> QED
    BY <2>1, <2>2, FS_Surjection
<1>6. last \in FeedPosition /\ last <= src.changesSeq
  <2>1. CASE answer.docs = <<>>
    BY <2>1 DEF LastSeq
  <2>2. CASE answer.docs # <<>>
    <3>1. last = LastSeq(answer, Start)
      BY <2>2 DEF LastSeq
    <3>2. Start \in Nat /\ Start <= src.changesSeq
      BY <1>1 DEF Start
    <3>3. LastSeq(answer, Start) \in Nat /\ LastSeq(answer, Start) <= src.changesSeq
      BY <1>1, <3>2, PageTyped
    <3>4. src.changesSeq \in 0..MaxSeq
      BY DEF Buckets
    <3>5. last \in 0..MaxSeq
      BY <3>1, <3>3, <3>4, DocTxAssumption
    <3> QED
      BY <3>1, <3>3, <3>5, PositionsAreNumbers
  <2> QED
    BY <2>1, <2>2
<1>7. ASSUME since = Start \/ \E e \in src.changes : e.seq = since,
             NEW d \in Docs, src.docs[d] # NoDoc, since < src.inval[d],
             src.inval[d] <= last \/ answer.pending = 0
      PROVE  d \in ids
  <2>1. src.inval[d] <= LastSeq(answer, Start) \/ answer.pending = 0
    <3>1. CASE answer.docs = <<>>
      <4>1. last = otherwise
        BY <3>1 DEF LastSeq
      <4>2. src.inval[d] \in Int /\ otherwise \in Int
        BY <1>1, PositionsAreNumbers
      <4> QED
        BY <1>7, <4>1, <4>2
    <3>2. CASE answer.docs # <<>>
      BY <1>7, <3>2 DEF LastSeq
    <3> QED
      BY <3>1, <3>2
  <2>2. PICK e \in src.changes : e.seq = src.inval[d] /\ e.id = d
    BY <1>1, <1>7
  <2>3. Start \in Nat /\ Start <= since
    BY DEF Start
  <2>4. /\ \A f, g \in src.changes : f.seq = g.seq => f = g
        /\ \A f \in src.changes : src.inval[f.id] = f.seq
    BY <1>1
  <2>5. \E i \in DOMAIN answer.docs : answer.docs[i].id = e.id
    BY <1>7, <2>1, <2>2, <2>3, <2>4, PageLeavesNoGap
  <2> QED
    BY <2>2, <2>5 DEF ids, InPage
<1> HIDE DEF last
<1>8. PageOf(since, answer, ids, last)
  BY <1>2, <1>4, <1>5, <1>6, <1>7 DEF PageOf
<1> QED
  BY <1>8 DEF ids, last

LEMMA OfferedTyped ==
  ASSUME src \in Buckets, NEW d \in Docs, src.docs[d] # NoDoc
  PROVE  Offered(d) \in SUBSET Rev /\ src.docs[d].rev \in Offered(d)
<1>1. src.docs[d].rev \in Rev
  BY DocIsNotNil DEF Buckets
<1>2. leafRevs(src, d) \subseteq Rev
  BY DEF leafRevs
<1> QED
  BY <1>1, <1>2 DEF Offered

LEMMA GetChangesKeeps ==
  ASSUME JobInv, GetChanges
  PROVE  JobInv'
<1>1. /\ ReplicatorTypeOK /\ SourceSound /\ TargetSound /\ FetchedSound
      /\ CheckpointsSound /\ src \in Buckets /\ gap \in BOOLEAN /\ run \in Run
      /\ env \in Env
  BY DEF JobInv, ReplicatorTypeOK
<1>2. PICK since : since = IF run.since = Empty THEN Start ELSE run.since
  OBVIOUS
<1>3. PICK answer : answer = Changes(src, since, Limit)
  OBVIOUS
<1>4. PICK ids : ids = {answer.docs[i].id : i \in DOMAIN answer.docs}
  OBVIOUS
<1>5. PICK read : read = [run EXCEPT
                  !.at      = "diff",
                  !.page    = [d \in Docs |-> IF d \in ids THEN Offered(d) ELSE {}],
                  !.last    = LastSeq(answer, LastSeqWhenEmpty),
                  !.pending = answer.pending,
                  !.quiet   = TRUE]
  OBVIOUS
<1>6. /\ At("read")
      /\ run' = IF ids = {} THEN AfterBatch(read) ELSE read
      /\ gap' = (gap \/ /\ since # Start
                        /\ \A e \in src.changes : e.seq # since)
      /\ UNCHANGED <<job, src, tgt, cp, env>>
  BY <1>2, <1>3, <1>4, <1>5 DEF GetChanges
<1>7. /\ since \in Nat /\ run.since \in FeedPosition /\ run.since <= since
      /\ run.since <= src.changesSeq /\ src.changesSeq \in Nat
      /\ run.last \in FeedPosition
  <2>1. run.since \in FeedPosition /\ run.last \in FeedPosition
    BY <1>1, RunTyped
  <2>2. run.since <= src.changesSeq /\ src.changesSeq \in Nat
    BY <1>1, SourceFeed DEF CheckpointsSound
  <2>3. since \in Nat /\ run.since <= since
    BY <1>2, <2>1, DocTxAssumption DEF FeedPosition, Empty, Start
  <2> QED
    BY <2>1, <2>2, <2>3
<1>8. /\ LastSeqWhenEmpty \in FeedPosition /\ LastSeqWhenEmpty <= since
      /\ LastSeqWhenEmpty <= src.changesSeq
  <2>1. Start \in FeedPosition /\ Start <= since /\ Start <= src.changesSeq
    BY <1>7, PositionsAreNumbers DEF Start
  <2> QED
    BY <1>7, <2>1 DEF LastSeqWhenEmpty
<1> DEFINE last == LastSeq(answer, LastSeqWhenEmpty)
<1>9. /\ ids \in SUBSET Docs /\ IsFiniteSet(ids)
      /\ \A d \in ids : src.docs[d] # NoDoc
      /\ answer.pending \in Nat /\ last \in FeedPosition
      /\ last <= src.changesSeq
      /\ since = Start \/ (\E e \in src.changes : e.seq = since) =>
           \A d \in Docs :
             /\ src.docs[d] # NoDoc /\ since < src.inval[d]
             /\ src.inval[d] <= last \/ answer.pending = 0
             => d \in ids
  <2>1. ids = InPage(answer)
    BY <1>4 DEF InPage
  <2>2. PageOf(since, answer, InPage(answer), last)
    BY <1>1, <1>3, <1>7, <1>8, SourcePage
  <2> HIDE DEF last
  <2> QED
    BY <2>1, <2>2 DEF PageOf
<1> HIDE DEF last
<1>10. \A d \in ids : /\ Offered(d) \in SUBSET Rev
                      /\ src.docs[d].rev \in Offered(d)
  BY <1>1, <1>9, OfferedTyped
<1>11. /\ read \in Run /\ read.at = "diff" /\ read.session = run.session
       /\ read.since = run.since /\ read.last = last
       /\ read.pending = answer.pending /\ read.quiet /\ read.docs = run.docs
       /\ read.page = [d \in Docs |-> IF d \in ids THEN Offered(d) ELSE {}]
  <2> DEFINE page == [d \in Docs |-> IF d \in ids THEN Offered(d) ELSE {}]
  <2>1. page \in [Docs -> SUBSET Rev]
    BY <1>10
  <2>2. read = [run EXCEPT !.at = "diff", !.page = page, !.last = last,
                           !.pending = answer.pending, !.quiet = TRUE]
    BY <1>5 DEF last
  <2> HIDE DEF page
  <2>3. /\ read = [at |-> "diff", session |-> run.session, since |-> run.since,
                   page |-> page, last |-> last, pending |-> answer.pending,
                   docs |-> run.docs, quiet |-> TRUE]
    BY <1>1, <2>2 DEF Run
  <2>4. read \in Run
    BY <1>1, <1>9, <2>1, <2>3 DEF Run, Steps
  <2> QED
    BY <2>3, <2>4 DEF page
<1>12. gap' \in BOOLEAN /\ (~gap' => ~gap)
  BY <1>1, <1>6
<1>13. TargetSound' /\ Keeps
  BY <1>1, <1>6, TargetStays
<1>14. InSession
  BY <1>6 DEF InSession, At
<1>15. ASSUME ~gap', env.exists, NEW d \in Docs,
              src.inval[d] <= last \/ answer.pending = 0, d \notin ids
       PROVE  HasCurrent(d)
  <2>1. Safe(run.since)
    BY <1>12, <1>14, <1>15 DEF JobInv, RunsSafely
  <2>2. Safe(since)
    BY <1>1, <1>2, <2>1, SafeAtStart
  <2>3. since = Start \/ \E e \in src.changes : e.seq = since
    BY <1>6, <1>15
  <2>4. CASE src.docs[d] = NoDoc
    BY <2>4 DEF HasCurrent
  <2>5. CASE ~(since < src.inval[d])
    <3>1. src.inval[d] \in Nat
      BY <1>1, SourceFeed
    <3>2. src.inval[d] <= since
      BY <1>7, <2>5, <3>1
    <3> QED
      BY <2>2, <3>2 DEF Safe
  <2> QED
    BY <1>9, <1>15, <2>3, <2>4, <2>5
<1>16. CASE ids = {}
  <2>1. run' = AfterBatch(read)
    BY <1>6, <1>16
  <2>2. ~gap' /\ env.exists =>
          \A d \in Docs :
            src.inval[d] <= read.last \/ (read.quiet /\ read.pending = 0) =>
              HasCurrent(d)'
    BY <1>11, <1>13, <1>15, <1>16 DEF Keeps
  <2>3. read.last <= src.changesSeq
    BY <1>9, <1>11
  <2> QED
    BY <1>6, <1>11, <1>12, <1>13, <1>14, <2>1, <2>2, <2>3, BatchDone
<1>17. CASE ids # {}
  <2>1. run' = read
    BY <1>6, <1>17
  <2>2. \A d \in Docs : run'.page[d] # {} => d \in ids
    BY <1>11, <2>1
  <2>3. FetchedSound'
    <3>1. IsFiniteSet({d \in Docs : run'.page[d] # {}})
      <4>1. {d \in Docs : run'.page[d] # {}} \subseteq ids
        BY <2>2
      <4> QED
        BY <1>9, <4>1, FS_Subset
    <3>2. \A d \in Docs : run'.page[d] # {} => src'.docs[d] # NoDoc
      BY <1>6, <1>9, <2>2
    <3>3. run'.docs = run.docs /\ src' = src
      BY <1>6, <1>11, <2>1
    <3> QED
      BY <1>1, <3>1, <3>2, <3>3 DEF FetchedSound
  <2>4. CheckpointsSound'
    <3>1. run'.at = "diff"
      BY <1>11, <2>1
    <3> QED
      BY <1>1, <1>6, <1>7, <1>9, <1>11, <1>14, <2>1, <3>1, CheckpointsStay
  <2>5. ASSUME ~gap', env'.exists
        PROVE  RunsSafely'
    <3>1. RunsSafely /\ env.exists
      BY <1>6, <1>12, <2>5 DEF JobInv
    <3>2. /\ run'.at = "diff" /\ run'.since = run.since
          /\ run'.session = run.session
      BY <1>11, <2>1
    <3>3. /\ Safe(run.since) /\ Safe(cp.source.recorded[run.session])
          /\ cp.source.session = run.session => Safe(cp.source.seq)
      BY <1>14, <3>1 DEF RunsSafely
    <3>4. /\ Safe(run.since)' /\ Safe(cp.source.recorded[run.session])'
          /\ cp'.source.session = run'.session => Safe(cp.source.seq)'
      BY <1>6, <3>2, <3>3 DEF Safe, HasCurrent
    <3>5. ASSUME NEW d \in Docs, Answered(d)'
          PROVE  HasCurrent(d)' \/ src'.docs[d].rev \in run'.page[d]
      <4>1. src.inval[d] <= last \/ answer.pending = 0
        BY <1>6, <1>11, <2>1, <3>5 DEF Answered
      <4>2. CASE d \in ids
        BY <1>6, <1>10, <1>11, <2>1, <4>2
      <4>3. CASE d \notin ids
        <5>1. HasCurrent(d)
          BY <1>15, <2>5, <3>1, <4>1, <4>3
        <5> QED
          BY <1>13, <5>1 DEF Keeps
      <4> QED
        BY <4>2, <4>3
    <3>6. ~(At("write") \/ At("commit") \/ At("save_source") \/ At("save_target")
            \/ At("completed"))'
      BY <3>2 DEF At
    <3> QED
      BY <3>4, <3>5, <3>6 DEF RunsSafely
  <2>6. run' \in Run /\ env' \in Env
    BY <1>1, <1>6, <1>11, <2>1 DEF Env
  <2> QED
    BY <1>6, <1>12, <1>13, <2>3, <2>4, <2>5, <2>6, StepKeeps
<1> QED
  BY <1>16, <1>17

-----------------------------------------------------------------------------
(* A run asks for what is missing, fetches it and writes it. *)

\* What a run in session keeps as long as it reads on.
LEMMA SessionStays ==
  ASSUME RunsSafely, InSession, src' = src, cp' = cp, Keeps,
         run'.since = run.since, run'.session = run.session
  PROVE  /\ Safe(run.since)' /\ Safe(cp.source.recorded[run.session])'
         /\ cp'.source.session = run'.session => Safe(cp.source.seq)'
<1>1. /\ Safe(run.since) /\ Safe(cp.source.recorded[run.session])
      /\ cp.source.session = run.session => Safe(cp.source.seq)
  BY DEF RunsSafely
<1>2. \A s : Safe(s) => Safe(s)'
  BY SafeStays
<1> QED
  BY <1>1, <1>2 DEF Safe

LEMMA RevsDiffKeeps ==
  ASSUME JobInv, RevsDiff
  PROVE  JobInv'
<1>1. /\ ReplicatorTypeOK /\ SourceSound /\ TargetSound /\ FetchedSound
      /\ CheckpointsSound /\ src \in Buckets /\ gap \in BOOLEAN /\ run \in Run
      /\ env \in Env /\ run.page \in [Docs -> SUBSET Rev]
  BY RunTyped DEF JobInv, ReplicatorTypeOK
<1>2. PICK missing : missing = [d \in Docs |-> Missing(d, run.page[d])]
  OBVIOUS
<1>3. /\ At("diff") /\ env.exists
      /\ run' = IF missing = NoPage THEN AfterBatch(run)
                ELSE [run EXCEPT !.at = "fetch", !.page = missing]
      /\ UNCHANGED <<job, src, tgt, cp, env, gap>>
  BY <1>2 DEF RevsDiff
<1>4. TargetSound' /\ Keeps /\ InSession
  BY <1>1, <1>3, TargetStays DEF InSession, At
<1>5. \A d \in Docs : missing[d] \subseteq run.page[d]
  BY <1>2 DEF Missing
<1>6. ASSUME ~gap, NEW d \in Docs,
             src.inval[d] <= run.last \/ (run.quiet /\ run.pending = 0)
      PROVE  HasCurrent(d) \/ src.docs[d].rev \in missing[d]
  <2>1. RunsSafely
    BY <1>3, <1>6 DEF JobInv
  <2>2. HasCurrent(d) \/ src.docs[d].rev \in run.page[d]
    BY <1>3, <1>6, <2>1 DEF RunsSafely, Answered
  <2>3. ASSUME src.docs[d].rev \in run.page[d], src.docs[d].rev \notin missing[d]
        PROVE  HasCurrent(d)
    BY <1>2, <2>3 DEF Missing, HasCurrent
  <2> QED
    BY <2>2, <2>3
<1>7. CASE missing = NoPage
  <2>1. ~gap' /\ env.exists =>
          \A d \in Docs :
            src.inval[d] <= run.last \/ (run.quiet /\ run.pending = 0) =>
              HasCurrent(d)'
    BY <1>3, <1>4, <1>6, <1>7 DEF Keeps, NoPage
  <2>2. run.last <= src.changesSeq
    BY <1>1 DEF CheckpointsSound
  <2> QED
    BY <1>1, <1>3, <1>4, <1>7, <2>1, <2>2, BatchDone
<1>8. CASE missing # NoPage
  <2>1. /\ run' \in Run /\ run'.at = "fetch" /\ run'.session = run.session
        /\ run'.since = run.since /\ run'.last = run.last
        /\ run'.page = missing /\ run'.docs = run.docs
        /\ run'.quiet = run.quiet /\ run'.pending = run.pending
    <3>1. missing \in [Docs -> SUBSET Rev]
      BY <1>1, <1>2, <1>5
    <3> QED
      BY <1>1, <1>3, <1>8, <3>1 DEF Run, Steps
  <2>2. FetchedSound'
    <3>1. {d \in Docs : missing[d] # {}} \subseteq {d \in Docs : run.page[d] # {}}
      BY <1>5
    <3>2. IsFiniteSet({d \in Docs : run.page[d] # {}})
      BY <1>1 DEF FetchedSound
    <3>3. IsFiniteSet({d \in Docs : missing[d] # {}})
      BY <3>1, <3>2, FS_Subset
    <3>4. \A d \in Docs : missing[d] # {} => src.docs[d] # NoDoc
      BY <1>1, <1>5 DEF FetchedSound
    <3>5. /\ IsFiniteSet({d \in Docs : run'.page[d] # {}})
          /\ \A d \in Docs : run'.page[d] # {} => src'.docs[d] # NoDoc
      BY <1>3, <2>1, <3>3, <3>4
    <3>6. run'.docs = run.docs /\ src' = src
      BY <1>3, <2>1
    <3> QED
      BY <1>1, <3>5, <3>6 DEF FetchedSound
  <2>3. CheckpointsSound'
    <3>1. run.since <= src.changesSeq /\ run.last <= src.changesSeq
      BY <1>1 DEF CheckpointsSound
    <3> QED
      BY <1>1, <1>3, <1>4, <2>1, <3>1, CheckpointsStay
  <2>4. ASSUME ~gap', env'.exists
        PROVE  RunsSafely'
    <3>1. ~gap /\ RunsSafely
      BY <1>3, <2>4 DEF JobInv
    <3>2. /\ Safe(run.since)' /\ Safe(cp.source.recorded[run.session])'
          /\ cp'.source.session = run'.session => Safe(cp.source.seq)'
      BY <1>3, <1>4, <2>1, <3>1, SessionStays
    <3>3. ASSUME NEW d \in Docs, Answered(d)'
          PROVE  HasCurrent(d)' \/ src'.docs[d].rev \in run'.page[d]
      <4>1. src.inval[d] <= run.last \/ (run.quiet /\ run.pending = 0)
        BY <1>3, <2>1, <3>3 DEF Answered
      <4> QED
        BY <1>3, <1>4, <1>6, <2>1, <3>1, <4>1 DEF Keeps
    <3>4. ~(At("write") \/ At("commit") \/ At("save_source") \/ At("save_target")
            \/ At("completed"))'
      BY <2>1 DEF At
    <3> QED
      BY <3>2, <3>3, <3>4 DEF RunsSafely
  <2>5. env' \in Env /\ gap' \in BOOLEAN /\ (~gap' => ~gap)
    BY <1>1, <1>3 DEF Env
  <2> QED
    BY <1>3, <1>4, <2>1, <2>2, <2>3, <2>4, <2>5, StepKeeps
<1> QED
  BY <1>7, <1>8

LEMMA BulkGetKeeps ==
  ASSUME JobInv, BulkGet
  PROVE  JobInv'
<1>1. /\ ReplicatorTypeOK /\ SourceSound /\ TargetSound /\ FetchedSound
      /\ CheckpointsSound /\ src \in Buckets /\ gap \in BOOLEAN /\ run \in Run
      /\ env \in Env /\ run.page \in [Docs -> SUBSET Rev]
  BY RunTyped DEF JobInv, ReplicatorTypeOK
<1>2. PICK ids : ids = {d \in Docs : run.page[d] # {}}
  OBVIOUS
<1>3. PICK docs : docs = FlattenSeq([i \in 1..Cardinality(ids) |->
                           LET d == SetToSeq(ids)[i]
                           IN  Fetched(d, run.page[d])])
  OBVIOUS
<1>4. /\ At("fetch")
      /\ run' = [run EXCEPT !.at = "write", !.page = NoPage, !.docs = docs]
      /\ UNCHANGED <<job, src, tgt, cp, env, gap>>
  BY <1>2, <1>3 DEF BulkGet, Fetch
<1>5. TargetSound' /\ Keeps /\ InSession
  BY <1>1, <1>4, TargetStays DEF InSession, At
<1>6. /\ ids \in SUBSET Docs /\ IsFiniteSet(ids)
      /\ \A d \in ids : run.page[d] # {} /\ src.docs[d] # NoDoc
  BY <1>1, <1>2 DEF FetchedSound
<1> DEFINE F(d) == [id |-> d, doc |-> GetDocument(src, d)]
<1>7. /\ docs \in Seq([id : Docs, doc : Document])
      /\ ToSet(docs) = {F(d) : d \in ids}
  <2>1. PICK page \in [Docs -> SUBSET Rev] : page = run.page
    BY <1>1
  <2>2. docs = FlattenSeq([i \in 1..Cardinality(ids) |->
                             LET d == SetToSeq(ids)[i]
                             IN  Fetched(d, page[d])])
    BY <1>3, <2>1
  <2>3. \A d \in ids : page[d] # {} /\ src.docs[d] # NoDoc
    BY <1>6, <2>1
  <2> QED
    BY <1>1, <1>6, <2>2, <2>3, BatchFetched
<1>8. \A d \in ids : /\ F(d).id = d /\ F(d).doc.rev = src.docs[d].rev
                     /\ Headed(F(d).doc)
  BY <1>1, <1>6, FetchedAsStored
<1> HIDE DEF F
<1>9. \A i \in DOMAIN docs : \E d \in ids : docs[i] = F(d)
  <2>1. \A i \in DOMAIN docs : docs[i] \in ToSet(docs)
    BY DEF ToSet
  <2> QED
    BY <1>7, <2>1
<1>10. \A d \in ids : \E i \in DOMAIN docs : docs[i] = F(d)
  BY <1>7 DEF ToSet
<1>11. /\ run' \in Run /\ run'.at = "write" /\ run'.session = run.session
       /\ run'.since = run.since /\ run'.last = run.last
       /\ run'.page = NoPage /\ run'.docs = docs
       /\ run'.quiet = run.quiet /\ run'.pending = run.pending
  <2>1. NoPage \in [Docs -> SUBSET Rev]
    BY DEF NoPage
  <2> HIDE DEF NoPage
  <2>2. run' = [at |-> "write", session |-> run.session, since |-> run.since,
                page |-> NoPage, last |-> run.last, pending |-> run.pending,
                docs |-> docs, quiet |-> run.quiet]
    BY <1>1, <1>4, RunTyped
  <2>3. run' \in Run
    BY <1>1, <1>7, <2>1, <2>2, RunTyped DEF Run, Steps
  <2> QED
    BY <2>2, <2>3
<1>12. FetchedSound'
  <2>1. ASSUME NEW i \in DOMAIN docs
        PROVE  /\ src.docs[docs[i].id] # NoDoc
               /\ AtLeast(src.docs[docs[i].id].rev, docs[i].doc.rev)
               /\ Headed(docs[i].doc)
    <3>1. PICK d \in ids : docs[i] = F(d)
      BY <1>9
    <3> QED
      BY <1>6, <1>8, <3>1 DEF AtLeast
  <2>2. \A i, j \in DOMAIN docs : docs[i].id = docs[j].id => docs[i] = docs[j]
    BY <1>8, <1>9
  <2>3. \A d \in Docs : NoPage[d] = {}
    BY DEF NoPage
  <2>4. {d \in Docs : NoPage[d] # {}} = {}
    BY <2>3
  <2> HIDE DEF NoPage
  <2>5. IsFiniteSet({d \in Docs : NoPage[d] # {}})
    BY <2>4, FS_EmptySet
  <2> QED
    BY <1>4, <1>11, <2>1, <2>2, <2>3, <2>5 DEF FetchedSound
<1>13. CheckpointsSound'
  <2>1. run.since <= src.changesSeq /\ run.last <= src.changesSeq
    BY <1>1 DEF CheckpointsSound
  <2> QED
    BY <1>1, <1>4, <1>5, <1>11, <2>1, CheckpointsStay
<1>14. ASSUME ~gap', env'.exists
       PROVE  RunsSafely'
  <2>1. RunsSafely
    BY <1>4, <1>14 DEF JobInv
  <2>2. /\ Safe(run.since)' /\ Safe(cp.source.recorded[run.session])'
        /\ cp'.source.session = run'.session => Safe(cp.source.seq)'
    BY <1>4, <1>5, <1>11, <2>1, SessionStays
  <2>3. ASSUME NEW d \in Docs, Answered(d)', ~HasCurrent(d)'
        PROVE  \E i \in DOMAIN docs :
                 docs[i].id = d /\ docs[i].doc.rev = src.docs[d].rev
    <3>1. Answered(d)
      BY <1>4, <1>11, <2>3 DEF Answered
    <3>2. ~HasCurrent(d)
      BY <1>5, <2>3 DEF Keeps
    <3>3. src.docs[d].rev \in run.page[d]
      BY <1>4, <2>1, <3>1, <3>2 DEF RunsSafely
    <3>4. d \in ids
      BY <1>2, <3>3
    <3> QED
      BY <1>8, <1>10, <3>4
  <2>4. (At("write") \/ At("commit") =>
           \A d \in Docs : Answered(d) =>
             \/ HasCurrent(d)
             \/ \E i \in DOMAIN run.docs :
                  run.docs[i].id = d /\ run.docs[i].doc.rev = src.docs[d].rev)'
    BY <1>4, <1>11, <2>3
  <2>5. ~(At("diff") \/ At("fetch") \/ At("save_source") \/ At("save_target")
          \/ At("completed"))'
    BY <1>11 DEF At
  <2> QED
    BY <2>2, <2>4, <2>5 DEF RunsSafely
<1>15. env' \in Env /\ gap' \in BOOLEAN /\ (~gap' => ~gap)
  BY <1>1, <1>4 DEF Env
<1> QED
  BY <1>4, <1>5, <1>11, <1>12, <1>13, <1>14, <1>15, StepKeeps

\* The current revisions the target names.
LEMMA CurrentStays ==
  ASSUME src \in Buckets, src' = src, TargetSound, tgt' \in TargetBuckets,
         \A d \in Docs : KeptAt(tgt', d),
         NEW d \in Docs,
         src.docs[d] # NoDoc => src.docs[d].rev \in Named(tgt', d)
  PROVE  HasCurrent(d)'
<1>1. CASE src.docs[d] = NoDoc
  BY <1>1 DEF HasCurrent
<1>2. CASE src.docs[d] # NoDoc
  <2>1. src.docs[d].rev \in Rev
    BY <1>2, DocIsNotNil DEF Buckets
  <2>2. HasRevision(GetDocument(tgt', d), src.docs[d].rev)
    BY <1>2, <2>1, HasRevisionNamed
  <2> QED
    BY <2>2 DEF HasCurrent
<1> QED
  BY <1>1, <1>2

\* A delivery, at once.
Delivers ==
  /\ At("commit") /\ env.exists
  /\ tgt' = Stored(tgt, run.docs)
  /\ run' = AfterBatch(run)
  /\ UNCHANGED <<job, src, cp, env, gap>>

\* Writing what was fetched gives the target what it was fetched for.
LEMMA DeliveryGives ==
  ASSUME JobInv, Delivers
  PROVE  /\ TargetSound' /\ Keeps
         /\ \A i \in DOMAIN run.docs : \A d \in Docs :
              run.docs[i].id = d /\ run.docs[i].doc.rev = src.docs[d].rev =>
                HasCurrent(d)'
<1>1. /\ ReplicatorTypeOK /\ TargetSound /\ FetchedSound /\ src \in Buckets
      /\ run.docs \in Seq([id : Docs, doc : Document])
  BY RunTyped DEF JobInv, ReplicatorTypeOK
<1>2. tgt' = Stored(tgt, run.docs) /\ src' = src
  BY DEF Delivers
<1>3. PICK docs : docs = run.docs
  OBVIOUS
<1>4. /\ Len(docs) \in Nat /\ DOMAIN docs = 1..Len(docs)
  BY <1>1, <1>3, FetchedTyped
<1>5. WellFetched(docs)
  BY <1>1, <1>3, <1>4 DEF WellFetched, FetchedSound
<1>6. tgt \in TargetBuckets /\ \A d \in Docs : KeptAt(tgt, d)
  BY <1>1 DEF TargetSound
<1>7. PICK a : a = tgt'
  OBVIOUS
<1>8. /\ a \in TargetBuckets
      /\ \A d \in Docs :
           /\ KeptAt(a, d)
           /\ \A i \in 1..Len(docs) :
                docs[i].id = d => docs[i].doc.rev \in Named(a, d)
           /\ \A c \in Rev :
                /\ c \in Named(tgt, d)
                /\ \A i \in 1..Len(docs) :
                     docs[i].id = d => AtLeast(c, docs[i].doc.rev)
                => c \in Named(a, d)
  <2>1. a = Stored(tgt, docs)
    BY <1>2, <1>3, <1>7
  <2> QED
    BY <1>5, <1>6, <2>1, BatchStored
<1>9. TargetSound'
  BY <1>7, <1>8 DEF TargetSound
<1>10. \A d \in Docs : KeptAt(tgt', d)
  BY <1>7, <1>8
<1>11. Keeps
  <2> SUFFICES ASSUME NEW d \in Docs, HasCurrent(d), src.docs[d] # NoDoc
               PROVE  src.docs[d].rev \in Named(tgt', d)
    BY <1>1, <1>2, <1>7, <1>8, <1>10, CurrentStays DEF Keeps
  <2>1. src.docs[d].rev \in Rev
    BY <1>1, DocIsNotNil DEF Buckets
  <2>2. src.docs[d].rev \in Named(tgt, d)
    BY <1>1, HasCurrentNamed
  <2>3. \A i \in 1..Len(docs) :
          docs[i].id = d => AtLeast(src.docs[d].rev, docs[i].doc.rev)
    BY <1>1, <1>3, <1>4 DEF FetchedSound
  <2> QED
    BY <1>7, <1>8, <2>1, <2>2, <2>3
<1>12. ASSUME NEW i \in DOMAIN docs, NEW d \in Docs, docs[i].id = d,
              docs[i].doc.rev = src.docs[d].rev
       PROVE  HasCurrent(d)'
  <2>1. src.docs[d].rev \in Named(tgt', d)
    BY <1>4, <1>7, <1>8, <1>12
  <2> QED
    BY <1>1, <1>2, <1>7, <1>8, <1>10, <2>1, CurrentStays
<1> QED
  BY <1>3, <1>9, <1>11, <1>12

LEMMA DeliversKeeps ==
  ASSUME JobInv, Delivers
  PROVE  JobInv'
<1>1. /\ CheckpointsSound /\ gap \in BOOLEAN /\ run \in Run
  BY DEF JobInv, ReplicatorTypeOK
<1>2. /\ At("commit") /\ env.exists /\ run' = AfterBatch(run)
      /\ UNCHANGED <<job, src, cp, env, gap>>
  BY DEF Delivers
<1>3. InSession
  BY <1>2 DEF InSession, At
<1>4. TargetSound' /\ Keeps
  BY DeliveryGives
<1>5. ~gap' /\ env.exists =>
        \A d \in Docs :
          src.inval[d] <= run.last \/ (run.quiet /\ run.pending = 0) =>
            HasCurrent(d)'
  <2> SUFFICES ASSUME ~gap', NEW d \in Docs,
                      src.inval[d] <= run.last \/ (run.quiet /\ run.pending = 0)
               PROVE  HasCurrent(d)'
    OBVIOUS
  <2>1. RunsSafely
    BY <1>2 DEF JobInv
  <2>2. \/ HasCurrent(d)
        \/ \E i \in DOMAIN run.docs :
             run.docs[i].id = d /\ run.docs[i].doc.rev = src.docs[d].rev
    BY <1>2, <2>1 DEF RunsSafely, Answered
  <2> QED
    BY <1>4, <2>2, DeliveryGives DEF Keeps
<1>6. run.last <= src.changesSeq
  BY <1>1 DEF CheckpointsSound
<1> QED
  BY <1>1, <1>2, <1>3, <1>4, <1>5, <1>6, BatchDone

\* The delivery has begun.
LEMMA BulkDocsKeeps ==
  ASSUME JobInv, BulkDocs
  PROVE  JobInv'
<1>1. /\ ReplicatorTypeOK /\ TargetSound /\ FetchedSound /\ CheckpointsSound
      /\ run \in Run /\ env \in Env /\ gap \in BOOLEAN
  BY DEF JobInv, ReplicatorTypeOK
<1>2. /\ At("write") /\ env.exists
      /\ run' = [run EXCEPT !.at = "commit"]
      /\ UNCHANGED <<job, src, tgt, cp, env, gap>>
  BY DEF BulkDocs, GoTo
<1>3. /\ run' \in Run /\ run'.at = "commit" /\ run'.session = run.session
      /\ run'.since = run.since /\ run'.last = run.last
      /\ run'.page = run.page /\ run'.docs = run.docs
      /\ run'.quiet = run.quiet /\ run'.pending = run.pending
  BY <1>1, <1>2 DEF Run, Steps
<1>4. InSession /\ InSession'
  BY <1>2, <1>3 DEF InSession, At
<1>5. TargetSound' /\ Keeps
  BY <1>1, <1>2, TargetStays
<1>6. FetchedSound'
  BY <1>1, <1>2, <1>3, FetchedStays
<1>7. CheckpointsSound'
  BY <1>1, <1>2, <1>3, <1>4 DEF CheckpointsSound, At
<1>8. ASSUME ~gap', env'.exists
      PROVE  RunsSafely'
  <2>1. RunsSafely
    BY <1>2, <1>8 DEF JobInv
  <2>2. (/\ Safe(run.since)
         /\ Safe(cp.source.recorded[run.session])
         /\ cp.source.session = run.session => Safe(cp.source.seq))'
    BY <1>2, <1>3, <1>4, <1>5, <2>1, SessionStays
  <2>3. \A c \in Docs : (Answered(c)' => Answered(c))
                         /\ (HasCurrent(c) => HasCurrent(c)')
    BY <1>2, <1>3, <1>5 DEF Answered, Keeps
  <2>4. (At("write") \/ At("commit") =>
           \A c \in Docs : Answered(c) =>
             \/ HasCurrent(c)
             \/ \E i \in DOMAIN run.docs :
                  run.docs[i].id = c /\ run.docs[i].doc.rev = src.docs[c].rev)'
    BY <1>2, <1>3, <2>1, <2>3 DEF RunsSafely, At
  <2>5. ~(At("diff") \/ At("fetch") \/ At("save_source") \/ At("save_target")
          \/ At("completed"))'
    BY <1>3 DEF At
  <2> QED
    BY <2>2, <2>4, <2>5 DEF RunsSafely
<1>9. env' \in Env /\ gap' \in BOOLEAN /\ (~gap' => ~gap)
  BY <1>1, <1>2 DEF Env
<1> QED
  BY <1>2, <1>3, <1>5, <1>6, <1>7, <1>8, <1>9, StepKeeps

-----------------------------------------------------------------------------
(* A run saves its position. *)

LEMMA RecordedSaved ==
  ASSUME ReplicatorTypeOK, NEW p \in {"source", "target"},
         NEW s \in Sessions, NEW since \in 0..MaxSeq,
         NEW new, new = Recorded(cp[p], s, since)
  PROVE  /\ new \in Checkpoint /\ new # NoCheckpoint
         /\ new.session = s /\ new.seq = since
         /\ \A i \in Sessions :
              new.recorded[i] = IF i = s /\ cp[p].recorded[i] = Empty
                                THEN since ELSE cp[p].recorded[i]
<1> DEFINE old == cp[p]
<1>1. old.recorded \in [Sessions -> FeedPosition]
  BY CheckpointsTyped
<1>2. new = [session |-> s, seq |-> since,
             recorded |-> [old.recorded EXCEPT
                             ![s] = IF @ = Empty THEN since ELSE @]]
  BY DEF Recorded
<1>3. 0..MaxSeq \subseteq FeedPosition
  BY PositionsAreNumbers
<1> HIDE DEF old
<1>4. new \in Checkpoint
  BY <1>1, <1>2, <1>3 DEF Checkpoint
<1>5. new.session # 0
  BY <1>2 DEF Sessions
<1>6. \A i \in Sessions :
        new.recorded[i] = IF i = s /\ old.recorded[i] = Empty
                          THEN since ELSE old.recorded[i]
  BY <1>1, <1>2
<1> QED
  BY <1>2, <1>4, <1>5, <1>6 DEF NoCheckpoint, old

\* cp' is cp, or has the position of the run at p.
SavedAt(p) ==
  \/ cp' = cp
  \/ cp' = [cp EXCEPT ![p] = Recorded(@, run.session, run.since)]

LEMMA PositionSaved ==
  ASSUME ReplicatorTypeOK, CheckpointsSound, NEW p \in {"source", "target"},
         At("save_source") \/ At("save_target"), SavedAt(p)
  PROVE  /\ run.since \in 0..MaxSeq /\ run.session \in Sessions
         /\ cp' \in [source : Checkpoint \cup {NoCheckpoint},
                     target : Checkpoint \cup {NoCheckpoint}]
         /\ \A q \in {"source", "target"} \ {p} : cp'[q] = cp[q]
         /\ \/ cp'[p] = cp[p]
            \/ /\ cp'[p] # NoCheckpoint /\ cp'[p].session = run.session
               /\ cp'[p].seq = run.since
               /\ \A i \in Sessions :
                    cp'[p].recorded[i] =
                      IF i = run.session /\ cp[p].recorded[i] = Empty
                      THEN run.since ELSE cp[p].recorded[i]
<1>1. run.since \in 0..MaxSeq /\ run.session \in Sessions
  <2>1. run.since \in FeedPosition /\ run.since # Empty
    BY RunTyped DEF CheckpointsSound
  <2>2. InSession
    BY DEF InSession, At
  <2> QED
    BY <2>1, <2>2 DEF FeedPosition, CheckpointsSound
<1>2. cp \in [source : Checkpoint \cup {NoCheckpoint},
              target : Checkpoint \cup {NoCheckpoint}]
  BY DEF ReplicatorTypeOK
<1>3. PICK new : new = Recorded(cp[p], run.session, run.since)
  OBVIOUS
<1>4. /\ new \in Checkpoint /\ new # NoCheckpoint
      /\ new.session = run.session /\ new.seq = run.since
      /\ \A i \in Sessions :
           new.recorded[i] = IF i = run.session /\ cp[p].recorded[i] = Empty
                             THEN run.since ELSE cp[p].recorded[i]
  <2>1. PICK s \in Sessions, since \in 0..MaxSeq :
          s = run.session /\ since = run.since
    BY <1>1
  <2>2. new = Recorded(cp[p], s, since)
    BY <1>3, <2>1
  <2> QED
    BY <2>1, <2>2, RecordedSaved
<1>5. cp' = cp \/ cp' = [cp EXCEPT ![p] = new]
  BY <1>2, <1>3 DEF SavedAt
<1>6. DOMAIN cp = {"source", "target"}
  BY <1>2
<1>7. CASE cp' = cp
  BY <1>1, <1>2, <1>7
<1>8. CASE cp' = [cp EXCEPT ![p] = new]
  <2>1. cp'[p] = new /\ \A q \in {"source", "target"} \ {p} : cp'[q] = cp[q]
    BY <1>6, <1>8
  <2>2. cp' \in [source : Checkpoint \cup {NoCheckpoint},
                 target : Checkpoint \cup {NoCheckpoint}]
    BY <1>2, <1>4, <1>8
  <2> QED
    BY <1>1, <1>4, <2>1, <2>2
<1> QED
  BY <1>5, <1>7, <1>8

\* The positions that a run saves are safe, so what is recorded of its session
\* is, and so is what the source says where both ends have its session.
LEMMA SavedSound ==
  ASSUME JobInv, NEW p \in {"source", "target"},
         At("save_source") \/ At("save_target"), SavedAt(p),
         job' = job, src' = src, tgt' = tgt, gap' = gap,
         run' \in Run, run'.session = run.session, run'.since = run.since,
         run'.docs \in {run.docs, <<>>}, run'.page \in {run.page, NoPage},
         run'.at \in {"save_target", "read", "completed"},
         run'.last \in {run.last, Empty},
         run'.quiet /\ (\/ run'.at = "save_target" /\ run'.pending = 0
                        \/ run'.at = "completed")
           => run.quiet /\ run.pending = 0,
         env' \in Env, env'.exists = env.exists,
         p = "target" /\ ~env.exists => cp' = cp
  PROVE  JobInv'
<1>1. /\ ReplicatorTypeOK /\ SourceSound /\ TargetSound /\ FetchedSound
      /\ CheckpointsSound /\ src \in Buckets /\ gap \in BOOLEAN
  BY DEF JobInv, ReplicatorTypeOK
<1>2. /\ run.since \in 0..MaxSeq /\ run.session \in Sessions
      /\ cp' \in [source : Checkpoint \cup {NoCheckpoint},
                  target : Checkpoint \cup {NoCheckpoint}]
      /\ \A q \in {"source", "target"} \ {p} : cp'[q] = cp[q]
      /\ \/ cp'[p] = cp[p]
         \/ /\ cp'[p] # NoCheckpoint /\ cp'[p].session = run.session
            /\ cp'[p].seq = run.since
            /\ \A i \in Sessions :
                 cp'[p].recorded[i] =
                   IF i = run.session /\ cp[p].recorded[i] = Empty
                   THEN run.since ELSE cp[p].recorded[i]
  BY <1>1, PositionSaved
<1>3. InSession /\ InSession'
  BY DEF InSession, At
<1>4. ReplicatorTypeOK'
  BY <1>1, <1>2 DEF ReplicatorTypeOK, Env
<1>5. SourceSound' /\ TargetSound' /\ Keeps /\ FetchedSound'
  BY <1>1, TargetStays, FetchedStays DEF SourceSound, SequencesOwned
<1>6. run.since <= src.changesSeq /\ run.since # Empty /\ run.session <= run.session
  BY <1>1, <1>2, <1>3 DEF CheckpointsSound, Sessions, Empty
<1>7. \A q \in {"source", "target"} :
        \/ cp'[q] = cp[q]
        \/ /\ cp'[q] # NoCheckpoint /\ cp'[q].session = run.session
           /\ cp'[q].seq = run.since
           /\ \A i \in Sessions :
                cp'[q].recorded[i] =
                  IF i = run.session /\ cp[q].recorded[i] = Empty
                  THEN run.since ELSE cp[q].recorded[i]
  BY <1>2
<1>8. CheckpointsSound'
  <2>1. run'.since <= src.changesSeq /\ run'.last <= src.changesSeq
    <3>1. Empty <= src.changesSeq
      BY <1>1, SourceFeed DEF Empty
    <3> QED
      BY <1>1, <3>1 DEF CheckpointsSound
  <2>2. ASSUME NEW q \in {"source", "target"}
        PROVE  /\ cp'[q].seq <= src.changesSeq
               /\ cp'[q] # NoCheckpoint =>
                    cp'[q].recorded[cp'[q].session] # Empty
               /\ \A i \in Sessions :
                    /\ cp'[q].recorded[i] <= src.changesSeq
                    /\ cp'[q].recorded[i] # Empty => i <= run.session
    <3>1. /\ cp[q].seq <= src.changesSeq
          /\ cp[q] # NoCheckpoint => cp[q].recorded[cp[q].session] # Empty
          /\ \A i \in Sessions : /\ cp[q].recorded[i] <= src.changesSeq
                                 /\ cp[q].recorded[i] # Empty => i <= run.session
      BY <1>1, <1>3 DEF CheckpointsSound
    <3>2. CASE cp'[q] = cp[q]
      BY <3>1, <3>2
    <3>3. CASE cp'[q] # cp[q]
      BY <1>2, <1>6, <1>7, <3>1, <3>3
    <3> QED
      BY <3>2, <3>3
  <2>3. ~env'.exists => cp'.target = NoCheckpoint
    BY <1>1, <1>2 DEF CheckpointsSound
  <2>4. run'.at = "save_source" \/ run'.at = "save_target" => run'.since # Empty
    BY <1>6
  <2> QED
    BY <1>2, <1>3, <2>1, <2>2, <2>3, <2>4 DEF CheckpointsSound, At
<1>9. ASSUME ~gap, env.exists
      PROVE  ResumesSafely' /\ RunsSafely'
  <2>1. ResumesSafely /\ RunsSafely
    BY <1>9 DEF JobInv
  <2>2. \A s : Safe(s) => Safe(s)'
    BY <1>5, SafeStays
  <2>3. Safe(run.since) /\ Safe(cp.source.recorded[run.session])
    BY <1>3, <2>1 DEF RunsSafely
  <2>4. cp.source.session = run.session => Safe(cp.source.seq)
    BY <1>3, <2>1 DEF RunsSafely
  <2>5. /\ \A i \in Sessions :
             \/ cp'.source.recorded[i] = cp.source.recorded[i]
             \/ i = run.session /\ cp'.source.recorded[i] = run.since
        /\ \/ cp'.source = cp.source
           \/ cp'.source.session = run.session /\ cp'.source.seq = run.since
    BY <1>7
  <2>6. Safe(cp.source.recorded[run.session])'
    BY <1>2, <2>2, <2>3, <2>5 DEF Safe
  <2>7. cp'.source.session = run.session => Safe(cp.source.seq)'
    BY <2>2, <2>3, <2>4, <2>5 DEF Safe
  <2>8. \A i \in Common(cp'.source, cp'.target) :
          i = run.session \/ (/\ i \in Common(cp.source, cp.target)
                              /\ cp'.source.recorded[i] = cp.source.recorded[i])
    <3> SUFFICES ASSUME NEW i \in Common(cp'.source, cp'.target),
                        i # run.session
                 PROVE  /\ i \in Common(cp.source, cp.target)
                        /\ cp'.source.recorded[i] = cp.source.recorded[i]
      OBVIOUS
    <3>1. i \in Sessions /\ cp'.source.recorded[i] # Empty
          /\ cp'.target.recorded[i] # Empty
      BY DEF Common
    <3>2. \A q \in {"source", "target"} : cp'[q].recorded[i] = cp[q].recorded[i]
      BY <1>7, <3>1
    <3> QED
      BY <3>1, <3>2 DEF Common
  <2>9. \A i \in Common(cp'.source, cp'.target) : Safe(cp.source.recorded[i])'
    BY <2>1, <2>2, <2>6, <2>8 DEF ResumesSafely, Safe
  <2>10. cp'.target # NoCheckpoint /\ cp'.source.session = cp'.target.session =>
           Safe(cp.source.seq)'
    <3> SUFFICES ASSUME cp'.target # NoCheckpoint,
                        cp'.source.session = cp'.target.session,
                        cp'.source.session # run.session
                 PROVE  Safe(cp.source.seq)'
      BY <2>7
    <3>1. cp'.source = cp.source /\ cp'.target = cp.target
      BY <1>7
    <3> QED
      BY <2>1, <2>2, <3>1 DEF ResumesSafely, Safe
  <2>11. ResumesSafely'
    BY <2>9, <2>10 DEF ResumesSafely
  <2>12. /\ (At("save_source") \/ At("save_target") =>
               (run.quiet /\ run.pending = 0 => \A d \in Docs : HasCurrent(d)))'
         /\ (At("completed") => (run.quiet => \A d \in Docs : HasCurrent(d)))'
    <3>1. run.quiet /\ run.pending = 0 => \A d \in Docs : HasCurrent(d)
      BY <2>1 DEF RunsSafely
    <3> QED
      BY <1>5, <3>1 DEF Keeps, At
  <2>13. ~(At("diff") \/ At("fetch") \/ At("write") \/ At("commit"))'
    BY DEF At
  <2>14. Safe(run.since)'
    BY <2>2, <2>3 DEF Safe
  <2>15. RunsSafely'
    BY <2>6, <2>7, <2>12, <2>13, <2>14 DEF RunsSafely
  <2> QED
    BY <2>11, <2>15
<1>10. ASSUME ~gap, ~env.exists
       PROVE  ResumesSafely'
  <2>1. cp'.target = NoCheckpoint
    BY <1>8, <1>10 DEF CheckpointsSound
  <2>2. Common(cp'.source, cp'.target) = {}
    BY <2>1 DEF Common, NoCheckpoint
  <2> QED
    BY <2>1, <2>2 DEF ResumesSafely
<1> QED
  BY <1>4, <1>5, <1>8, <1>9, <1>10 DEF JobInv

LEMMA SaveSourceKeeps ==
  ASSUME JobInv, SaveSource
  PROVE  JobInv'
<1>1. /\ ReplicatorTypeOK /\ run \in Run /\ env \in Env
  BY DEF JobInv, ReplicatorTypeOK
<1>2. /\ At("save_source") /\ run' = [run EXCEPT !.at = "save_target"]
      /\ UNCHANGED <<job, src, tgt, gap>>
  BY DEF SaveSource, GoTo
<1>3. /\ run' \in Run /\ run'.at = "save_target"
      /\ run'.session = run.session /\ run'.since = run.since
      /\ run'.docs = run.docs /\ run'.page = run.page
      /\ run'.last = run.last /\ run'.quiet = run.quiet
      /\ run'.pending = run.pending
  BY <1>1, <1>2 DEF Run, Steps
<1>4. SavedAt("source")
  BY <1>1 DEF SaveSource, SavedAt, ReplicatorTypeOK
<1>5. env' \in Env /\ env'.exists = env.exists
  <2>1. Fault \/ env' = env
    BY DEF SaveSource
  <2> QED
    BY <1>1, <1>2, <2>1, FaultTyped DEF Env
<1> QED
  BY <1>2, <1>3, <1>4, <1>5, SavedSound

LEMMA SaveTargetKeeps ==
  ASSUME JobInv, SaveTarget
  PROVE  JobInv'
<1>1. /\ ReplicatorTypeOK /\ run \in Run /\ env \in Env
  BY DEF JobInv, ReplicatorTypeOK
<1>2. /\ At("save_target") /\ run' = AfterSave(run)
      /\ UNCHANGED <<job, src, tgt, gap>>
  BY DEF SaveTarget
<1>3. /\ run' \in Run /\ run'.session = run.session
      /\ run'.since = run.since /\ run'.quiet = run.quiet
      /\ run'.last = Empty /\ run'.page = NoPage /\ run'.docs = <<>>
      /\ run'.at \in {"read", "completed"}
      /\ run'.at = "completed" => run.pending = 0
  BY <1>1, <1>2, AfterSaveShape
<1>4. SavedAt("target") /\ (~env.exists => cp' = cp)
  BY <1>1 DEF SaveTarget, SavedAt, ReplicatorTypeOK
<1>5. env' \in Env /\ env'.exists = env.exists
  <2>1. Fault \/ env' = env
    BY DEF SaveTarget
  <2> QED
    BY <1>1, <1>2, <2>1, FaultTyped DEF Env
<1> QED
  BY <1>2, <1>3, <1>4, <1>5, SavedSound

-----------------------------------------------------------------------------
(* The target is written to by others, or removed. *)

\* A client's transaction at the target, at once.
TargetEdit(d) ==
  /\ tgt.docs[d].rev.gen < MaxGen
  /\ tgt' \in Edited(tgt, d)
  /\ UNCHANGED <<job, src, cp, run, env, gap>>

LEMMA TargetEditKeepsCurrent ==
  ASSUME JobInv, NeverCut, NEW d \in Docs, TargetEdit(d)
  PROVE  TargetSound' /\ Keeps
<1>1. src \in Buckets /\ TargetSound
  BY DEF JobInv, ReplicatorTypeOK
<1>2. tgt.docs[d].rev.gen < MaxGen /\ tgt' \in Edited(tgt, d) /\ src' = src
  BY DEF TargetEdit
<1>3. TargetSound' /\ \A c \in Docs : Named(tgt, c) \subseteq Named(tgt', c)
  BY <1>1, <1>2, TargetWritten
<1>4. tgt' \in TargetBuckets /\ \A c \in Docs : KeptAt(tgt', c)
  BY <1>3 DEF TargetSound
<1>5. ASSUME NEW c \in Docs, HasCurrent(c)
      PROVE  HasCurrent(c)'
  <2>1. src.docs[c] # NoDoc => src.docs[c].rev \in Named(tgt, c)
    BY <1>1, <1>5, HasCurrentNamed
  <2>2. src.docs[c] # NoDoc => src.docs[c].rev \in Named(tgt', c)
    BY <1>3, <2>1
  <2> QED
    BY <1>1, <1>2, <1>4, <2>2, CurrentStays
<1> QED
  BY <1>3, <1>5 DEF Keeps

\* A step that changes nothing but the target, and counts it.
LEMMA TargetStepKeeps ==
  ASSUME JobInv, TargetSound', Keeps, UNCHANGED <<job, src, cp, run, gap>>,
         env' \in Env, env'.exists = env.exists
  PROVE  JobInv'
<1>1. /\ ReplicatorTypeOK /\ FetchedSound /\ CheckpointsSound
      /\ gap \in BOOLEAN /\ run \in Run /\ env \in Env /\ job \in Jobs
  BY DEF JobInv, ReplicatorTypeOK
<1>2. UNCHANGED <<job, src, cp, run, gap>>
  OBVIOUS
<1>3. TargetSound' /\ Keeps
  OBVIOUS
<1>4. env' \in Env /\ env'.exists = env.exists
  OBVIOUS
<1>5. FetchedSound'
  BY <1>1, <1>2, FetchedStays
<1>6. CheckpointsSound'
  BY <1>1, <1>2, <1>4 DEF CheckpointsSound, At, InSession
<1>7. ASSUME ~gap', env'.exists
      PROVE  RunsSafely'
  <2>1. RunsSafely
    BY <1>2, <1>4, <1>7 DEF JobInv
  <2>2. InSession' <=> InSession
    BY <1>2 DEF InSession
  <2>3. (InSession => /\ Safe(run.since)
                      /\ Safe(cp.source.recorded[run.session])
                      /\ cp.source.session = run.session => Safe(cp.source.seq))'
    <3> SUFFICES ASSUME InSession
                 PROVE  /\ Safe(run.since)'
                        /\ Safe(cp.source.recorded[run.session])'
                        /\ cp'.source.session = run'.session =>
                             Safe(cp.source.seq)'
      BY <2>2
    <3> QED
      BY <1>2, <1>3, <2>1, SessionStays
  <2>4. \A c \in Docs : (Answered(c)' => Answered(c))
                         /\ (HasCurrent(c) => HasCurrent(c)')
    BY <1>2, <1>3 DEF Answered, Keeps
  <2>5. (At("diff") \/ At("fetch") =>
           \A c \in Docs : Answered(c) =>
             HasCurrent(c) \/ src.docs[c].rev \in run.page[c])'
    BY <1>2, <2>1, <2>4 DEF RunsSafely, At
  <2>6. (At("write") \/ At("commit") =>
           \A c \in Docs : Answered(c) =>
             \/ HasCurrent(c)
             \/ \E i \in DOMAIN run.docs :
                  run.docs[i].id = c /\ run.docs[i].doc.rev = src.docs[c].rev)'
    BY <1>2, <2>1, <2>4 DEF RunsSafely, At
  <2>7. /\ (At("save_source") \/ At("save_target") =>
              (run.quiet /\ run.pending = 0 => \A c \in Docs : HasCurrent(c)))'
        /\ (At("completed") => (run.quiet => \A c \in Docs : HasCurrent(c)))'
    BY <1>2, <2>1, <2>4 DEF RunsSafely, At
  <2> QED
    BY <2>3, <2>5, <2>6, <2>7 DEF RunsSafely
<1>8. run' \in Run /\ gap' \in BOOLEAN /\ (~gap' => ~gap)
  BY <1>1, <1>2
<1> QED
  BY <1>2, <1>3, <1>4, <1>5, <1>6, <1>7, <1>8, StepKeeps

LEMMA TargetEditKeeps ==
  ASSUME JobInv, NeverCut, NEW d \in Docs, TargetEdit(d)
  PROVE  JobInv'
<1>1. env \in Env /\ UNCHANGED <<job, src, cp, run, env, gap>>
  BY DEF JobInv, ReplicatorTypeOK, TargetEdit
<1>2. env' \in Env /\ env'.exists = env.exists
  BY <1>1 DEF Env
<1>3. TargetSound' /\ Keeps
  BY TargetEditKeepsCurrent
<1> QED
  BY <1>1, <1>2, <1>3, TargetStepKeeps

\* A client's transaction has begun.
LEMMA TargetWriteKeeps ==
  ASSUME JobInv, NEW d \in Docs, TargetWrite(d)
  PROVE  JobInv'
<1>1. /\ TargetSound /\ env \in Env /\ job \in Jobs
      /\ env.writes < Bounds[job].target
      /\ env' = [env EXCEPT !.writes = @ + 1]
      /\ UNCHANGED <<job, src, tgt, cp, run, gap>>
  BY DEF JobInv, ReplicatorTypeOK, TargetWrite
<1>2. env' \in Env /\ env'.exists = env.exists
  <2>1. Bounds[job].target \in Nat
    BY <1>1, ReplicatorAssumption
  <2>2. /\ env.exists \in BOOLEAN /\ env.writes \in 0..Bounds[job].target
        /\ env.faults \in 0..Bounds[job].faults
        /\ env' = [exists |-> env.exists, writes |-> env.writes + 1,
                   faults |-> env.faults]
    BY <1>1 DEF Env
  <2>3. env.writes + 1 \in 0..Bounds[job].target
    BY <1>1, <2>1, <2>2
  <2> QED
    BY <2>2, <2>3 DEF Env
<1> QED
  BY <1>1, <1>2, TargetStays, TargetStepKeeps

LEMMA EmptySound ==
  /\ EmptyBuckets \in Buckets /\ EmptyBuckets \in TargetBuckets
  /\ \A d \in Docs : KeptAt(EmptyBuckets, d)
<1>1. EmptyBuckets \in Buckets
  BY DocTxAssumption DEF EmptyBuckets, Buckets
<1>2. \A d \in Docs : KeptAt(EmptyBuckets, d)
  BY DEF KeptAt, EmptyBuckets, leafRevs
<1> QED
  BY <1>1, <1>2, BucketsAreTargets

LEMMA TargetRemovedKeeps ==
  ASSUME JobInv, TargetRemoved
  PROVE  JobInv'
<1>1. /\ ReplicatorTypeOK /\ SourceSound /\ FetchedSound /\ CheckpointsSound
      /\ env \in Env /\ job \in Jobs
      /\ cp \in [source : Checkpoint \cup {NoCheckpoint},
                 target : Checkpoint \cup {NoCheckpoint}]
      /\ src \in Buckets
  BY DEF JobInv, ReplicatorTypeOK
<1>2. /\ env.faults < Bounds[job].faults
      /\ env' = [env EXCEPT !.exists = FALSE, !.faults = @ + 1]
      /\ tgt' = EmptyBuckets
      /\ cp' = [cp EXCEPT !.target = NoCheckpoint]
      /\ UNCHANGED <<job, src, run, gap>>
  BY DEF TargetRemoved
<1>3. env' \in Env /\ ~env'.exists
  <2>1. Bounds[job].faults \in Nat
    BY <1>1, ReplicatorAssumption
  <2>2. /\ env.writes \in 0..Bounds[job].target
        /\ env.faults \in 0..Bounds[job].faults
        /\ env' = [exists |-> FALSE, writes |-> env.writes,
                   faults |-> env.faults + 1]
    BY <1>1, <1>2 DEF Env
  <2>3. env.faults + 1 \in 0..Bounds[job].faults
    BY <1>2, <2>1, <2>2
  <2> QED
    BY <1>2, <2>2, <2>3 DEF Env
<1>4. cp'.source = cp.source /\ cp'.target = NoCheckpoint
      /\ cp' \in [source : Checkpoint \cup {NoCheckpoint},
                  target : Checkpoint \cup {NoCheckpoint}]
  BY <1>1, <1>2
<1>5. ReplicatorTypeOK'
  BY <1>1, <1>2, <1>3, <1>4 DEF ReplicatorTypeOK, Env
<1>6. SourceSound' /\ FetchedSound'
  BY <1>1, <1>2, FetchedStays DEF SourceSound, SequencesOwned
<1>7. TargetSound'
  BY <1>2, EmptySound DEF TargetSound
<1>8. CheckpointsSound'
  <2>1. Empty <= src.changesSeq
    BY <1>1, SourceFeed DEF Empty
  <2>2. /\ NoCheckpoint.seq = Empty
        /\ \A i \in Sessions : NoCheckpoint.recorded[i] = Empty
    BY DEF NoCheckpoint
  <2> HIDE DEF NoCheckpoint
  <2>3. ASSUME NEW p \in {"source", "target"}
        PROVE  cp'[p] = cp[p] \/ cp'[p] = NoCheckpoint
    BY <1>4
  <2>4. InSession' <=> InSession
    BY <1>2 DEF InSession
  <2> QED
    BY <1>1, <1>2, <1>4, <2>1, <2>2, <2>3, <2>4 DEF CheckpointsSound, At
<1>9. ResumesSafely'
  <2>1. Common(cp'.source, cp'.target) = {}
    BY <1>4 DEF Common, NoCheckpoint
  <2> QED
    BY <1>4, <2>1 DEF ResumesSafely
<1> QED
  BY <1>3, <1>5, <1>6, <1>7, <1>8, <1>9 DEF JobInv

-----------------------------------------------------------------------------
(* The invariant. *)

LEMMA JobStarts ==
  ASSUME ReplicatorInit
  PROVE  JobInv
<1>1. /\ job \in Jobs /\ src = EmptyBuckets /\ tgt = EmptyBuckets
      /\ cp = [source |-> NoCheckpoint, target |-> NoCheckpoint]
      /\ run = NoRun
      /\ env = [exists |-> ~job.createTarget, writes |-> 0, faults |-> 0]
      /\ gap = FALSE
  BY DEF ReplicatorInit
<1>2. src \in Buckets /\ TargetSound /\ \A d \in Docs : KeptAt(src, d)
  BY <1>1, EmptySound DEF TargetSound
<1>3. /\ src.changes = {} /\ src.changesSeq = 0 /\ src.invalSeq = 0
      /\ src.deleted = {}
      /\ \A d \in Docs : /\ src.docs[d] = NoDoc /\ src.inval[d] = 0
                         /\ leafRevs(src, d) = {}
  BY <1>1 DEF EmptyBuckets, leafRevs
<1>4. ReplicatorTypeOK
  <2>1. env \in Env
    <3>1. /\ Bounds[job].target \in Nat /\ Bounds[job].faults \in Nat
      BY <1>1, ReplicatorAssumption
    <3>2. job.createTarget \in BOOLEAN
      BY <1>1, ReplicatorAssumption DEF JobSettings
    <3> QED
      BY <1>1, <3>1, <3>2 DEF Env
  <2>2. cp \in [source : Checkpoint \cup {NoCheckpoint},
                target : Checkpoint \cup {NoCheckpoint}]
    BY <1>1
  <2> QED
    BY <1>1, <1>2, <2>1, <2>2, NoRunTyped DEF ReplicatorTypeOK
<1>5. SourceSound
  <2>1. SequencesOwned
    BY <1>3 DEF SequencesOwned
  <2>2. ASSUME NEW d \in Docs
        PROVE  SoundAt(src, d)
    <3>1. WinnerRuleAt(src, d)
      BY <1>3 DEF WinnerRuleAt
    <3>2. IndicesExactAt(src, d)
      <4>1. ~src.docs[d].deleted
        BY <1>3 DEF NoDoc
      <4>2. {e \in src.changes : e.id = d} = {}
        BY <1>3
      <4> QED
        BY <1>3, <4>1, <4>2 DEF IndicesExactAt
    <3>3. LeavesHeadHistoryAt(src, d)
      BY <1>3 DEF LeavesHeadHistoryAt
    <3> QED
      BY <3>1, <3>2, <3>3 DEF SoundAt
  <2> QED
    BY <1>2, <2>1, <2>2 DEF SourceSound
<1>6. FetchedSound
  <2>1. run.docs = <<>> /\ run.page = NoPage
    BY <1>1, NoRunTyped
  <2>2. DOMAIN run.docs = {}
    BY <2>1
  <2>3. \A d \in Docs : run.page[d] = {}
    BY <2>1 DEF NoPage
  <2>4. {d \in Docs : run.page[d] # {}} = {}
    BY <2>3
  <2>5. IsFiniteSet({d \in Docs : run.page[d] # {}})
    BY <2>4, FS_EmptySet
  <2> QED
    BY <2>2, <2>3, <2>5 DEF FetchedSound
<1>7. run.at = "idle" /\ run.since = Empty /\ run.last = Empty /\ ~InSession
  BY <1>1, NoRunTyped DEF InSession
<1>8. CheckpointsSound
  <2>1. \A p \in {"source", "target"} : cp[p] = NoCheckpoint
    BY <1>1
  <2>2. NoCheckpoint.seq = Empty
        /\ \A i \in Sessions : NoCheckpoint.recorded[i] = Empty
    BY DEF NoCheckpoint
  <2> HIDE DEF NoCheckpoint
  <2>3. Empty <= src.changesSeq
    BY <1>3 DEF Empty
  <2> QED
    BY <1>1, <1>7, <2>1, <2>2, <2>3 DEF CheckpointsSound, At
<1>9. ResumesSafely
  <2>1. Common(cp.source, cp.target) = {}
    BY <1>1 DEF Common, NoCheckpoint
  <2> QED
    BY <1>1, <2>1 DEF ResumesSafely
<1>10. RunsSafely
  BY <1>7 DEF RunsSafely, At
<1> QED
  BY <1>2, <1>4, <1>5, <1>6, <1>8, <1>9, <1>10 DEF JobInv

LEMMA ReplicatorStarts ==
  ASSUME ReplicatorInit
  PROVE  ReplicatorInv
<1>1. JobInv
  BY JobStarts
<1>2. LogsSound
  <2>1. srcLogs = <<>> /\ tgtLogs = <<>> /\ run.at = "idle"
    BY NoRunTyped DEF ReplicatorInit
  <2> QED
    BY <2>1 DEF LogsSound, At
<1>3. overlapped = FALSE
  BY DEF ReplicatorInit
<1> QED
  BY <1>1, <1>2, <1>3 DEF ReplicatorInv

LEMMA NothingKeeps ==
  ASSUME JobInv, UNCHANGED <<job, src, tgt, cp, run, env, gap>>
  PROVE  JobInv'
BY DEF JobInv, ReplicatorTypeOK, Env, SourceSound,
       SequencesOwned, TargetSound, FetchedSound, CheckpointsSound, At,
       InSession, ResumesSafely, RunsSafely, Safe, HasCurrent, Answered

LEMMA OverlapKept ==
  ASSUME [ReplicatorNext]_replVars
  PROVE  \/ overlapped' = overlapped \/ BulkDocs
         \/ \E d \in Docs : SourceWrite(d) \/ TargetWrite(d)
<1>1. CASE \/ StartRun \/ VerifyPeers \/ LoadsCheckpoint \/ GetChanges
           \/ RevsDiff \/ BulkGet \/ CommitBatch
  BY <1>1 DEF StartRun, VerifyPeers, LoadsCheckpoint, Loads, GetChanges,
              RevsDiff, BulkGet, Fetch, CommitBatch, clientVars
<1>2. CASE \/ TargetMissing \/ SaveSource \/ SaveTarget \/ SourceCommit
           \/ TargetCommit \/ TargetRemoved \/ Stops \/ LoadFails \/ Again
  BY <1>2 DEF TargetMissing, SaveSource, SaveTarget, SourceCommit,
              TargetCommit, TargetRemoved, Stops, LoadFails, Loads,
              Again, clientVars
<1>3. CASE UNCHANGED replVars
  BY <1>3 DEF replVars, clientVars
<1> QED
  BY <1>1, <1>2, <1>3 DEF ReplicatorNext, Runs

LEMMA OverlapStays ==
  ASSUME overlapped \in BOOLEAN, [ReplicatorNext]_replVars, ~overlapped'
  PROVE  overlapped = FALSE
<1>1. CASE \E d \in Docs : SourceWrite(d) \/ TargetWrite(d)
  BY <1>1 DEF SourceWrite, TargetWrite
<1>2. CASE BulkDocs
  BY <1>2 DEF BulkDocs
<1> QED
  BY <1>1, <1>2, OverlapKept

LEMMA OneLogCommitted ==
  ASSUME NEW op, NEW logs, logs = <<op>>, NEW i \in DOMAIN logs
  PROVE  logs[i] = op /\ RemoveAt(logs, i) = <<>>
<1>1. i = 1 /\ Len(logs) = 1 /\ logs[1] = op /\ logs \in Seq({op})
  OBVIOUS
<1>2. RemoveAt(logs, i) = SubSeq(logs, 1, 0) \o SubSeq(logs, 2, 1)
  BY <1>1 DEF RemoveAt
<1>3. SubSeq(logs, 1, 0) = <<>> /\ SubSeq(logs, 2, 1) = <<>>
  BY <1>1
<1> QED
  BY <1>1, <1>2, <1>3

\* A log is applied as if the transaction had run just now.
LEMMA SourceCommits ==
  ASSUME LogsSound, SourceCommit
  PROVE  srcLogs' = <<>> /\ \E d \in Docs : SourceEdit(d)
<1>1. PICK i \in DOMAIN srcLogs :
        src' = Apply(src, srcLogs[i]) /\ srcLogs' = RemoveAt(srcLogs, i)
  BY DEF SourceCommit
<1>2. srcLogs # <<>>
  BY <1>1
<1>3. PICK d \in Docs :
        /\ src.docs[d].rev.gen < MaxGen /\ src.changesSeq < Bounds[job].source
        /\ \E op \in EditLogs(src, d) : srcLogs = <<op>>
  BY <1>2 DEF LogsSound
<1> PICK op \in EditLogs(src, d) : srcLogs = <<op>>
  BY <1>3
<1>4. srcLogs[i] = op /\ RemoveAt(srcLogs, i) = <<>>
  BY <1>3, OneLogCommitted
<1>5. SourceEdit(d)
  BY <1>1, <1>3, <1>4 DEF SourceEdit, Edited, SourceCommit
<1> QED
  BY <1>1, <1>4, <1>5

LEMMA TargetCommits ==
  ASSUME LogsSound, TargetCommit
  PROVE  tgtLogs' = <<>> /\ tgtLogs # <<>> /\ \E d \in Docs : TargetEdit(d)
<1>1. PICK i \in DOMAIN tgtLogs :
        tgt' = Apply(tgt, tgtLogs[i]) /\ tgtLogs' = RemoveAt(tgtLogs, i)
  BY DEF TargetCommit
<1>2. tgtLogs # <<>>
  BY <1>1
<1>3. PICK d \in Docs :
        /\ tgt.docs[d].rev.gen < MaxGen
        /\ \E op \in EditLogs(tgt, d) : tgtLogs = <<op>>
  BY <1>2 DEF LogsSound
<1> PICK op \in EditLogs(tgt, d) : tgtLogs = <<op>>
  BY <1>3
<1>4. tgtLogs[i] = op /\ RemoveAt(tgtLogs, i) = <<>>
  BY <1>3, OneLogCommitted
<1>5. TargetEdit(d)
  BY <1>1, <1>3, <1>4 DEF TargetEdit, Edited, TargetCommit
<1> QED
  BY <1>1, <1>2, <1>4, <1>5

LEMMA BatchCommits ==
  ASSUME LogsSound, CommitBatch
  PROVE  tgtLogs = <<>> /\ Delivers
<1>1. tgtLogs = <<>> /\ batch = Delivery(tgt, run.docs)
  BY DEF LogsSound, CommitBatch
<1> QED
  BY <1>1 DEF CommitBatch, Delivers, Stored

\* Until transactions overlap every step is one of the job with transactions
\* at once, or keeps the job as it is.
LEMMA StepsKeepJob ==
  ASSUME JobInv, LogsSound, NeverCut, [ReplicatorNext]_replVars
  PROVE  JobInv'
<1>1. CASE \E d \in Docs : SourceWrite(d)
  <2>1. UNCHANGED <<job, src, tgt, cp, run, env, gap>>
    BY <1>1 DEF SourceWrite
  <2> QED
    BY <2>1, NothingKeeps
<1>2. CASE \E d \in Docs : TargetWrite(d)
  BY <1>2, TargetWriteKeeps
<1>3. CASE SourceCommit
  BY <1>3, SourceCommits, SourceEditKeeps
<1>4. CASE TargetCommit
  BY <1>4, TargetCommits, TargetEditKeeps
<1>5. CASE Runs
  <2>1. CASE StartRun
    BY <2>1, StartRunKeeps
  <2>2. CASE VerifyPeers
    BY <2>2, VerifyPeersKeeps
  <2>3. CASE LoadsCheckpoint
    BY <2>3, LoadingKeeps
  <2>4. CASE GetChanges
    BY <2>4, GetChangesKeeps
  <2>5. CASE RevsDiff
    BY <2>5, RevsDiffKeeps
  <2>6. CASE BulkGet
    BY <2>6, BulkGetKeeps
  <2>7. CASE BulkDocs
    BY <2>7, BulkDocsKeeps
  <2>8. CASE CommitBatch
    BY <2>8, BatchCommits, DeliversKeeps
  <2>9. CASE TargetMissing
    BY <2>9, RunEndsKeeps
  <2>10. CASE SaveSource
    BY <2>10, SaveSourceKeeps
  <2>11. CASE SaveTarget
    BY <2>11, SaveTargetKeeps
  <2> QED
    BY <1>5, <2>1, <2>2, <2>3, <2>4, <2>5, <2>6, <2>7, <2>8, <2>9, <2>10, <2>11
       DEF Runs
<1>6. CASE TargetRemoved
  BY <1>6, TargetRemovedKeeps
<1>7. CASE Stops \/ Again
  BY <1>7, RunEndsKeeps
<1>8. CASE LoadFails
  BY <1>8, LoadingKeeps
<1>9. CASE UNCHANGED replVars
  <2>1. UNCHANGED <<job, src, tgt, cp, run, env, gap>>
    BY <1>9 DEF replVars
  <2> QED
    BY <2>1, NothingKeeps
<1> QED
  BY <1>1, <1>2, <1>3, <1>4, <1>5, <1>6, <1>7, <1>8, <1>9 DEF ReplicatorNext

\* A step of the run that applies and begins no transaction.
LEMMA LogsStay ==
  ASSUME LogsSound, UNCHANGED <<job, src, srcLogs>>,
         tgtLogs' = <<>> \/ UNCHANGED <<tgt, tgtLogs>>,
         ~(At("commit") /\ env.exists)'
  PROVE  LogsSound'
<1>1. (\/ srcLogs = <<>>
       \/ \E d \in Docs : /\ src.docs[d].rev.gen < MaxGen
                          /\ src.changesSeq < Bounds[job].source
                          /\ \E op \in EditLogs(src, d) : srcLogs = <<op>>)'
  BY DEF LogsSound
<1>2. (\/ tgtLogs = <<>>
       \/ \E d \in Docs : /\ tgt.docs[d].rev.gen < MaxGen
                          /\ \E op \in EditLogs(tgt, d) : tgtLogs = <<op>>)'
  BY DEF LogsSound
<1> QED
  BY <1>1, <1>2 DEF LogsSound

LEMMA NeverInCommit ==
  ASSUME NEW r, "at" \in DOMAIN r
  PROVE  AfterSave(r).at # "commit" /\ AfterBatch(r).at # "commit"
BY DEF AfterSave, AfterBatch, NoRun

LEMMA StepsKeepLogs ==
  ASSUME JobInv, LogsSound, [ReplicatorNext]_replVars, ~overlapped, ~overlapped'
  PROVE  LogsSound'
<1> DEFINE SourceLogs ==
             \/ srcLogs = <<>>
             \/ \E d \in Docs : /\ src.docs[d].rev.gen < MaxGen
                                /\ src.changesSeq < Bounds[job].source
                                /\ \E op \in EditLogs(src, d) : srcLogs = <<op>>
           TargetLogs ==
             \/ tgtLogs = <<>>
             \/ \E d \in Docs : /\ tgt.docs[d].rev.gen < MaxGen
                                /\ \E op \in EditLogs(tgt, d) : tgtLogs = <<op>>
           BatchLogs == At("commit") /\ env.exists =>
                          tgtLogs = <<>> /\ batch = Delivery(tgt, run.docs)
<1>1. run \in Run /\ SourceLogs /\ TargetLogs /\ BatchLogs
  BY DEF JobInv, ReplicatorTypeOK, LogsSound
<1>2. SourceLogs' /\ TargetLogs' /\ BatchLogs' => LogsSound'
  BY DEF LogsSound
<1>3. ASSUME NEW d \in Docs, SourceWrite(d)
      PROVE  LogsSound'
  <2>1. /\ UNCHANGED <<job, src, tgt, run, batch, env, tgtLogs>>
        /\ src.docs[d].rev.gen < MaxGen /\ srcLogs = <<>>
        /\ src.changesSeq + Len(srcLogs) < Bounds[job].source
        /\ \E op \in EditLogs(src, d) : srcLogs' = Append(srcLogs, op)
    BY <1>3 DEF SourceWrite
  <2>2. /\ \A op : Append(<<>>, op) = <<op>>
        /\ Len(srcLogs) = 0
    BY <2>1
  <2>3. src.changesSeq \in Nat
    BY SourceFeed DEF JobInv, ReplicatorTypeOK
  <2>4. src.changesSeq < Bounds[job].source
    BY <2>1, <2>2, <2>3
  <2>5. SourceLogs'
    BY <2>1, <2>2, <2>4
  <2>6. TargetLogs'
    BY <1>1, <2>1
  <2>7. BatchLogs'
    BY <1>1, <2>1 DEF At, Delivery, Arriving
  <2> QED
    BY <1>2, <2>5, <2>6, <2>7
<1>4. CASE SourceCommit
  <2>1. /\ UNCHANGED <<job, tgt, batch, env, tgtLogs>>
        /\ run' = [run EXCEPT !.quiet = FALSE]
    BY <1>4 DEF SourceCommit
  <2>2. run'.at = run.at /\ run'.docs = run.docs
    BY <1>1, <2>1 DEF Run
  <2>3. SourceLogs'
    BY <1>4, SourceCommits
  <2>4. TargetLogs'
    BY <1>1, <2>1
  <2>5. BatchLogs'
    BY <1>1, <2>1, <2>2 DEF At, Delivery, Arriving
  <2> QED
    BY <1>2, <2>3, <2>4, <2>5
<1>5. ASSUME NEW d \in Docs, TargetWrite(d)
      PROVE  LogsSound'
  <2>1. /\ UNCHANGED <<job, src, tgt, run, batch, srcLogs>>
        /\ tgt.docs[d].rev.gen < MaxGen /\ tgtLogs = <<>> /\ run.at # "commit"
        /\ \E op \in EditLogs(tgt, d) : tgtLogs' = Append(tgtLogs, op)
    BY <1>5 DEF TargetWrite
  <2>2. \A op : Append(<<>>, op) = <<op>>
    OBVIOUS
  <2>3. SourceLogs'
    BY <1>1, <2>1
  <2>4. TargetLogs'
    BY <2>1, <2>2
  <2>5. BatchLogs'
    BY <2>1 DEF At
  <2> QED
    BY <1>2, <2>3, <2>4, <2>5
<1>6. CASE TargetCommit
  <2>1. tgtLogs # <<>> /\ tgtLogs' = <<>>
    BY <1>6, TargetCommits
  <2>2. UNCHANGED <<job, src, srcLogs, run, env>>
    BY <1>6 DEF TargetCommit
  <2>3. ~(At("commit") /\ env.exists)'
    BY <1>1, <2>1, <2>2 DEF At
  <2> QED
    BY <2>1, <2>2, <2>3, LogsStay
<1>7. CASE TargetRemoved
  <2>1. UNCHANGED <<job, src, srcLogs>> /\ tgtLogs' = <<>>
    BY <1>7 DEF TargetRemoved
  <2>2. ~env'.exists
    BY <1>7 DEF TargetRemoved, JobInv, ReplicatorTypeOK, Env
  <2> QED
    BY <2>1, <2>2, LogsStay DEF At
<1>8. CASE BulkDocs
  <2>1. /\ UNCHANGED <<job, src, tgt, srcLogs, tgtLogs>> /\ tgtLogs = <<>>
        /\ run' = [run EXCEPT !.at = "commit"]
        /\ batch' = Delivery(tgt, run.docs)
    BY <1>8 DEF BulkDocs, GoTo
  <2>2. run'.docs = run.docs
    BY <1>1, <2>1 DEF Run
  <2>3. SourceLogs'
    BY <1>1, <2>1
  <2>4. TargetLogs'
    BY <2>1
  <2>5. BatchLogs'
    BY <2>1, <2>2 DEF At, Delivery, Arriving
  <2> QED
    BY <1>2, <2>3, <2>4, <2>5
<1>9. CASE CommitBatch
  <2>1. tgtLogs = <<>>
    BY <1>9, BatchCommits
  <2>2. /\ UNCHANGED <<job, src, srcLogs, tgtLogs>>
        /\ run' = AfterBatch(run)
    BY <1>9 DEF CommitBatch, clientVars
  <2>3. ~At("commit")'
    BY <1>1, <2>2, NeverInCommit DEF At, Run
  <2> QED
    BY <2>1, <2>2, <2>3, LogsStay
<1>10. CASE StartRun \/ VerifyPeers \/ LoadsCheckpoint \/ LoadFails
  <2>1. UNCHANGED <<job, src, tgt, srcLogs, tgtLogs>>
    BY <1>10 DEF StartRun, VerifyPeers, LoadsCheckpoint, LoadFails, Loads,
                 clientVars
  <2>2. ~At("commit")'
    BY <1>1, <1>10 DEF StartRun, VerifyPeers, LoadsCheckpoint, LoadFails,
                       Loads, GoTo, At, Run
  <2> QED
    BY <2>1, <2>2, LogsStay
<1>11. CASE GetChanges
  <2>1. UNCHANGED <<job, src, tgt, srcLogs, tgtLogs>>
    BY <1>11 DEF GetChanges, clientVars
  <2>2. /\ DOMAIN run = {"at", "session", "since", "page", "last", "pending",
                         "docs", "quiet"}
    BY <1>1 DEF Run
  <2>3. PICK p, l, n, read :
          /\ read = [run EXCEPT !.at = "diff", !.page = p, !.last = l,
                                !.pending = n, !.quiet = TRUE]
          /\ run' = AfterBatch(read) \/ run' = read
    BY <1>11, Zenon DEF GetChanges
  <2>4. read.at = "diff" /\ "at" \in DOMAIN read
    BY <2>2, <2>3
  <2>5. ~At("commit")'
    BY <2>3, <2>4, NeverInCommit DEF At
  <2> QED
    BY <2>1, <2>5, LogsStay
<1>12. CASE RevsDiff \/ BulkGet \/ SaveSource \/ SaveTarget
  <2>1. UNCHANGED <<job, src, tgt, srcLogs, tgtLogs>>
    BY <1>12 DEF RevsDiff, BulkGet, Fetch, SaveSource, SaveTarget, clientVars
  <2>2. \/ run' = AfterBatch(run) \/ run' = AfterSave(run)
        \/ run'.at \in {"fetch", "write", "save_target"}
    BY <1>1, <1>12 DEF RevsDiff, BulkGet, Fetch, SaveSource, SaveTarget, GoTo, Run
  <2>3. ~At("commit")'
    BY <1>1, <2>2, NeverInCommit DEF At, Run
  <2> QED
    BY <2>1, <2>3, LogsStay
<1>13. CASE TargetMissing \/ Stops \/ Again
  <2>1. UNCHANGED <<job, src, tgt, srcLogs, tgtLogs>> /\ run' = NoRun
    BY <1>13 DEF TargetMissing, Stops, Again, RunEnds, clientVars
  <2> QED
    BY <2>1, NoRunTyped, LogsStay DEF At
<1>14. CASE UNCHANGED replVars
  BY <1>1, <1>2, <1>14 DEF replVars, clientVars, At, Delivery, Arriving
<1> QED
  BY <1>3, <1>4, <1>5, <1>6, <1>7, <1>8, <1>9, <1>10, <1>11, <1>12, <1>13,
     <1>14 DEF ReplicatorNext, Runs

LEMMA ReplicatorSteps ==
  ASSUME ReplicatorInv, NeverCut, [ReplicatorNext]_replVars
  PROVE  ReplicatorInv'
<1>1. overlapped \in BOOLEAN
  BY DEF ReplicatorInv
<1>2. overlapped' \in BOOLEAN
  <2>1. CASE \E d \in Docs : SourceWrite(d) \/ TargetWrite(d)
    BY <1>1, <2>1 DEF SourceWrite, TargetWrite
  <2>2. CASE BulkDocs
    BY <1>1, <2>2 DEF BulkDocs
  <2>3. CASE overlapped' = overlapped
    BY <1>1, <2>3
  <2> QED
    BY <2>1, <2>2, <2>3, OverlapKept
<1>3. ASSUME ~overlapped'
      PROVE  JobInv' /\ LogsSound'
  <2>1. ~overlapped
    BY <1>1, <1>3, OverlapStays
  <2>2. JobInv /\ LogsSound
    BY <2>1 DEF ReplicatorInv
  <2> QED
    BY <1>3, <2>1, <2>2, StepsKeepJob, StepsKeepLogs
<1> QED
  BY <1>2, <1>3 DEF ReplicatorInv

LEMMA InvCopies ==
  ASSUME ReplicatorInv
  PROVE  CompletedMeansCopied
<1>1. ~overlapped /\ ~gap /\ env.exists => RunsSafely
  BY DEF ReplicatorInv, JobInv
<1>2. ~overlapped /\ ~gap /\ env.exists /\ At("completed") /\ run.quiet =>
        \A d \in Docs : HasCurrent(d)
  BY <1>1 DEF RunsSafely
<1> QED
  BY <1>2 DEF CompletedMeansCopied

-----------------------------------------------------------------------------
(* The replication as a one-way copy. *)

\* What Copy sees of a state.
Has == {d \in Docs : HasCurrent(d)}

ResumeAt(checkpoints) ==
  LET since == LoadCheckpoint(checkpoints)
  IN  IF since = Empty THEN 0 ELSE since

LEMMA CopySees ==
  ASSUME src' = src, tgt' = tgt, cp' = cp, gap' = gap, overlapped' = overlapped
  PROVE  UNCHANGED Copy!copyVars
<1>1. Has' = Has /\ ResumeAt(cp') = ResumeAt(cp)
  BY DEF Has, HasCurrent
<1> QED
  BY <1>1 DEF Copy!copyVars, Has, ResumeAt

LEMMA SourceEditCopies ==
  ASSUME JobInv, NEW d \in Docs, SourceEdit(d), overlapped' = overlapped
  PROVE  Copy!CopyNext \/ UNCHANGED Copy!copyVars
<1>1. /\ src \in Buckets /\ SourceSound /\ job \in Jobs /\ ReplicatorTypeOK
      /\ CheckpointsSound
  BY DEF JobInv, ReplicatorTypeOK
<1>2. /\ src' \in Edited(src, d) /\ src.changesSeq < Bounds[job].source
      /\ src.docs[d].rev.gen < MaxGen
      /\ tgt' = tgt /\ cp' = cp /\ gap' = gap
  BY DEF SourceEdit
<1>3. SourceMoves(d) /\ src' \in Buckets
  BY <1>1, <1>2, SourceWritten
<1>4. src.changesSeq \in Nat
      /\ \A e \in Docs : src.inval[e] \in Nat /\ src.inval[e] <= src.changesSeq
  BY <1>1, SourceFeed
<1>5. CASE src'.inval = src.inval /\ src'.docs = src.docs
  <2>1. Has' = Has /\ ResumeAt(cp') = ResumeAt(cp)
    BY <1>2, <1>5 DEF Has, HasCurrent
  <2> QED
    BY <1>2, <1>5, <2>1 DEF Copy!copyVars, Has, ResumeAt
<1>6. CASE src'.inval[d] = src.changesSeq + 1
  <2>1. PICK s : s = src.changesSeq + 1
    OBVIOUS
  <2>2. s \in 1..MaxSeq
    BY <1>3, <1>4, <1>6, <2>1, DocTxAssumption DEF SourceMoves
  <2>3. \A e \in Docs : src.inval[e] < s
    BY <1>4, <2>1
  <2>4. ResumeAt(cp) < s
    <3>1. LoadCheckpoint(cp) \in Int /\ LoadCheckpoint(cp) <= src.changesSeq
      BY <1>1, LoadsSafely, PositionsAreNumbers
    <3> QED
      BY <1>4, <2>1, <3>1 DEF ResumeAt
  <2>5. src'.inval = [src.inval EXCEPT ![d] = s]
    <3>1. src.inval \in [Docs -> 0..MaxSeq] /\ src'.inval \in [Docs -> 0..MaxSeq]
      BY <1>1, <1>3 DEF Buckets
    <3>2. \A e \in Docs \ {d} : src'.inval[e] = src.inval[e]
      BY <1>3 DEF SourceMoves
    <3> QED
      BY <1>6, <2>1, <3>1, <3>2
  <2>6. PICK there \in BOOLEAN : there = HasCurrent(d)'
    <3>1. HasCurrent(d)' \in BOOLEAN
      BY DEF HasCurrent, HasRevision
    <3> QED
      BY <3>1
  <2>7. \A e \in Docs \ {d} : HasCurrent(e)' <=> HasCurrent(e)
    <3>1. \A e \in Docs \ {d} : src'.docs[e] = src.docs[e]
      BY <1>3 DEF SourceMoves
    <3> QED
      BY <1>2, <3>1 DEF HasCurrent
  <2>8. Has' = IF there THEN Has \cup {d} ELSE Has \ {d}
    BY <2>6, <2>7 DEF Has
  <2>9. ResumeAt(cp') = ResumeAt(cp)
    BY <1>2 DEF ResumeAt
  <2>10. Copy!Change(d, s, there)
    BY <1>2, <2>3, <2>4, <2>5, <2>8, <2>9 DEF Copy!Change, Has, ResumeAt
  <2> QED
    BY <2>2, <2>6, <2>10 DEF Copy!CopyNext
<1> QED
  BY <1>3, <1>5, <1>6 DEF SourceMoves

LEMMA DeliveryCopies ==
  ASSUME src' = src, cp' = cp, gap' = gap, overlapped' = overlapped, Keeps
  PROVE  Copy!CopyNext
<1>1. PICK delivered \in SUBSET Docs : delivered = Has'
  BY DEF Has
<1>2. Has' = Has \cup delivered
  BY <1>1 DEF Has, Keeps
<1>3. ResumeAt(cp') = ResumeAt(cp)
  BY DEF ResumeAt
<1>4. Copy!Deliver(delivered)
  BY <1>2, <1>3 DEF Copy!Deliver, Has, ResumeAt
<1> QED
  BY <1>4 DEF Copy!CopyNext

LEMMA SavingCopies ==
  ASSUME JobInv, JobInv', src' = src, tgt' = tgt, gap' = gap,
         overlapped' = overlapped
  PROVE  Copy!CopyNext
<1>1. /\ src \in Buckets /\ SourceSound
      /\ cp' \in [source : Checkpoint \cup {NoCheckpoint},
                  target : Checkpoint \cup {NoCheckpoint}]
      /\ ~gap => ResumesSafely'
  BY DEF JobInv, ReplicatorTypeOK
<1>2. PICK n : n = LoadCheckpoint(cp')
  OBVIOUS
<1>3. /\ n \in FeedPosition
      /\ \/ n = Empty
         \/ /\ cp'.target # NoCheckpoint
            /\ cp'.source.session = cp'.target.session
            /\ n = cp'.source.seq
         \/ \E m \in Common(cp'.source, cp'.target) : n = cp'.source.recorded[m]
  BY <1>1, <1>2, LoadsFrom
<1>4. PICK s : s = IF n = Empty THEN 0 ELSE n
  OBVIOUS
<1>5. s \in 0..MaxSeq
  BY <1>3, <1>4, DocTxAssumption DEF FeedPosition
<1>6. gap \/ \A d \in Docs : src.inval[d] <= s => d \in Has
  <2> SUFFICES ASSUME ~gap
               PROVE  \A d \in Docs : src.inval[d] <= s => HasCurrent(d)
    BY DEF Has
  <2>1. CASE n = Empty
    <3>1. Safe(Start)
      BY <1>1, SafeAtStart
    <3> QED
      BY <1>4, <2>1, <3>1 DEF Safe, Start
  <2>2. CASE n # Empty
    <3>1. \A d \in Docs : src'.inval[d] <= n => HasCurrent(d)'
      BY <1>1, <1>3, <2>2 DEF ResumesSafely, Safe
    <3> QED
      BY <1>4, <2>2, <3>1 DEF HasCurrent
  <2> QED
    BY <2>1, <2>2
<1>7. Has' = Has
  BY DEF Has, HasCurrent
<1>8. ResumeAt(cp') = s
  BY <1>2, <1>4 DEF ResumeAt
<1>9. Copy!Resume(s)
  BY <1>6, <1>7, <1>8 DEF Copy!Resume, Has, ResumeAt
<1> QED
  BY <1>5, <1>9 DEF Copy!CopyNext

LEMMA ReadingCopies ==
  ASSUME JobInv, GetChanges
  PROVE  Copy!CopyNext \/ UNCHANGED Copy!copyVars
<1>1. PICK since : since = IF run.since = Empty THEN Start ELSE run.since
  OBVIOUS
<1>2. /\ gap' = (gap \/ /\ since # Start
                        /\ \A e \in src.changes : e.seq # since)
      /\ UNCHANGED <<job, src, tgt, cp, env, overlapped>>
  BY <1>1 DEF GetChanges, clientVars
<1>3. /\ src \in Buckets /\ SourceSound /\ ReplicatorTypeOK
      /\ CheckpointsSound /\ gap \in BOOLEAN
  BY DEF JobInv, ReplicatorTypeOK
<1>4. CASE gap' = gap
  BY <1>2, <1>4, CopySees
<1>5. CASE gap' # gap
  <2>1. gap' = TRUE /\ since # Start /\ \A e \in src.changes : e.seq # since
    BY <1>2, <1>3, <1>5
  <2>2. since = run.since /\ since \in 1..MaxSeq /\ since <= src.changesSeq
    <3>1. run.since \in FeedPosition
      BY <1>3, RunTyped
    <3>2. since = run.since /\ since # Empty
      BY <1>1, <2>1
    <3> QED
      BY <1>3, <2>1, <3>1, <3>2, DocTxAssumption
         DEF FeedPosition, Start, CheckpointsSound
  <2>3. /\ src.changesSeq \in Nat
        /\ \A d \in Docs : src.inval[d] \in Nat
        /\ \A d \in Docs : src.docs[d] # NoDoc =>
             [seq |-> src.inval[d], id |-> d] \in src.changes
    BY <1>3, SourceFeed
  <2>4. \A d \in Docs : src.inval[d] = 0 <=> src.docs[d] = NoDoc
    BY <1>3 DEF SourceSound, SequencesOwned
  <2>5. \A d \in Docs : src.inval[d] # since
    <3> SUFFICES ASSUME NEW d \in Docs, src.inval[d] = since
                 PROVE  FALSE
      OBVIOUS
    <3>1. src.docs[d] # NoDoc
      BY <2>2, <2>4
    <3>2. [seq |-> src.inval[d], id |-> d] \in src.changes
      BY <2>3, <3>1
    <3> QED
      BY <2>1, <3>2
  <2>6. PICK e \in Docs : src.inval[e] = src.changesSeq
    BY <1>3, <2>2, <2>3 DEF SourceSound, SequencesOwned
  <2>7. since < src.inval[e]
    BY <2>2, <2>3, <2>5, <2>6
  <2>8. Has' = Has /\ ResumeAt(cp') = ResumeAt(cp)
    BY <1>2 DEF Has, HasCurrent
  <2>9. Copy!Overtaken
    BY <1>2, <2>1, <2>2, <2>5, <2>7, <2>8 DEF Copy!Overtaken, Has, ResumeAt
  <2> QED
    BY <2>9 DEF Copy!CopyNext
<1> QED
  BY <1>4, <1>5

LEMMA RemovalCopies ==
  ASSUME JobInv, TargetRemoved
  PROVE  Copy!CopyNext
<1>1. /\ tgt' = EmptyBuckets /\ src' = src /\ gap' = gap
      /\ overlapped' = overlapped
      /\ cp' = [cp EXCEPT !.target = NoCheckpoint]
  BY DEF TargetRemoved
<1>2. /\ src \in Buckets /\ SourceSound
      /\ DOMAIN cp = {"source", "target"}
  BY DEF JobInv, ReplicatorTypeOK
<1>3. ASSUME NEW d \in Docs
      PROVE  HasCurrent(d)' <=> src.inval[d] = 0
  <2>1. src.inval[d] = 0 <=> src.docs[d] = NoDoc
    BY <1>2 DEF SourceSound, SequencesOwned
  <2>2. CASE src.docs[d] = NoDoc
    BY <1>1, <2>1, <2>2 DEF HasCurrent
  <2>3. CASE src.docs[d] # NoDoc
    <3>1. PICK x \in Rev : x = src.docs[d].rev
      BY <1>2, <2>3, DocIsNotNil DEF Buckets
    <3>2. /\ KeptAt(EmptyBuckets, d) /\ EmptyBuckets \in TargetBuckets
      BY EmptySound
    <3>3. leafRevs(EmptyBuckets, d) = {}
      BY DEF EmptyBuckets, leafRevs
    <3>4. Named(EmptyBuckets, d) = {}
      BY <3>3 DEF Named
    <3>5. ~HasRevision(GetDocument(EmptyBuckets, d), x)
      BY <3>2, <3>4, HasRevisionNamed
    <3> QED
      BY <1>1, <2>1, <2>3, <3>1, <3>5 DEF HasCurrent
  <2> QED
    BY <2>2, <2>3
<1>4. Has' = {d \in Docs : src.inval[d] = 0}
  BY <1>3 DEF Has
<1>5. ResumeAt(cp') = 0
  <2>1. cp'.target = NoCheckpoint
    BY <1>1, <1>2
  <2> QED
    BY <2>1 DEF ResumeAt, LoadCheckpoint
<1>6. Copy!TargetLost
  BY <1>1, <1>4, <1>5 DEF Copy!TargetLost, Has, ResumeAt
<1> QED
  BY <1>6 DEF Copy!CopyNext

LEMMA CopyStarts ==
  ASSUME ReplicatorInit
  PROVE  Copy!CopyInit
<1>1. /\ src = EmptyBuckets /\ gap = FALSE /\ overlapped = FALSE
      /\ cp = [source |-> NoCheckpoint, target |-> NoCheckpoint]
  BY DEF ReplicatorInit
<1>2. src.inval = [d \in Docs |-> 0] /\ \A d \in Docs : src.docs[d] = NoDoc
  BY <1>1 DEF EmptyBuckets
<1>3. Has = Docs
  BY <1>2 DEF Has, HasCurrent
<1>4. ResumeAt(cp) = 0
  BY <1>1 DEF ResumeAt, LoadCheckpoint
<1> QED
  BY <1>1, <1>2, <1>3, <1>4 DEF Copy!CopyInit, Has, ResumeAt

LEMMA StepsCopy ==
  ASSUME ReplicatorInv, ReplicatorInv', NeverCut, [ReplicatorNext]_replVars
  PROVE  [Copy!CopyNext]_Copy!copyVars
<1> DEFINE Copies == Copy!CopyNext \/ UNCHANGED Copy!copyVars
<1> SUFFICES Copies
  OBVIOUS
<1> HIDE DEF Copies
<1>1. overlapped \in BOOLEAN /\ overlapped' \in BOOLEAN
  BY DEF ReplicatorInv
<1>2. CASE overlapped'
  BY <1>2 DEF Copies, Copy!CopyNext, Copy!Overlap
<1>3. CASE ~overlapped'
  <2>1. overlapped' = overlapped
    BY <1>1, <1>3, OverlapStays
  <2>2. JobInv /\ JobInv' /\ LogsSound
    BY <1>3, <2>1 DEF ReplicatorInv
  <2>3. CASE SourceCommit
    BY <2>1, <2>2, <2>3, SourceCommits, SourceEditCopies DEF Copies
  <2>4. CASE TargetCommit
    <3>1. PICK d \in Docs : TargetEdit(d)
      BY <2>2, <2>4, TargetCommits
    <3>2. src' = src /\ cp' = cp /\ gap' = gap
      BY <3>1 DEF TargetEdit
    <3>3. Keeps
      BY <2>2, <3>1, TargetEditKeepsCurrent
    <3> QED
      BY <2>1, <3>2, <3>3, DeliveryCopies DEF Copies
  <2>5. CASE CommitBatch
    <3>1. Delivers
      BY <2>2, <2>5, BatchCommits
    <3>2. src' = src /\ cp' = cp /\ gap' = gap
      BY <3>1 DEF Delivers
    <3>3. Keeps
      BY <2>2, <3>1, DeliveryGives
    <3> QED
      BY <2>1, <3>2, <3>3, DeliveryCopies DEF Copies
  <2>6. CASE SaveSource \/ SaveTarget
    <3>1. src' = src /\ tgt' = tgt /\ gap' = gap
      BY <2>6 DEF SaveSource, SaveTarget
    <3> QED
      BY <2>1, <2>2, <3>1, SavingCopies DEF Copies
  <2>7. CASE GetChanges
    BY <2>2, <2>7, ReadingCopies DEF Copies
  <2>8. CASE TargetRemoved
    BY <2>2, <2>8, RemovalCopies DEF Copies
  <2>9. CASE \/ StartRun \/ VerifyPeers \/ RevsDiff \/ TargetMissing \/ Stops
             \/ Again
    <3>1. src' = src /\ tgt' = tgt /\ cp' = cp /\ gap' = gap
      BY <2>9 DEF StartRun, VerifyPeers, RevsDiff, TargetMissing, Stops, Again
    <3> QED
      BY <2>1, <3>1, CopySees DEF Copies
  <2>10. CASE LoadsCheckpoint \/ LoadFails \/ BulkGet \/ UNCHANGED replVars
    <3>1. src' = src /\ tgt' = tgt /\ cp' = cp /\ gap' = gap
      BY <2>10 DEF LoadsCheckpoint, LoadFails, Loads, BulkGet, Fetch, replVars
    <3> QED
      BY <2>1, <3>1, CopySees DEF Copies
  <2>11. CASE BulkDocs \/ \E d \in Docs : SourceWrite(d) \/ TargetWrite(d)
    <3>1. src' = src /\ tgt' = tgt /\ cp' = cp /\ gap' = gap
      BY <2>11 DEF BulkDocs, SourceWrite, TargetWrite
    <3> QED
      BY <2>1, <3>1, CopySees DEF Copies
  <2> QED
    BY <2>3, <2>4, <2>5, <2>6, <2>7, <2>8, <2>9, <2>10, <2>11
       DEF ReplicatorNext, Runs
<1> QED
  BY <1>2, <1>3

LEMMA InvResumes ==
  ASSUME ReplicatorInv, ~overlapped
  PROVE  Copy!ResumeIsSafe
<1>1. /\ ReplicatorTypeOK /\ SourceSound /\ CheckpointsSound /\ src \in Buckets
      /\ ~gap => ResumesSafely
  BY DEF ReplicatorInv, JobInv, ReplicatorTypeOK
<1>2. ~gap => Safe(LoadCheckpoint(cp)) /\ Safe(Start)
  BY <1>1, LoadsSafely, SafeAtStart
<1>3. ~gap => \A d \in Docs : src.inval[d] <= ResumeAt(cp) => d \in Has
  BY <1>2 DEF Safe, ResumeAt, Start, Has
<1> QED
  BY <1>3 DEF Copy!ResumeIsSafe, Has, ResumeAt

-----------------------------------------------------------------------------
(* The theorems. *)

(***************************************************************************)
(* Whatever clients and peers write at both ends, wherever runs break off, *)
(* saves are lost and the target is removed, until two transactions on one *)
(* database overlap and as long as no history at the target is cut: what   *)
(* checkpoints and runs claim to have been copied is at the target, unless *)
(* a page was read from a replaced entry.                                  *)
(***************************************************************************)
THEOREM ReplicatorInductive ==
  ReplicatorSpec /\ []NeverCut => []ReplicatorInv
<1>1. ReplicatorInit => ReplicatorInv
  BY ReplicatorStarts
<1>2. ReplicatorInv /\ NeverCut /\ [ReplicatorNext]_replVars => ReplicatorInv'
  BY ReplicatorSteps
<1> QED
  BY <1>1, <1>2, PTL DEF ReplicatorSpec

(***************************************************************************)
(* A one-shot run that completed, with Run returning its result, has       *)
(* copied the source as it read it last, under the same conditions.        *)
(***************************************************************************)
THEOREM CompletedRunsCopied ==
  ReplicatorSpec /\ []NeverCut => []CompletedMeansCopied
<1>1. ReplicatorInv => CompletedMeansCopied
  BY InvCopies
<1> QED
  BY <1>1, ReplicatorInductive, PTL

(***************************************************************************)
(* Wherever runs broke off and whichever saves were lost, loadCheckpoint   *)
(* never makes a run skip a change whose document the target lacks, under  *)
(* the same conditions.                                                    *)
(***************************************************************************)
THEOREM ResumeSafe ==
  ReplicatorSpec /\ []NeverCut => [](~overlapped => Copy!ResumeIsSafe)
<1>1. ReplicatorInv => (~overlapped => Copy!ResumeIsSafe)
  BY InvResumes
<1> QED
  BY <1>1, ReplicatorInductive, PTL

(***************************************************************************)
(* The replicator, with the checkpoints its loadCheckpoint reads, does     *)
(* what OneWayCopy promises until transactions overlap: it never resumes   *)
(* from where something is missing, and no write or delivery makes the     *)
(* target give up a current revision, as long as no history at the target  *)
(* is cut.                                                                 *)
(***************************************************************************)
THEOREM ReplicationIsOneWayCopy ==
  ReplicatorSpec /\ []NeverCut => IsOneWayCopy
<1>1. ReplicatorInit => Copy!CopyInit
  BY CopyStarts
<1>2. ReplicatorInv /\ ReplicatorInv' /\ NeverCut /\ [ReplicatorNext]_replVars
        => [Copy!CopyNext]_Copy!copyVars
  BY StepsCopy
<1> QED
  BY <1>1, <1>2, ReplicatorInductive, PTL
     DEF ReplicatorSpec, IsOneWayCopy, Copy!CopySpec

=============================================================================
