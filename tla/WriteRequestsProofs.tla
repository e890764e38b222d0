------------------------- MODULE WriteRequestsProofs -------------------------
(***************************************************************************)
(* What holds of the requests that write, for any documents, clients,      *)
(* limits and bounds: RequestsInv is inductive, and with it winners and    *)
(* indices stay right, what is replaced was validated, and the limit on    *)
(* documents is exceeded by no more than what its check did not count.     *)
(***************************************************************************)
EXTENDS WriteRequests, DocTxProofs

-----------------------------------------------------------------------------
(* The revisions that are made. *)

LEMMA DocumentFields ==
  ASSUME NEW doc \in Document
  PROVE  /\ doc.hist \in Seq(Rev) /\ Len(doc.hist) \in Nat
         /\ DOMAIN doc.hist = 1..Len(doc.hist)
         /\ doc.rev \in Rev /\ doc.rev.gen \in 1..MaxGen
         /\ \A i \in DOMAIN doc.hist :
              doc.hist[i] \in Rev /\ doc.hist[i].gen \in Nat
<1>1. doc.hist \in Seq(Rev) /\ doc.rev \in Rev
  BY DocIsNotNil
<1>2. \A i \in DOMAIN doc.hist : doc.hist[i] \in Rev
  BY <1>1
<1>3. \A r \in Rev : r.gen \in 1..MaxGen /\ r.gen \in Nat
  BY RevFields
<1> QED
  BY <1>1, <1>2, <1>3

LEMMA ItemFields ==
  ASSUME NEW it \in Item
  PROVE  /\ it.id \in Docs /\ it.base \in Rev \cup {NoRev}
         /\ it.hash \in Hashes /\ it.deleted \in BOOLEAN
         /\ it.base.gen \in Nat
         /\ NewRev(it.base, it.hash).gen = it.base.gen + 1
<1>1. /\ it.id \in Docs /\ it.base \in Rev \cup {NoRev}
      /\ it.hash \in Hashes /\ it.deleted \in BOOLEAN
  BY DEF Item
<1>2. it.base.gen \in Nat
  BY <1>1, RevNumbers
<1> QED
  BY <1>1, <1>2 DEF NewRev, NextSequenceRevision

LEMMA MadeIsDocument ==
  ASSUME TypeOK, MintedOnce, NEW it \in Item, NewRev(it.base, it.hash) \in Rev
  PROVE  /\ Made(it) \in Document /\ OwnHistory(Made(it))
         /\ Made(it).rev = NewRev(it.base, it.hash)
         /\ Made(it).deleted = it.deleted
<1> DEFINE new    == NewRev(it.base, it.hash)
           parent == {m \in minted[it.id] : m.rev = it.base}
           old    == IF parent = {} THEN <<>>
                     ELSE (CHOOSE m \in parent : TRUE).hist
<1>1. /\ it.id \in Docs /\ it.deleted \in BOOLEAN
      /\ it.base.gen \in Nat /\ new.gen = it.base.gen + 1
  BY ItemFields
<1>2. Made(it) = [rev |-> new, deleted |-> it.deleted, hist |-> <<new>> \o old]
  BY DEF Made
<1>3. minted[it.id] \subseteq Document /\ \A m \in minted[it.id] : OwnHistory(m)
  BY <1>1 DEF TypeOK, MintedOnce
<1> HIDE DEF new
<1>4. /\ old \in Seq(Rev) /\ Len(old) \in Nat /\ DOMAIN old = 1..Len(old)
      /\ \A i \in DOMAIN old : old[i] \in Rev /\ old[i].gen <= it.base.gen
  <2>1. CASE parent = {}
    BY <2>1
  <2>2. CASE parent # {}
    <3> DEFINE m == CHOOSE m \in parent : TRUE
    <3>1. m \in parent
      BY <2>2
    <3>2. m \in Document /\ m.rev = it.base /\ OwnHistory(m) /\ old = m.hist
      BY <1>3, <2>2, <3>1
    <3> HIDE DEF m, old, parent
    <3>3. \A i \in DOMAIN m.hist : m.hist[i].gen <= it.base.gen
      <4> SUFFICES ASSUME NEW i \in DOMAIN m.hist
                   PROVE  m.hist[i].gen <= it.base.gen
        OBVIOUS
      <4>1. m.hist[i].gen \in Nat /\ i \in Nat /\ i >= 1
        BY <3>2, DocumentFields
      <4>2. CASE i = 1
        BY <1>1, <3>2, <4>2 DEF OwnHistory, Heads
      <4>3. CASE i > 1
        BY <1>1, <3>2, <4>1, <4>3 DEF OwnHistory
      <4> QED
        BY <4>1, <4>2, <4>3
    <3> QED
      BY <3>2, <3>3, DocumentFields
  <2> QED
    BY <2>1, <2>2
<1> HIDE DEF old, parent
<1> DEFINE h == <<new>> \o old
<1>5. new \in Rev
  BY DEF new
<1>6. /\ h \in Seq(Rev) /\ Len(h) = Len(old) + 1 /\ h # <<>> /\ h[1] = new
      /\ DOMAIN h = 1..(Len(old) + 1)
      /\ \A i \in DOMAIN h : i > 1 => i - 1 \in DOMAIN old /\ h[i] = old[i - 1]
  BY <1>4, <1>5
<1>7. \A i \in DOMAIN h : i > 1 => h[i].gen < new.gen
  <2> SUFFICES ASSUME NEW i \in DOMAIN h, i > 1
               PROVE  h[i].gen < new.gen
    OBVIOUS
  <2>1. old[i - 1].gen <= it.base.gen /\ old[i - 1] \in Rev /\ h[i] = old[i - 1]
    BY <1>4, <1>6
  <2>2. old[i - 1].gen \in Nat
    BY <2>1, RevFields
  <2> HIDE DEF h
  <2> QED
    BY <1>1, <2>1, <2>2
<1>8. Made(it) = [rev |-> new, deleted |-> it.deleted, hist |-> h]
  BY <1>2
<1> HIDE DEF h
<1>9. Made(it) \in Document
  BY <1>1, <1>5, <1>6, <1>8 DEF Document
<1>10. Made(it).rev = new /\ Made(it).deleted = it.deleted /\ Made(it).hist = h
  BY <1>8
<1> QED
  BY <1>6, <1>7, <1>9, <1>10 DEF OwnHistory, Heads, new

\* More revisions do not change what an item makes, once its base was made.
LEMMA MadeStays ==
  ASSUME TypeOK, NEW it \in Item,
         minted'[it.id] \subseteq Document,
         minted[it.id] \subseteq minted'[it.id],
         \A m, n \in minted'[it.id] : m.rev = n.rev => m = n,
         it.base = NoRev \/ \E m \in minted[it.id] : m.rev = it.base
  PROVE  Made(it)' = Made(it)
<1> DEFINE parent == {m \in minted[it.id] : m.rev = it.base}
<1>1. parent' = parent
  <2>1. CASE it.base = NoRev
    <3>1. \A m \in Document : m.rev # NoRev
      BY DocIsNotNil
    <3>2. minted[it.id] \subseteq Document
      BY ItemFields DEF TypeOK
    <3> QED
      BY <2>1, <3>1, <3>2
  <2>2. CASE \E m \in minted[it.id] : m.rev = it.base
    BY <2>2
  <2> QED
    BY <2>1, <2>2
<1> QED
  BY <1>1 DEF Made

-----------------------------------------------------------------------------
(* One write. *)

LEMMA OlderTail ==
  ASSUME NEW doc \in Document, OwnHistory(doc)
  PROVE  \A r \in ToSet(Tail(doc.hist)) : r.gen < doc.rev.gen
<1> DEFINE h == doc.hist
<1>1. h \in Seq(Rev) /\ h # <<>> /\ \A i \in DOMAIN h : i > 1 => h[i].gen < doc.rev.gen
  BY DocIsNotNil DEF OwnHistory, Heads
<1> HIDE DEF h
<1>2. /\ Tail(h) \in Seq(Rev) /\ Len(Tail(h)) = Len(h) - 1 /\ Len(h) \in Nat
      /\ \A i \in 1..Len(Tail(h)) : Tail(h)[i] = h[i + 1]
      /\ DOMAIN h = 1..Len(h)
  BY <1>1
<1>3. \A x : x \in ToSet(Tail(h)) <=> \E i \in 1..Len(Tail(h)) : Tail(h)[i] = x
  BY <1>2, SeqToSet
<1>4. \A i \in 1..Len(Tail(h)) : i + 1 \in DOMAIN h /\ i + 1 > 1
  BY <1>2
<1> QED
  BY <1>1, <1>2, <1>3, <1>4 DEF h

\* A write that one of the operations makes for the document as it is.
LEMMA WriteTyped ==
  ASSUME NEW b \in Buckets, NEW d \in Docs, NEW op, op.id = d,
         NEW m \in Document, m.hist # <<>>, Writes(b, op, m)
  PROVE  /\ op \in OpLog
         /\ OwnChange(b, op)
<1>1. m.rev \in Rev /\ m.deleted \in BOOLEAN
  BY DocIsNotNil
<1>2. CASE op = PutDocument(b, d, m.rev, m.deleted)
  BY <1>1, <1>2, PutDocumentLog
<1>3. CASE op = PutDocumentForReplication(b, d, m)
  BY <1>3, ReplicationOp
<1>4. CASE \E rev \in leafRevs(b, d) : op = DeleteLeaf(b, d, rev, m.rev)
  BY <1>1, <1>4, DeleteLeafOp
<1> QED
  BY <1>2, <1>3, <1>4 DEF Writes

LEMMA WriteSound ==
  ASSUME NEW b \in Buckets, NEW d \in Docs, NEW op, op.id = d,
         NEW m \in Document, OwnHistory(m), Writes(b, op, m),
         b.changesSeq = b.invalSeq, SoundAt(b, d),
         m.rev = b.docs[d].rev /\ m.deleted => b.docs[d].deleted
  PROVE  /\ KeepsSound(b, op, d, m.rev, m.deleted)
         /\ \A l \in op.puts : l.rev = m.rev
<1>1. m.rev \in Rev /\ m.deleted \in BOOLEAN
  BY DocIsNotNil
<1>2. CASE /\ b.docs[d].rev.gen < m.rev.gen
           /\ op = PutDocument(b, d, m.rev, m.deleted)
  <2>1. KeepsSound(b, op, d, m.rev, m.deleted)
    BY <1>1, <1>2, PutDocumentSound
  <2>2. op.puts = {op.put} /\ op.put.rev = m.rev
    BY <1>1, <1>2, PutDocumentLog DEF PutsWinner
  <2> QED
    BY <2>1, <2>2
<1>3. CASE /\ m.rev # b.docs[d].rev
           /\ op = PutDocumentForReplication(b, d, m)
  <2>1. Heads(m.rev, m.hist) /\ m.hist # <<>>
    BY DEF OwnHistory, Heads
  <2>2. KeepsSound(b, op, d, m.rev, m.deleted)
    BY <1>3, <2>1, OlderTail, ReplicationSound
  <2>3. \A l \in op.puts :
          l = m \/ (l.rev = b.docs[d].rev /\ l.rev \notin leafRevs(b, d))
    BY <1>3, <2>1, ReplicationOp
  <2>4. b.docs[d] = NoDoc \/ b.docs[d].rev \in leafRevs(b, d)
    BY DEF SoundAt, WinnerRuleAt
  <2>5. \A l \in op.puts : l \in Document
    BY <1>3, <2>1, ReplicationOp DEF OpLog
  <2> QED
    BY <2>2, <2>3, <2>4, <2>5, DocIsNotNil, NilDocument
<1>4. CASE \E rev \in leafRevs(b, d) :
             /\ rev # b.docs[d].rev /\ rev.gen < m.rev.gen /\ m.deleted
             /\ op = DeleteLeaf(b, d, rev, m.rev)
  <2>1. PICK rev \in leafRevs(b, d) :
             /\ rev # b.docs[d].rev /\ rev.gen < m.rev.gen /\ m.deleted
             /\ op = DeleteLeaf(b, d, rev, m.rev)
    BY <1>4
  <2>2. KeepsSound(b, op, d, m.rev, TRUE)
    BY <1>1, <2>1, DeleteLeafSound
  <2>3. \A l \in op.puts : l.rev = m.rev
    BY <1>1, <2>1, DeleteLeafOp
  <2>4. m.deleted = TRUE
    BY <1>1, <2>1
  <2> QED
    BY <2>2, <2>3, <2>4
<1> QED
  BY <1>2, <1>3, <1>4 DEF Writes

\* A write is the same for buckets that have the same of its document.
LEMMA WritesAlike ==
  ASSUME NEW b \in Buckets, NEW a \in Buckets, NEW d \in Docs,
         NEW op, op.id = d, NEW m, Writes(b, op, m),
         a.docs[d] = b.docs[d], a.leaves[d] = b.leaves[d],
         a.inval[d] = b.inval[d]
  PROVE  Writes(a, op, m)
<1>1. leafRevs(a, d) = leafRevs(b, d)
  BY DEF leafRevs
<1>2. GetDocument(a, d) = GetDocument(b, d)
  BY <1>1 DEF GetDocument
<1>3. PutDocument(a, d, m.rev, m.deleted) = PutDocument(b, d, m.rev, m.deleted)
  BY <1>2 DEF PutDocument, ReplaceWinner
<1>4. PutDocumentForReplication(a, d, m) = PutDocumentForReplication(b, d, m)
  BY <1>1, <1>2 DEF PutDocumentForReplication, ReplaceWinner
<1>5. ASSUME NEW rev
      PROVE  DeleteLeaf(a, d, rev, m.rev) = DeleteLeaf(b, d, rev, m.rev)
  BY <1>1 DEF DeleteLeaf, ReplaceWinner
<1> QED
  BY <1>1, <1>3, <1>4, <1>5 DEF Writes

\* A revision that was made once and is stored is stored as it was made.
LEMMA WinnerAsMade ==
  ASSUME NEW b, NEW d \in Docs, MintedOnce, LeavesAsMade(b), SoundAt(b, d),
         NEW m \in minted[d], m.rev = b.docs[d].rev, m.rev # NoRev
  PROVE  m.deleted = b.docs[d].deleted
<1>1. b.docs[d] # NoDoc
  BY NilDocument
<1>2. /\ b.docs[d].rev \in leafRevs(b, d)
      /\ b.docs[d].deleted = b.leaves[d][b.docs[d].rev].deleted
  BY <1>1 DEF SoundAt, WinnerRuleAt
<1>3. PICK n \in minted[d] :
        n.rev = b.docs[d].rev /\ n.deleted = b.leaves[d][b.docs[d].rev].deleted
  BY <1>2 DEF LeavesAsMade
<1>4. n = m
  BY <1>3 DEF MintedOnce
<1> QED
  BY <1>2, <1>3, <1>4

\* What the buckets a have of every document but d is what b has.
Elsewhere(b, a, d) ==
  \A c \in Docs \ {d} : /\ a.docs[c] = b.docs[c]
                        /\ a.leaves[c] = b.leaves[c]
                        /\ a.inval[c] = b.inval[c]

LEMMA AppliedElsewhere ==
  ASSUME NEW b \in Buckets, NEW op \in OpLog, NEW a, a = Apply(b, op)
  PROVE  /\ Elsewhere(b, a, op.id)
         /\ a.docs[op.id] = IF op.put = NoDoc THEN b.docs[op.id] ELSE op.put
<1>1. /\ op.id \in Docs
      /\ b.docs \in [Docs -> Document \cup {NoDoc}]
      /\ b.inval \in [Docs -> 0..MaxSeq]
      /\ b.leaves \in [Docs -> [Rev -> Document \cup {NoDoc}]]
  BY DEF Buckets, OpLog
<1>2. a.leaves = [b.leaves EXCEPT ![op.id] = ApplyLeaves(@, op)]
  BY ApplyFields
<1>3. CASE op.put = NoDoc
  <2>1. a.docs = b.docs /\ a.inval = b.inval
    BY <1>3, ApplyFields
  <2> QED
    BY <1>1, <1>2, <1>3, <2>1 DEF Elsewhere
<1>4. CASE op.put # NoDoc
  <2>1. /\ a.docs = [b.docs EXCEPT ![op.id] = op.put]
        /\ a.inval = [b.inval EXCEPT ![op.id] = b.invalSeq + 1]
    BY <1>4, ApplyFields
  <2> QED
    BY <1>1, <1>2, <1>4, <2>1 DEF Elsewhere
<1> QED
  BY <1>3, <1>4

LEMMA OneMoreSequence ==
  ASSUME NEW b \in Buckets, NEW op \in OpLog, NEW a,
         b.changesSeq = b.invalSeq, a = Apply(b, op)
  PROVE  /\ a.changesSeq = a.invalSeq
         /\ a.changesSeq = b.changesSeq \/ a.changesSeq = b.changesSeq + 1
BY ApplySequences

LEMMA SequencesStayApart ==
  ASSUME NEW b \in Buckets, b.changesSeq < MaxSeq, SequencesApart(b),
         NEW op \in OpLog, NEW a, a = Apply(b, op), a.docs[op.id] # NoDoc,
         op.put = NoDoc => b.docs[op.id] # NoDoc
  PROVE  /\ SequencesApart(a)
         /\ a.changesSeq \in Nat /\ a.changesSeq <= b.changesSeq + 1
<1>1. /\ op.id \in Docs /\ b.changesSeq \in Nat /\ b.invalSeq = b.changesSeq
      /\ b.inval \in [Docs -> 0..MaxSeq]
  BY DocTxAssumption DEF Buckets, OpLog, SequencesApart
<1>2. Elsewhere(b, a, op.id)
  BY AppliedElsewhere
<1> b.changesSeq = b.invalSeq
  BY DEF SequencesApart
<1>0. /\ a.changesSeq = a.invalSeq
      /\ op.put = NoDoc => /\ a.docs = b.docs /\ a.inval = b.inval
                           /\ a.changesSeq = b.changesSeq
      /\ op.put # NoDoc =>
           /\ a.changesSeq = b.changesSeq + 1
           /\ a.inval = [b.inval EXCEPT ![op.id] = b.changesSeq + 1]
  BY ApplySequences
<1>3. CASE op.put = NoDoc
  <2>1. /\ a.docs = b.docs /\ a.inval = b.inval
        /\ a.changesSeq = b.changesSeq /\ a.invalSeq = a.changesSeq
    BY <1>0, <1>3
  <2> QED
    BY <1>1, <2>1 DEF SequencesApart
<1>4. CASE op.put # NoDoc
  <2>1. /\ a.changesSeq = b.changesSeq + 1 /\ a.invalSeq = a.changesSeq
        /\ a.inval = [b.inval EXCEPT ![op.id] = b.changesSeq + 1]
    BY <1>0, <1>4
  <2>2. /\ a.inval[op.id] = b.changesSeq + 1
        /\ \A c \in Docs \ {op.id} : /\ a.inval[c] = b.inval[c]
                                     /\ a.docs[c] = b.docs[c]
    BY <1>1, <1>2, <2>1 DEF Elsewhere
  <2>3. \A d \in Docs : a.docs[d] # NoDoc => a.inval[d] \in 1..a.invalSeq
    BY <1>1, <2>1, <2>2 DEF SequencesApart
  <2>4. ASSUME NEW c \in Docs, NEW d \in Docs,
               a.docs[c] # NoDoc, a.docs[d] # NoDoc, a.inval[c] = a.inval[d]
        PROVE  c = d
    <3>1. \A e \in Docs \ {op.id} :
            a.docs[e] # NoDoc => a.inval[e] \in 1..b.changesSeq
      BY <1>1, <2>2 DEF SequencesApart
    <3>2. CASE c = op.id \/ d = op.id
      BY <1>1, <2>2, <2>4, <3>1, <3>2
    <3>3. CASE c # op.id /\ d # op.id
      BY <2>2, <2>4, <3>3 DEF SequencesApart
    <3> QED
      BY <3>2, <3>3
  <2> QED
    BY <1>1, <2>1, <2>3, <2>4 DEF SequencesApart
<1> QED
  BY <1>3, <1>4

LEMMA WriteApplied ==
  ASSUME NEW b \in Buckets, b.changesSeq < MaxSeq, BucketsSound(b),
         MintedOnce, NEW d \in Docs, minted[d] \subseteq Document,
         NEW m \in minted[d], NEW op, op.id = d, Writes(b, op, m),
         NEW a, a = Apply(b, op)
  PROVE  /\ op \in OpLog /\ a \in Buckets /\ BucketsSound(a)
         /\ a.changesSeq \in Nat /\ a.changesSeq <= b.changesSeq + 1
         /\ Elsewhere(b, a, d)
         /\ a.docs[d] # NoDoc
         /\ a.docs[d] = IF op.put = NoDoc THEN b.docs[d] ELSE op.put
         /\ AtLeast(a.docs[d].rev, m.rev) /\ AtLeast(a.docs[d].rev, b.docs[d].rev)
         /\ \A l \in op.puts : l.rev = m.rev
<1>1. m \in Document /\ OwnHistory(m) /\ m.hist # <<>> /\ m.rev \in Rev /\ m.rev # NoRev
  BY DocIsNotNil DEF MintedOnce, OwnHistory, Heads
<1>2. /\ SequencesApart(b) /\ LeavesAsMade(b) /\ SoundAt(b, d)
      /\ b.changesSeq = b.invalSeq
  BY DEF BucketsSound, SequencesApart
<1>3. op \in OpLog /\ OwnChange(b, op)
  BY <1>1, WriteTyped
<1>4. m.rev = b.docs[d].rev /\ m.deleted => b.docs[d].deleted
  BY <1>1, <1>2, WinnerAsMade
<1>5. KeepsSound(b, op, d, m.rev, m.deleted) /\ \A l \in op.puts : l.rev = m.rev
  BY <1>1, <1>2, <1>4, WriteSound
<1>6. /\ SoundAt(a, d) /\ OneNewLeaf(b, op, d, m.rev, m.deleted)
      /\ AtLeast(a.docs[d].rev, m.rev) /\ AtLeast(a.docs[d].rev, b.docs[d].rev)
  BY <1>5 DEF KeepsSound
<1>7. a \in Buckets
  BY <1>2, <1>3, ApplyInBuckets
<1>8. /\ Elsewhere(b, a, d)
      /\ a.docs[d] = IF op.put = NoDoc THEN b.docs[d] ELSE op.put
  BY <1>3, AppliedElsewhere
<1>9. a.docs[d] # NoDoc
  <2>1. NoDoc.rev = NoRev /\ RevLess(NoRev, m.rev)
    BY <1>1, NilDocument, NoRevIsLeast
  <2> QED
    BY <1>1, <1>6, <2>1, RevOrder DEF AtLeast
<1>10. /\ SequencesApart(a)
       /\ a.changesSeq \in Nat /\ a.changesSeq <= b.changesSeq + 1
  BY <1>2, <1>3, <1>8, <1>9, SequencesStayApart
<1>11. LeavesAsMade(a)
  <2> SUFFICES ASSUME NEW c \in Docs, NEW rev \in leafRevs(a, c)
               PROVE  \E n \in minted[c] :
                        n.rev = rev /\ n.deleted = a.leaves[c][rev].deleted
    BY DEF LeavesAsMade
  <2>1. CASE c = d
    BY <1>2, <1>6, <2>1 DEF OneNewLeaf, LeavesAsMade
  <2>2. CASE c # d
    <3>1. a.leaves[c] = b.leaves[c]
      BY <1>8, <2>2 DEF Elsewhere
    <3>2. rev \in leafRevs(b, c)
      BY <3>1 DEF leafRevs
    <3> QED
      BY <1>2, <3>1, <3>2 DEF LeavesAsMade
  <2> QED
    BY <2>1, <2>2
<1>12. ASSUME NEW c \in Docs, c # d
       PROVE  SoundAt(a, c)
  <2>1. \A e \in b.changes : e.seq = op.chg => e.id = op.id
    <3> SUFFICES ASSUME NEW e \in b.changes, e.seq = op.chg, e.id # d
                 PROVE  FALSE
      OBVIOUS
    <3>1. e.id \in Docs /\ e.seq # 0
      BY DEF Buckets, Change
    <3>2. IndicesExactAt(b, e.id)
      BY <3>1 DEF BucketsSound, SoundAt
    <3>3. e \in {f \in b.changes : f.id = e.id}
      OBVIOUS
    <3>4. b.docs[e.id] # NoDoc /\ e.seq = b.inval[e.id]
      BY <3>2, <3>3 DEF IndicesExactAt
    <3>5. b.docs[d] # NoDoc /\ op.chg = b.inval[d]
      BY <1>3, <3>1 DEF OwnChange
    <3> QED
      BY <1>2, <3>1, <3>4, <3>5 DEF SequencesApart
  <2>2. SoundAt(b, c)
    BY DEF BucketsSound
  <2> QED
    BY <1>3, <1>12, <2>1, <2>2, OthersStaySound
<1> QED
  BY <1>3, <1>5, <1>6, <1>7, <1>8, <1>9, <1>10, <1>11, <1>12 DEF BucketsSound

-----------------------------------------------------------------------------
(* A log, write by write. *)

\* f takes the buckets b through the writes of a log.
IsApplying(f, b, log) ==
  /\ f[0] = b
  /\ \A i \in 1..Len(log) : f[i] = Apply(f[i - 1], log[i])

LEMMA AppliedLast ==
  ASSUME NEW b, NEW log \in Seq(OpLog)
  PROVE  \E f : IsApplying(f, b, log) /\ Applied(b, log) = f[Len(log)]
<1> DEFINE after[i \in 0..Len(log)] ==
             IF i = 0 THEN b ELSE Apply(after[i - 1], log[i])
           S == {n \in Nat : \E f : f = [i \in 0..n |->
                   IF i = 0 THEN b ELSE Apply(f[i - 1], log[i])]}
<1>1. Applied(b, log) = after[Len(log)]
  BY DEF Applied
<1>2. S = Nat
  <2>1. 0 \in S
    <3> DEFINE f == [i \in 0..0 |-> b]
    <3>1. f = [i \in 0..0 |-> IF i = 0 THEN b ELSE Apply(f[i - 1], log[i])]
      OBVIOUS
    <3> QED
      BY <3>1
  <2>2. ASSUME NEW n \in S
        PROVE  n + 1 \in S
    <3>1. PICK f : f = [i \in 0..n |->
                          IF i = 0 THEN b ELSE Apply(f[i - 1], log[i])]
      OBVIOUS
    <3> DEFINE g == [i \in 0..(n + 1) |->
                       IF i = 0 THEN b ELSE Apply(f[i - 1], log[i])]
    <3>2. \A i \in 0..n : g[i] = f[i]
      BY <3>1
    <3>3. \A i \in 0..(n + 1) : i # 0 => i - 1 \in 0..n
      OBVIOUS
    <3>4. g = [i \in 0..(n + 1) |->
                 IF i = 0 THEN b ELSE Apply(g[i - 1], log[i])]
      BY <3>2, <3>3
    <3> HIDE DEF g
    <3> QED
      BY <3>4
  <2> QED
    BY <2>1, <2>2, SetInduction
<1>3. Len(log) \in S
  BY <1>2
<1>4. after = [i \in 0..Len(log) |->
                 IF i = 0 THEN b ELSE Apply(after[i - 1], log[i])]
  BY <1>3
<1> HIDE DEF after
<1>5. after[0] = b
  BY <1>4
<1>6. \A i \in 1..Len(log) : after[i] = Apply(after[i - 1], log[i])
  BY <1>4
<1> QED
  BY <1>1, <1>5, <1>6 DEF IsApplying

LEMMA AppliedTyped ==
  ASSUME NEW b \in Buckets, b.changesSeq = b.invalSeq, NEW log \in Seq(OpLog),
         b.changesSeq + Len(log) <= MaxSeq
  PROVE  /\ Applied(b, log) \in Buckets
         /\ Applied(b, log).changesSeq = Applied(b, log).invalSeq
<1>1. PICK f : IsApplying(f, b, log) /\ Applied(b, log) = f[Len(log)]
  BY AppliedLast
<1> DEFINE N == Len(log)
           Typed(n) == /\ f[n] \in Buckets /\ f[n].changesSeq = f[n].invalSeq
                       /\ f[n].changesSeq <= b.changesSeq + n
           S == {n \in Nat : n <= N => Typed(n)}
<1>2. N \in Nat /\ \A i \in 1..N : log[i] \in OpLog
  OBVIOUS
<1>3. \A a \in Buckets : a.changesSeq \in Nat
  BY DocTxAssumption DEF Buckets
<1> HIDE DEF N
<1>4. 0 \in S
  BY <1>1, <1>3 DEF IsApplying
<1>5. ASSUME NEW n \in S
      PROVE  n + 1 \in S
  <2> SUFFICES ASSUME n + 1 <= N
               PROVE  Typed(n + 1)
    OBVIOUS
  <2>1. n \in Nat /\ n + 1 \in 1..N /\ (n + 1) - 1 = n /\ n <= N /\ Typed(n)
    BY <1>2
  <2>2. f[n + 1] = Apply(f[n], log[n + 1]) /\ log[n + 1] \in OpLog
    BY <1>1, <1>2, <2>1 DEF N, IsApplying
  <2>3. f[n].changesSeq < MaxSeq
    BY <1>2, <1>3, <2>1, DocTxAssumption DEF N
  <2>4. f[n + 1] \in Buckets
    BY <2>1, <2>2, <2>3, ApplyInBuckets
  <2>5. /\ f[n + 1].changesSeq = f[n + 1].invalSeq
        /\ \/ f[n + 1].changesSeq = f[n].changesSeq
           \/ f[n + 1].changesSeq = f[n].changesSeq + 1
    <3>1. \A c \in Buckets, op \in OpLog : \A a :
            c.changesSeq = c.invalSeq /\ a = Apply(c, op) =>
              /\ a.changesSeq = a.invalSeq
              /\ \/ a.changesSeq = c.changesSeq
                 \/ a.changesSeq = c.changesSeq + 1
      BY OneMoreSequence
    <3>2. f[n] \in Buckets /\ f[n].changesSeq = f[n].invalSeq
      BY <2>1
    <3> QED
      BY <2>2, <3>1, <3>2
  <2> QED
    BY <1>3, <2>1, <2>4, <2>5
<1>6. N \in S
  <2> HIDE DEF S
  <2>1. S \in SUBSET Nat
    BY DEF S
  <2> QED
    BY <1>2, <1>4, <1>5, <2>1, SetInduction
<1> QED
  BY <1>1, <1>2, <1>6 DEF N

\* A log for the buckets b, with no document twice.
LogFor(b, log) ==
  /\ log \in Seq(OpLog)
  /\ \A k \in 1..Len(log) : \E m \in minted[log[k].id] : Writes(b, log[k], m)
  /\ \A k, l \in 1..Len(log) : log[k].id = log[l].id => k = l

\* The buckets a are what the first n writes of the log make of b.
Stage(b, log, a, n) ==
  /\ a \in Buckets /\ BucketsSound(a)
  /\ a.changesSeq \in Nat /\ a.changesSeq <= b.changesSeq + n
  /\ \A d \in Docs :
       /\ AtLeast(a.docs[d].rev, b.docs[d].rev)
       /\ (\A k \in 1..n : log[k].id # d) =>
            /\ a.docs[d] = b.docs[d]
            /\ a.leaves[d] = b.leaves[d]
            /\ a.inval[d] = b.inval[d]
  /\ \A k \in 1..n :
       LET d == log[k].id
       IN  /\ a.docs[d] # NoDoc
           /\ a.docs[d] = IF log[k].put = NoDoc THEN b.docs[d] ELSE log[k].put
           /\ \A l \in log[k].puts :
                /\ AtLeast(a.docs[d].rev, l.rev)
                /\ \E m \in minted[d] : m.rev = l.rev

LEMMA OneMoreApplied ==
  ASSUME MintedOnce, \A d \in Docs : minted[d] \subseteq Document,
         NEW b \in Buckets, NEW log, LogFor(b, log),
         b.changesSeq + Len(log) <= MaxSeq,
         NEW n \in Nat, n + 1 <= Len(log), NEW a, Stage(b, log, a, n),
         NEW c, c = Apply(a, log[n + 1])
  PROVE  Stage(b, log, c, n + 1)
<1> DEFINE op == log[n + 1]
           d == op.id
<1>1. /\ n + 1 \in 1..Len(log) /\ n + 1 \notin 1..n /\ Len(log) \in Nat
      /\ \A k \in 1..n : k \in 1..Len(log)
      /\ \A k \in 1..(n + 1) : k \in 1..n \/ k = n + 1
      /\ \A k \in 1..n : k \in 1..(n + 1)
  BY DEF LogFor
<1>2. op \in OpLog /\ d \in Docs /\ \A k \in 1..n : log[k].id \in Docs
  <2>1. log \in Seq(OpLog)
    BY DEF LogFor
  <2>2. \A k \in 1..Len(log) : log[k] \in OpLog
    BY <2>1
  <2>3. \A o \in OpLog : o.id \in Docs
    BY DEF OpLog
  <2> QED
    BY <1>1, <2>2, <2>3
<1>3. PICK m \in minted[d] : Writes(b, op, m)
  BY <1>1 DEF LogFor
<1>4. \A k \in 1..n : log[k].id # d
  BY <1>1 DEF LogFor
<1>5. b.changesSeq \in Nat
  BY DocTxAssumption DEF Buckets
<1>6. /\ a \in Buckets /\ BucketsSound(a) /\ a.changesSeq < MaxSeq
      /\ a.docs[d] = b.docs[d] /\ a.leaves[d] = b.leaves[d]
      /\ a.inval[d] = b.inval[d]
  <2>1. a \in Buckets /\ BucketsSound(a)
    BY DEF Stage
  <2>2. a.changesSeq \in Nat /\ a.changesSeq <= b.changesSeq + n
    BY DEF Stage
  <2>3. a.changesSeq < MaxSeq
    BY <1>1, <1>5, <2>2, DocTxAssumption
  <2>4. /\ a.docs[d] = b.docs[d] /\ a.leaves[d] = b.leaves[d]
        /\ a.inval[d] = b.inval[d]
    BY <1>2, <1>4 DEF Stage
  <2> QED
    BY <2>1, <2>3, <2>4
<1> HIDE DEF op
<1>7. Writes(a, op, m)
  BY <1>2, <1>3, <1>6, WritesAlike
<1>8. /\ c \in Buckets /\ BucketsSound(c)
      /\ c.changesSeq \in Nat /\ c.changesSeq <= a.changesSeq + 1
      /\ Elsewhere(a, c, d)
      /\ c.docs[d] # NoDoc
      /\ c.docs[d] = IF op.put = NoDoc THEN a.docs[d] ELSE op.put
      /\ AtLeast(c.docs[d].rev, m.rev) /\ AtLeast(c.docs[d].rev, a.docs[d].rev)
      /\ \A l \in op.puts : l.rev = m.rev
  BY <1>2, <1>3, <1>6, <1>7, WriteApplied DEF op
<1>9. c.changesSeq <= b.changesSeq + (n + 1)
  BY <1>5, <1>8 DEF Stage
<1>10. ASSUME NEW e \in Docs
       PROVE  /\ AtLeast(c.docs[e].rev, b.docs[e].rev)
              /\ (\A k \in 1..(n + 1) : log[k].id # e) =>
                   /\ c.docs[e] = b.docs[e]
                   /\ c.leaves[e] = b.leaves[e]
                   /\ c.inval[e] = b.inval[e]
  <2>1. CASE e = d
    BY <1>1, <1>6, <1>8, <2>1 DEF op
  <2>2. CASE e # d
    <3>1. /\ c.docs[e] = a.docs[e] /\ c.leaves[e] = a.leaves[e]
          /\ c.inval[e] = a.inval[e]
      BY <1>8, <2>2 DEF Elsewhere
    <3> QED
      BY <1>1, <3>1 DEF Stage
  <2> QED
    BY <2>1, <2>2
<1>11. ASSUME NEW k \in 1..(n + 1)
       PROVE  LET e == log[k].id
              IN  /\ c.docs[e] # NoDoc
                  /\ c.docs[e] = IF log[k].put = NoDoc THEN b.docs[e] ELSE log[k].put
                  /\ \A l \in log[k].puts :
                       /\ AtLeast(c.docs[e].rev, l.rev)
                       /\ \E x \in minted[e] : x.rev = l.rev
  <2>1. CASE k = n + 1
    BY <1>3, <1>6, <1>8, <2>1 DEF op
  <2>2. CASE k \in 1..n
    <3>1. c.docs[log[k].id] = a.docs[log[k].id]
      BY <1>2, <1>4, <1>8, <2>2 DEF Elsewhere
    <3> QED
      BY <2>2, <3>1 DEF Stage
  <2> QED
    BY <1>1, <2>1, <2>2
<1> QED
  BY <1>8, <1>9, <1>10, <1>11 DEF Stage

LEMMA LogApplied ==
  ASSUME MintedOnce, \A d \in Docs : minted[d] \subseteq Document,
         NEW b \in Buckets, BucketsSound(b), NEW log, LogFor(b, log),
         b.changesSeq + Len(log) <= MaxSeq
  PROVE  Stage(b, log, Applied(b, log), Len(log))
<1>1. PICK f : IsApplying(f, b, log) /\ Applied(b, log) = f[Len(log)]
  BY AppliedLast DEF LogFor
<1> DEFINE N == Len(log)
           S == {n \in Nat : n <= N => Stage(b, log, f[n], n)}
<1>2. N \in Nat
  BY DEF LogFor
<1>3. b.changesSeq \in Nat
  BY DocTxAssumption DEF Buckets
<1>4. Stage(b, log, b, 0)
  BY <1>3 DEF Stage, AtLeast
<1>5. 0 \in S
  BY <1>1, <1>4 DEF IsApplying
<1> HIDE DEF N
<1>6. ASSUME NEW n \in S
      PROVE  n + 1 \in S
  <2> SUFFICES ASSUME n + 1 <= N
               PROVE  Stage(b, log, f[n + 1], n + 1)
    OBVIOUS
  <2>1. n \in Nat /\ n + 1 \in 1..N /\ (n + 1) - 1 = n /\ Stage(b, log, f[n], n)
    BY <1>2
  <2>2. f[n + 1] = Apply(f[n], log[n + 1])
    BY <1>1, <2>1 DEF N, IsApplying
  <2> QED
    BY <2>1, <2>2, OneMoreApplied DEF N
<1>7. N \in S
  <2> HIDE DEF S
  <2>1. S \in SUBSET Nat
    BY DEF S
  <2> QED
    BY <1>2, <1>5, <1>6, <2>1, SetInduction
<1> QED
  BY <1>1, <1>2, <1>7 DEF N

-----------------------------------------------------------------------------
(* The log of a request. *)

\* The item is written as the revision it makes.
LEMMA WriteOfItem ==
  ASSUME TypeOK, MintedOnce, NEW kind, NEW it \in Item,
         NewRev(it.base, it.hash) \in Rev, kind = "delete" => it.deleted,
         Stores(kind, it)
  PROVE  LET op == WriteOf(kind, it)
         IN  op.id = it.id /\ op \in OpLog /\ Writes(db, op, Made(it))
<1> DEFINE op == WriteOf(kind, it)
           m == Made(it)
           d == it.id
<1>1. /\ d \in Docs /\ it.deleted \in BOOLEAN /\ it.base.gen \in Nat
      /\ db \in Buckets
  BY ItemFields DEF TypeOK
<1>2. /\ m \in Document /\ OwnHistory(m) /\ m.deleted = it.deleted
      /\ m.rev.gen = it.base.gen + 1 /\ m.rev \in Rev
  BY MadeIsDocument, ItemFields, DocIsNotNil
<1>3. m.hist # <<>>
  BY <1>2 DEF OwnHistory, Heads
<1>4. NoDoc.rev.gen = 0
  BY DEF NoDoc, NoRev
<1>5. ASSUME IsDeletion(kind, it)
      PROVE  op.id = d /\ Writes(db, op, m)
  <2>1. m.deleted = TRUE
    BY <1>1, <1>2, <1>5 DEF IsDeletion
  <2>2. op = DeleteDocument(db, d, it.base, m.rev) /\ Deletable(it)
    BY <1>5 DEF WriteOf, Stores
  <2> HIDE DEF op, m
  <2>3. CASE it.base = db.docs[d].rev
    <3>1. op = PutDocument(db, d, m.rev, TRUE)
      BY <2>2, <2>3 DEF DeleteDocument
    <3>2. op.id = d
      BY <3>1 DEF PutDocument, ReplaceWinner
    <3>3. db.docs[d].rev.gen < m.rev.gen
      BY <1>1, <1>2, <2>3
    <3>4. op = PutDocument(db, op.id, m.rev, m.deleted)
      BY <2>1, <3>1, <3>2
    <3> QED
      BY <3>2, <3>3, <3>4 DEF Writes
  <2>4. CASE it.base # db.docs[d].rev
    <3>1. op = DeleteLeaf(db, d, it.base, m.rev) /\ it.base \in leafRevs(db, d)
      BY <2>2, <2>4 DEF DeleteDocument, Deletable
    <3>2. op.id = d
      BY <3>1 DEF DeleteLeaf, ReplaceWinner, KeepWinner
    <3> QED
      BY <1>1, <1>2, <2>1, <2>4, <3>1, <3>2 DEF Writes
  <2> QED
    BY <2>3, <2>4
<1>6. ASSUME ~IsDeletion(kind, it) /\ kind = "replicate"
      PROVE  op.id = d /\ Writes(db, op, m)
  <2>1. op = PutDocumentForReplication(db, d, m) /\ m.rev # db.docs[d].rev
    BY <1>6 DEF WriteOf, Stores
  <2> HIDE DEF op, m
  <2>2. op.id = d
    BY <2>1 DEF PutDocumentForReplication, ReplaceWinner, KeepWinner
  <2> QED
    BY <2>1, <2>2 DEF Writes
<1>7. ASSUME ~IsDeletion(kind, it) /\ kind # "replicate"
      PROVE  op.id = d /\ Writes(db, op, m)
  <2>1. /\ op = PutDocument(db, d, m.rev, m.deleted)
        /\ db.docs[d] = NoDoc \/ it.base = db.docs[d].rev
    BY <1>2, <1>7 DEF WriteOf, Stores, ValidUpdateRevision
  <2> HIDE DEF op, m
  <2>2. op.id = d
    BY <2>1 DEF PutDocument, ReplaceWinner
  <2> QED
    BY <1>1, <1>2, <1>4, <2>1, <2>2 DEF Writes
<1>8. op.id = d /\ Writes(db, op, m)
  BY <1>5, <1>6, <1>7
<1> HIDE DEF op, m
<1>9. op \in OpLog
  BY <1>1, <1>2, <1>3, <1>8, WriteTyped
<1> QED
  BY <1>8, <1>9 DEF op, m

\* f collects the writes of the items of r in stored.
IsLogging(f, r, stored) ==
  /\ f[0] = <<>>
  /\ \A i \in 1..Len(r.items) :
       f[i] = IF i \in stored THEN Append(f[i - 1], WriteOf(r.kind, r.items[i]))
              ELSE f[i - 1]

LEMMA LoggedLast ==
  ASSUME NEW r, Len(r.items) \in Nat, NEW stored
  PROVE  \E f : IsLogging(f, r, stored) /\ Logged(r, stored) = f[Len(r.items)]
<1> DEFINE N == Len(r.items)
           Step(log, i) == IF i \in stored
                           THEN Append(log, WriteOf(r.kind, r.items[i]))
                           ELSE log
           upTo[i \in 0..N] == IF i = 0 THEN <<>> ELSE Step(upTo[i - 1], i)
           Defined(n) == \E f : f = [i \in 0..n |->
                           IF i = 0 THEN <<>> ELSE Step(f[i - 1], i)]
           S == {n \in Nat : Defined(n)}
<1>1. Logged(r, stored) = upTo[N]
  BY DEF Logged
<1>2. N \in Nat
  OBVIOUS
<1>3. \A f : (/\ f[0] = <<>>
              /\ \A i \in 1..N : f[i] = Step(f[i - 1], i)) =>
                IsLogging(f, r, stored)
  BY DEF IsLogging
<1> HIDE DEF Step, N
<1>4. S = Nat
  <2>1. 0 \in S
    <3> DEFINE f == [i \in 0..0 |-> <<>>]
    <3>1. f = [i \in 0..0 |-> IF i = 0 THEN <<>> ELSE Step(f[i - 1], i)]
      OBVIOUS
    <3> QED
      BY <3>1
  <2>2. ASSUME NEW n \in S
        PROVE  n + 1 \in S
    <3>1. PICK f : f = [i \in 0..n |-> IF i = 0 THEN <<>> ELSE Step(f[i - 1], i)]
      OBVIOUS
    <3> DEFINE g == [i \in 0..(n + 1) |->
                       IF i = 0 THEN <<>> ELSE Step(f[i - 1], i)]
    <3>2. \A i \in 0..n : g[i] = f[i]
      BY <3>1
    <3>3. \A i \in 0..(n + 1) : i # 0 => i - 1 \in 0..n
      OBVIOUS
    <3>4. g = [i \in 0..(n + 1) |->
                 IF i = 0 THEN <<>> ELSE Step(g[i - 1], i)]
      BY <3>2, <3>3
    <3>5. Defined(n + 1)
      <4> HIDE DEF g
      <4> QED
        BY <3>4
    <3>6. n + 1 \in Nat
      OBVIOUS
    <3> HIDE DEF Defined
    <3> QED
      BY <3>5, <3>6
  <2> QED
    BY <2>1, <2>2, SetInduction
<1>5. N \in S
  BY <1>2, <1>4
<1>6. upTo = [i \in 0..N |-> IF i = 0 THEN <<>> ELSE Step(upTo[i - 1], i)]
  BY <1>5
<1> HIDE DEF upTo
<1>7. upTo[0] = <<>>
  BY <1>2, <1>6
<1>8. \A i \in 1..N : upTo[i] = Step(upTo[i - 1], i)
  BY <1>2, <1>6
<1> QED
  BY <1>1, <1>3, <1>7, <1>8 DEF N

\* log holds writes of the items of r in stored, up to the n-th.
LogOf(log, r, stored, n) ==
  /\ log \in Seq(OpLog) /\ Len(log) <= n
  /\ (\E i \in stored : i <= n) => log # <<>>
  /\ \A k \in 1..Len(log) : \E i \in stored :
       i <= n /\ log[k] = WriteOf(r.kind, r.items[i])
  /\ (\A i, j \in stored : r.items[i].id = r.items[j].id => i = j) =>
       \A k, l \in 1..Len(log) : log[k].id = log[l].id => k = l

LEMMA OneMoreLogged ==
  ASSUME NEW r, NEW stored \in SUBSET Nat,
         \A i \in stored : /\ WriteOf(r.kind, r.items[i]).id = r.items[i].id
                           /\ WriteOf(r.kind, r.items[i]) \in OpLog,
         NEW n \in Nat, NEW log, LogOf(log, r, stored, n), n + 1 \in stored
  PROVE  LogOf(Append(log, WriteOf(r.kind, r.items[n + 1])), r, stored, n + 1)
<1> DEFINE w == WriteOf(r.kind, r.items[n + 1])
           more == Append(log, w)
<1>1. /\ w \in OpLog /\ w.id = r.items[n + 1].id
      /\ log \in Seq(OpLog) /\ Len(log) <= n /\ Len(log) \in Nat
  BY DEF LogOf
<1> HIDE DEF w
<1>2. /\ more \in Seq(OpLog) /\ Len(more) = Len(log) + 1 /\ more # <<>>
      /\ \A k \in 1..Len(log) : more[k] = log[k]
      /\ more[Len(log) + 1] = w
      /\ \A k \in 1..Len(more) : k \in 1..Len(log) \/ k = Len(log) + 1
  BY <1>1
<1> HIDE DEF more
<1>3. ASSUME NEW k \in 1..Len(more)
      PROVE  \E i \in stored : i <= n + 1 /\ more[k] = WriteOf(r.kind, r.items[i])
  <2>1. CASE k \in 1..Len(log)
    BY <1>2, <2>1 DEF LogOf
  <2>2. CASE k = Len(log) + 1
    BY <1>2, <2>2 DEF w
  <2> QED
    BY <1>2, <2>1, <2>2
<1>4. ASSUME \A i, j \in stored : r.items[i].id = r.items[j].id => i = j,
             NEW k \in 1..Len(more), NEW l \in 1..Len(more),
             more[k].id = more[l].id
      PROVE  k = l
  <2>1. \A h \in 1..Len(log) : log[h].id # w.id
    <3> SUFFICES ASSUME NEW h \in 1..Len(log)
                 PROVE  log[h].id # w.id
      OBVIOUS
    <3>1. PICK i \in stored : i <= n /\ log[h] = WriteOf(r.kind, r.items[i])
      BY DEF LogOf
    <3>2. i # n + 1 /\ log[h].id = r.items[i].id
      BY <3>1
    <3> QED
      BY <1>1, <1>4, <3>2
  <2> QED
    BY <1>2, <1>4, <2>1 DEF LogOf
<1> QED
  BY <1>1, <1>2, <1>3, <1>4 DEF LogOf, more, w

LEMMA LoggedWrites ==
  ASSUME NEW r, Len(r.items) \in Nat, NEW stored \in SUBSET (1..Len(r.items)),
         \A i \in stored : /\ WriteOf(r.kind, r.items[i]).id = r.items[i].id
                           /\ WriteOf(r.kind, r.items[i]) \in OpLog
  PROVE  LogOf(Logged(r, stored), r, stored, Len(r.items))
<1>1. PICK f : IsLogging(f, r, stored) /\ Logged(r, stored) = f[Len(r.items)]
  BY LoggedLast
<1> DEFINE N == Len(r.items)
           S == {n \in Nat : n <= N => LogOf(f[n], r, stored, n)}
<1>2. 0 \in S
  <2>1. f[0] = <<>> /\ ~\E i \in stored : i <= 0
    BY <1>1 DEF IsLogging
  <2>2. LogOf(<<>>, r, stored, 0)
    BY <2>1 DEF LogOf
  <2> QED
    BY <2>1, <2>2
<1> HIDE DEF N
<1>3. ASSUME NEW n \in S
      PROVE  n + 1 \in S
  <2> SUFFICES ASSUME n + 1 <= N
               PROVE  LogOf(f[n + 1], r, stored, n + 1)
    OBVIOUS
  <2>1. n \in Nat /\ n + 1 \in 1..N /\ (n + 1) - 1 = n /\ LogOf(f[n], r, stored, n)
    BY DEF N
  <2>2. f[n + 1] = IF n + 1 \in stored
                   THEN Append(f[n], WriteOf(r.kind, r.items[n + 1]))
                   ELSE f[n]
    BY <1>1, <2>1 DEF N, IsLogging
  <2>3. CASE n + 1 \in stored
    BY <2>1, <2>2, <2>3, OneMoreLogged
  <2>4. CASE n + 1 \notin stored
    <3>1. \A i \in stored : i \in Nat /\ (i <= n + 1 => i <= n)
      BY <2>1, <2>4
    <3>2. Len(f[n]) \in Nat
      BY <2>1 DEF LogOf
    <3>3. \A i \in stored : i <= n => i <= n + 1
      BY <2>1, <3>1
    <3> QED
      BY <2>1, <2>2, <2>4, <3>1, <3>2, <3>3 DEF LogOf
  <2> QED
    BY <2>3, <2>4
<1>4. N \in S
  <2> HIDE DEF S
  <2>1. S \in SUBSET Nat
    BY DEF S
  <2> QED
    BY <1>2, <1>3, <2>1, SetInduction DEF N
<1> QED
  BY <1>1, <1>4 DEF N

-----------------------------------------------------------------------------
(* What is counted. *)

LEMMA BoundedSequence ==
  ASSUME NEW S, NEW n \in Nat
  PROVE  \A s : s \in BoundedSeq(S, n) <=> s \in Seq(S) /\ Len(s) <= n
<1>1. BoundedSeq(S, n) = UNION {[1..m -> S] : m \in 0..n}
  BY DEF BoundedSeq, SeqOf
<1>2. ASSUME NEW m \in 0..n, NEW s \in [1..m -> S]
      PROVE  s \in Seq(S) /\ Len(s) <= n
  OBVIOUS
<1>3. ASSUME NEW s \in Seq(S), Len(s) <= n
      PROVE  \E m \in 0..n : s \in [1..m -> S]
  <2>1. Len(s) \in 0..n /\ s \in [1..Len(s) -> S]
    BY <1>3
  <2> QED
    BY <2>1
<1> QED
  BY <1>1, <1>2, <1>3

LEMMA RequestFields ==
  ASSUME NEW r \in Requests
  PROVE  /\ r.kind \in Kinds /\ r.parts \in {0, 1} /\ r.unseen \in Int
         /\ r.todo \in 0..MaxBatch /\ r.todo \in Nat
         /\ r.at \in {"validate", "begin", "commit", "attach"}
         /\ r.denied \in SUBSET (1..MaxBatch)
         /\ r.items \in Seq(Item) /\ Len(r.items) \in Nat
         /\ Len(r.items) <= MaxBatch /\ DOMAIN r.items = 1..Len(r.items)
         /\ \A i \in DOMAIN r.items : r.items[i] \in Item
         /\ r.seen \in Seq(Document \cup {NoDoc}) /\ Len(r.seen) \in Nat
         /\ DOMAIN r.seen = 1..Len(r.seen)
         /\ r.log \in Seq(OpLog) /\ Len(r.log) \in Nat
         /\ DOMAIN r.log = 1..Len(r.log)
         /\ \A k \in DOMAIN r.log : r.log[k] \in OpLog /\ r.log[k].id \in Docs
<1>1. /\ r.kind \in Kinds /\ r.parts \in {0, 1} /\ r.unseen \in Int
      /\ r.todo \in 0..MaxBatch
      /\ r.at \in {"validate", "begin", "commit", "attach"}
      /\ r.denied \in SUBSET (1..MaxBatch)
      /\ r.items \in BoundedSeq(Item, MaxBatch)
      /\ r.seen \in Seq(Document \cup {NoDoc}) /\ r.log \in Seq(OpLog)
  BY DEF Requests
<1>2. r.items \in Seq(Item) /\ Len(r.items) <= MaxBatch
  BY <1>1, RequestsAssumption, BoundedSequence
<1>3. \A o \in OpLog : o.id \in Docs
  BY DEF OpLog
<1>4. \A k \in DOMAIN r.log : r.log[k] \in OpLog
  BY <1>1
<1>5. r.todo \in Nat
  BY <1>1, RequestsAssumption
<1> QED
  BY <1>1, <1>2, <1>3, <1>4, <1>5

\* How many documents are announced is at most all of them.
LEMMA AnnouncedType ==
  ASSUME NEW kind, NEW items, Len(items) \in Nat, DOMAIN items = 1..Len(items)
  PROVE  Announced(kind, items) \in Nat
<1> DEFINE fresh == {i \in DOMAIN items : IsNew(items[i])}
<1>1. IsFiniteSet(DOMAIN items)
  BY FS_Interval
<1>2. IsFiniteSet(fresh)
  BY <1>1, FS_Subset
<1>3. Cardinality(fresh) \in Nat
  BY <1>2, FS_CardinalityType
<1> QED
  BY <1>3 DEF Announced

LiveIn(b) == {d \in Docs : Live(b, d) # NoDoc}

LEMMA LiveAt ==
  ASSUME NEW b, NEW d, b.docs[d] \in Document \cup {NoDoc}
  PROVE  Live(b, d) # NoDoc <=> b.docs[d] # NoDoc /\ ~b.docs[d].deleted
BY DocIsNotNil, NilDocument DEF Live

\* The statistics count the live documents, when the indices are exact.
LEMMA DocCountIsLive ==
  ASSUME NEW b \in Buckets, BucketsSound(b)
  PROVE  /\ IsFiniteSet(LiveIn(b)) /\ Cardinality(LiveIn(b)) \in Nat
         /\ DocCount(b) = Cardinality(LiveIn(b))
<1> DEFINE known == {d \in Docs : b.docs[d] # NoDoc}
           place == [d \in known |-> b.inval[d]]
<1>1. /\ b.docs \in [Docs -> Document \cup {NoDoc}] /\ b.deleted \subseteq Docs
      /\ b.invalSeq \in Int
  BY DocTxAssumption DEF Buckets
<1>2. IsFiniteSet(1..b.invalSeq)
  BY <1>1, FS_Interval
<1>3. place \in Injection(known, 1..b.invalSeq)
  BY DEF BucketsSound, SequencesApart, Injection, IsInjective
<1>4. IsFiniteSet(known)
  BY <1>2, <1>3, FS_Injection
<1>5. \A d \in Docs : d \in b.deleted <=> b.docs[d].deleted
  BY DEF BucketsSound, SoundAt, IndicesExactAt
<1>6. b.deleted \subseteq known
  BY <1>1, <1>5, NilDocument
<1>7. LiveIn(b) = known \ b.deleted
  BY <1>1, <1>5, LiveAt DEF LiveIn
<1> HIDE DEF known
<1>8. known \cap b.deleted = b.deleted
  BY <1>6
<1>9. /\ IsFiniteSet(LiveIn(b))
      /\ Cardinality(LiveIn(b)) = Cardinality(known) - Cardinality(b.deleted)
  BY <1>4, <1>7, <1>8, FS_Difference
<1> QED
  BY <1>9, FS_CardinalityType DEF DocCount, known

\* A log makes at most one document live per write.
LEMMA LiveGrows ==
  ASSUME NEW b \in Buckets, BucketsSound(b), NEW log \in Seq(OpLog), NEW a,
         Stage(b, log, a, Len(log))
  PROVE  /\ Cardinality(LiveIn(a)) \in Nat
         /\ Cardinality(LiveIn(a)) <= Cardinality(LiveIn(b)) + Len(log)
<1> DEFINE written == {log[k].id : k \in 1..Len(log)}
           names == [k \in 1..Len(log) |-> log[k].id]
<1>1. a \in Buckets /\ BucketsSound(a) /\ Len(log) \in Nat
  BY DEF Stage
<1>2. IsFiniteSet(1..Len(log)) /\ Cardinality(1..Len(log)) = Len(log)
  BY <1>1, FS_Interval
<1>3. names \in Surjection(1..Len(log), written)
  BY DEF Surjection
<1>4. IsFiniteSet(written) /\ Cardinality(written) <= Len(log)
  BY <1>2, <1>3, FS_Surjection
<1>5. LiveIn(a) \subseteq LiveIn(b) \cup written
  <2> SUFFICES ASSUME NEW d \in LiveIn(a), d \notin written
               PROVE  d \in LiveIn(b)
    OBVIOUS
  <2>1. d \in Docs /\ a.docs[d] = b.docs[d]
    BY DEF Stage, LiveIn
  <2> QED
    BY <2>1 DEF LiveIn, Live
<1> HIDE DEF written
<1>6. IsFiniteSet(LiveIn(b)) /\ IsFiniteSet(LiveIn(a))
  BY <1>1, DocCountIsLive
<1>7. /\ IsFiniteSet(LiveIn(b) \cup written)
      /\ Cardinality(LiveIn(b) \cup written) =
           Cardinality(LiveIn(b)) + Cardinality(written)
             - Cardinality(LiveIn(b) \cap written)
  BY <1>4, <1>6, FS_Union
<1>8. Cardinality(LiveIn(a)) <= Cardinality(LiveIn(b) \cup written)
  BY <1>5, <1>7, FS_Subset
<1>9. IsFiniteSet(LiveIn(b) \cap written)
  BY <1>4, FS_Intersection
<1>10. /\ Cardinality(LiveIn(a)) \in Nat /\ Cardinality(LiveIn(b)) \in Nat
       /\ Cardinality(written) \in Nat
       /\ Cardinality(LiveIn(b) \cup written) \in Nat
       /\ Cardinality(LiveIn(b) \cap written) \in Nat
  BY <1>4, <1>6, <1>7, <1>9, FS_CardinalityType
<1> QED
  BY <1>1, <1>4, <1>7, <1>8, <1>10

\* The documents that the requests in q have yet to store.
UnstoredOf(q) ==
  {w \in Clients \X (1..MaxBatch) : \E r \in q[w[1]] : w[2] <= r.todo}

LEMMA UnstoredFinite ==
  ASSUME NEW q
  PROVE  IsFiniteSet(UnstoredOf(q)) /\ Cardinality(UnstoredOf(q)) \in Nat
<1>1. IsFiniteSet(Clients \X (1..MaxBatch))
  <2> DEFINE batch == 1..MaxBatch
  <2>1. IsFiniteSet(batch) /\ IsFiniteSet(Clients)
    BY RequestsAssumption, FS_Interval
  <2> HIDE DEF batch
  <2>2. IsFiniteSet(Clients \X batch)
    BY <2>1, FS_Product
  <2> QED
    BY <2>2 DEF batch
<1>2. UnstoredOf(q) \subseteq Clients \X (1..MaxBatch)
  BY DEF UnstoredOf
<1>3. IsFiniteSet(UnstoredOf(q))
  BY <1>1, <1>2, FS_Subset
<1> QED
  BY <1>3, FS_CardinalityType

LEMMA UnstoredFewer ==
  ASSUME NEW p, NEW q,
         \A c \in Clients : \A r \in q[c] :
           r.todo \in Nat /\ \E s \in p[c] : s.todo \in Nat /\ r.todo <= s.todo
  PROVE  Cardinality(UnstoredOf(q)) <= Cardinality(UnstoredOf(p))
<1>1. UnstoredOf(q) \subseteq UnstoredOf(p)
  <2> SUFFICES ASSUME NEW w \in Clients \X (1..MaxBatch),
                      NEW r \in q[w[1]], w[2] <= r.todo
               PROVE  \E s \in p[w[1]] : w[2] <= s.todo
    BY DEF UnstoredOf
  <2>1. w[1] \in Clients /\ w[2] \in Int
    OBVIOUS
  <2>2. r.todo \in Nat /\ \E s \in p[w[1]] : s.todo \in Nat /\ r.todo <= s.todo
    BY <2>1
  <2> QED
    BY <2>1, <2>2
<1> QED
  BY <1>1, UnstoredFinite, FS_Subset

\* The request c has in q, of n documents, is what makes the difference to p.
DifferBy(p, q, c, n) ==
  /\ \A s \in p[c] : s.todo = 0
  /\ \E s \in q[c] : TRUE
  /\ \A s \in q[c] : s.todo = n
  /\ \A o \in Clients \ {c} :
       /\ \A r \in q[o] : \E s \in p[o] : s.todo = r.todo
       /\ \A r \in p[o] : \E s \in q[o] : s.todo = r.todo

LEMMA UnstoredMore ==
  ASSUME NEW p, NEW q, NEW c \in Clients, NEW n \in 0..MaxBatch,
         DifferBy(p, q, c, n)
  PROVE  Cardinality(UnstoredOf(q)) = Cardinality(UnstoredOf(p)) + n
<1> DEFINE own == {c} \X (1..n)
<1>1. n \in Nat /\ n <= MaxBatch /\ MaxBatch \in Nat
  BY RequestsAssumption
<1>2. IsFiniteSet(own) /\ Cardinality(own) = n
  <2> DEFINE one  == {c}
             todo == 1..n
  <2>1. IsFiniteSet(one) /\ Cardinality(one) = 1
    BY FS_Singleton
  <2>2. IsFiniteSet(todo) /\ Cardinality(todo) = n
    BY <1>1, FS_Interval
  <2> HIDE DEF one, todo
  <2>3. /\ IsFiniteSet(one \X todo)
        /\ Cardinality(one \X todo) = Cardinality(one) * Cardinality(todo)
    BY <2>1, <2>2, FS_Product
  <2>4. Cardinality(one \X todo) = n
    BY <1>1, <2>1, <2>2, <2>3
  <2> QED
    BY <2>3, <2>4 DEF one, todo
<1>3. UnstoredOf(q) = UnstoredOf(p) \cup own
  <2> SUFFICES ASSUME NEW o \in Clients, NEW i \in 1..MaxBatch
               PROVE  (\E r \in q[o] : i <= r.todo) <=>
                        (\E r \in p[o] : i <= r.todo) \/ (o = c /\ i <= n)
    BY <1>1 DEF UnstoredOf
  <2>1. CASE o = c
    BY <1>1, <2>1 DEF DifferBy
  <2>2. CASE o # c
    BY <2>2 DEF DifferBy
  <2> QED
    BY <2>1, <2>2
<1>4. UnstoredOf(p) \cap own = {}
  <2> SUFFICES ASSUME NEW w \in own, w \in UnstoredOf(p)
               PROVE  FALSE
    OBVIOUS
  <2>1. w[1] = c /\ w[2] >= 1 /\ w[2] \in Nat
    BY <1>1
  <2> QED
    BY <2>1 DEF UnstoredOf, DifferBy
<1> HIDE DEF own
<1>5. /\ Cardinality(UnstoredOf(q)) =
           Cardinality(UnstoredOf(p)) + Cardinality(own)
             - Cardinality(UnstoredOf(p) \cap own)
  BY <1>2, <1>3, UnstoredFinite, FS_Union
<1>6. Cardinality(UnstoredOf(p) \cap own) = 0
  BY <1>4, FS_EmptySet
<1> QED
  BY <1>1, <1>2, <1>5, <1>6, UnstoredFinite

-----------------------------------------------------------------------------
(* A request arrives. *)

\* What any of the operations submits.
Admissible(kind, items, parts) ==
  /\ kind \in Kinds /\ parts \in {0, 1}
  /\ items \in Seq(Items) /\ items # <<>>
  /\ Len(items) <= spare /\ Len(items) <= MaxBatch
  /\ parts = 1 => Len(items) = 1
  /\ \A i, j \in DOMAIN items :
       items[i].id = items[j].id /\ Made(items[i]).rev = Made(items[j]).rev
         => items[i] = items[j]
  /\ \A i \in DOMAIN items : /\ kind = "delete" => items[i].deleted
                             /\ kind = "post" => items[i].base = NoRev

LEMMA OneItemAdmissible ==
  ASSUME TypeOK, spare > 0, NEW it \in Items, NEW kind \in Kinds,
         NEW parts \in {0, 1},
         kind = "delete" => it.deleted, kind = "post" => it.base = NoRev
  PROVE  Admissible(kind, <<it>>, parts)
<1>1. /\ <<it>> \in Seq(Items) /\ <<it>> # <<>> /\ Len(<<it>>) = 1
      /\ \A i \in DOMAIN <<it>> : <<it>>[i] = it
  OBVIOUS
<1>2. spare \in Nat /\ 1 <= spare /\ 1 <= MaxBatch
  BY RequestsAssumption DEF TypeOK
<1> DEFINE items == <<it>>
<1>3. /\ items \in Seq(Items) /\ items # <<>> /\ Len(items) = 1
      /\ \A i \in DOMAIN items : items[i] = it
  BY <1>1
<1> HIDE DEF items
<1>4. Admissible(kind, items, parts)
  BY <1>2, <1>3 DEF Admissible
<1> QED
  BY <1>4 DEF items

LEMMA ArrivesAdmissible ==
  ASSUME TypeOK, Arrives
  PROVE  \E c \in Clients, kind \in Kinds, parts \in {0, 1} : \E items :
           /\ req[c] = {} /\ Admissible(kind, items, parts)
           /\ Submit(c, kind, items, parts)
<1>1. PICK c \in Clients :
        /\ req[c] = {}
        /\ Put(c) \/ Multipart(c) \/ Post(c) \/ Delete(c) \/ Copy(c) \/ BulkDocs(c)
  BY DEF Arrives
<1>2. spare > 0
  BY DEF Arrives
<1> DEFINE Goal == \E kind \in Kinds, parts \in {0, 1} : \E items :
                     Admissible(kind, items, parts) /\ Submit(c, kind, items, parts)
<1>3. ASSUME NEW it \in Items, NEW kind \in Kinds, NEW parts \in {0, 1},
             kind = "delete" => it.deleted, kind = "post" => it.base = NoRev,
             Submit(c, kind, <<it>>, parts)
      PROVE  Goal
  BY <1>2, <1>3, OneItemAdmissible
<1> HIDE DEF Goal
<1>4. ASSUME Put(c)
      PROVE  Goal
  <2>1. PICK it \in Items :
          \/ \E parts \in {0, 1} : Submit(c, "put", <<it>>, parts)
          \/ Submit(c, "replicate", <<it>>, 0)
    BY <1>4 DEF Put
  <2>2. "put" \in Kinds /\ "replicate" \in Kinds /\ 0 \in {0, 1}
    BY DEF Kinds
  <2>3. CASE \E parts \in {0, 1} : Submit(c, "put", <<it>>, parts)
    BY <1>3, <2>2, <2>3
  <2>4. CASE Submit(c, "replicate", <<it>>, 0)
    BY <1>3, <2>2, <2>4
  <2> QED
    BY <2>1, <2>3, <2>4
<1>5. ASSUME Multipart(c)
      PROVE  Goal
  BY <1>3, <1>5 DEF Multipart, Kinds
<1>6. ASSUME Post(c)
      PROVE  Goal
  BY <1>3, <1>6 DEF Post, Kinds, IsNew
<1>7. ASSUME Delete(c)
      PROVE  Goal
  BY <1>3, <1>7 DEF Delete, Kinds
<1>8. ASSUME Copy(c)
      PROVE  Goal
  BY <1>3, <1>8 DEF Copy, Kinds
<1>9. ASSUME BulkDocs(c)
      PROVE  Goal
  <2>1. PICK items \in Batches, kind \in {"bulk", "replicate"} :
          Submit(c, kind, items, 0)
    BY <1>9 DEF BulkDocs
  <2>2. spare \in Nat /\ MaxBatch \in Nat
    BY RequestsAssumption DEF TypeOK
  <2>3. /\ Min({spare, MaxBatch}) \in Nat
        /\ Min({spare, MaxBatch}) <= spare /\ Min({spare, MaxBatch}) <= MaxBatch
    BY <2>2 DEF Min
  <2>4. /\ items \in BoundedSeq(Items, Min({spare, MaxBatch})) /\ items # <<>>
        /\ \A i, j \in DOMAIN items :
             items[i].id = items[j].id /\ Made(items[i]).rev = Made(items[j]).rev
               => items[i] = items[j]
    BY DEF Batches
  <2>5. items \in Seq(Items) /\ Len(items) <= Min({spare, MaxBatch})
    BY <2>3, <2>4, BoundedSequence
  <2>6. Len(items) <= spare /\ Len(items) <= MaxBatch
    BY <2>2, <2>3, <2>5
  <2>7. Admissible(kind, items, 0)
    BY <2>4, <2>5, <2>6 DEF Admissible, Kinds
  <2>8. kind \in Kinds /\ 0 \in {0, 1}
    BY DEF Kinds
  <2> QED
    BY <2>1, <2>7, <2>8 DEF Goal
<1> QED
  BY <1>1, <1>4, <1>5, <1>6, <1>7, <1>8, <1>9 DEF Goal

LEMMA AdmissibleItems ==
  ASSUME TypeOK, MintedOnce, NEW kind, NEW items, NEW parts,
         Admissible(kind, items, parts)
  PROVE  /\ items \in Seq(Item) /\ Len(items) \in Nat
         /\ items \in BoundedSeq(Item, MaxBatch)
         /\ DOMAIN items = 1..Len(items)
         /\ \A i \in DOMAIN items :
              LET it == items[i]
              IN  /\ it \in Item /\ it.id \in Docs
                  /\ it.base \in acked[it.id] \cup {NoRev}
                  /\ NewRev(it.base, it.hash) \in Rev
                  /\ Made(it) \in Document /\ OwnHistory(Made(it))
                  /\ Consistent(it.id, Made(it))
<1>1. /\ items \in Seq(Items) /\ Len(items) \in Nat /\ Len(items) <= MaxBatch
      /\ DOMAIN items = 1..Len(items)
      /\ \A i \in DOMAIN items : items[i] \in Items
  BY DEF Admissible
<1>2. Items \subseteq Item
  BY DEF Items
<1>3. items \in Seq(Item)
  BY <1>1, <1>2
<1>4. items \in BoundedSeq(Item, MaxBatch)
  BY <1>1, <1>3, RequestsAssumption, BoundedSequence
<1>5. ASSUME NEW it \in Items
      PROVE  /\ it \in Item /\ it.id \in Docs
             /\ it.base \in acked[it.id] \cup {NoRev}
             /\ NewRev(it.base, it.hash) \in Rev
             /\ Made(it) \in Document /\ OwnHistory(Made(it))
             /\ Consistent(it.id, Made(it))
  <2>1. /\ it \in Item /\ it.base \in acked[it.id] \cup {NoRev}
        /\ Consistent(it.id, Made(it))
    BY DEF Items
  <2>2. Made(it).rev = NewRev(it.base, it.hash)
    BY DEF Made
  <2>3. NewRev(it.base, it.hash) \in Rev
    BY <2>1, <2>2 DEF Consistent
  <2> QED
    BY <2>1, <2>3, MadeIsDocument, ItemFields
<1> QED
  BY <1>1, <1>3, <1>4, <1>5

\* The request that is opened.
Opened(kind, items, parts) ==
  [kind |-> kind, items |-> items, seen |-> <<>>, denied |-> {},
   parts |-> parts, log |-> <<>>, todo |-> Len(items),
   unseen |-> Len(items) - Announced(kind, items) + Cardinality(Unstored),
   at |-> IF kind = "copy" THEN "begin" ELSE "validate"]

LEMMA OpenedShaped ==
  ASSUME TypeOK, MintedOnce, NEW kind, NEW items, NEW parts,
         Admissible(kind, items, parts)
  PROVE  Opened(kind, items, parts) \in Requests /\ Shaped(Opened(kind, items, parts))
<1> DEFINE r == Opened(kind, items, parts)
<1>1. /\ r.kind = kind /\ r.items = items /\ r.seen = <<>> /\ r.denied = {}
      /\ r.parts = parts /\ r.log = <<>> /\ r.todo = Len(items)
      /\ r.unseen = Len(items) - Announced(kind, items) + Cardinality(Unstored)
      /\ r.at = IF kind = "copy" THEN "begin" ELSE "validate"
  BY DEF Opened
<1>2. /\ items \in Seq(Item) /\ Len(items) \in Nat
      /\ items \in BoundedSeq(Item, MaxBatch)
      /\ DOMAIN items = 1..Len(items)
      /\ \A i \in DOMAIN items : NewRev(items[i].base, items[i].hash) \in Rev
  BY AdmissibleItems
<1>3. /\ kind \in Kinds /\ parts \in {0, 1} /\ items # <<>>
      /\ Len(items) <= MaxBatch /\ (parts = 1 => Len(items) = 1)
      /\ \A i \in DOMAIN items : /\ kind = "delete" => items[i].deleted
                                 /\ kind = "post" => items[i].base = NoRev
  BY DEF Admissible
<1>4. Len(items) \in 0..MaxBatch /\ 0 < Len(items)
  BY <1>2, <1>3, RequestsAssumption
<1>5. Cardinality(Unstored) \in Nat /\ Announced(kind, items) \in Nat
  BY <1>2, AnnouncedType, UnstoredFinite DEF Unstored, UnstoredOf
<1>6. r.unseen \in Int
  BY <1>1, <1>2, <1>5
<1>7. /\ <<>> \in Seq(Document \cup {NoDoc}) /\ <<>> \in Seq(OpLog)
      /\ {} \in SUBSET (1..MaxBatch)
  OBVIOUS
<1>8. r \in Requests
  <2> HIDE DEF r
  <2>1. r = [kind |-> r.kind, items |-> r.items, seen |-> r.seen,
             denied |-> r.denied, parts |-> r.parts, log |-> r.log,
             todo |-> r.todo, unseen |-> r.unseen, at |-> r.at]
    BY DEF r, Opened
  <2>2. r.at \in {"validate", "begin", "commit", "attach"}
    BY <1>1
  <2> QED
    BY <1>1, <1>2, <1>3, <1>4, <1>6, <1>7, <2>1, <2>2 DEF Requests
<1> HIDE DEF r
<1>9. Shaped(r)
  BY <1>1, <1>2, <1>3, <1>4 DEF Shaped
<1> QED
  BY <1>8, <1>9 DEF r

\* A request stays what it is when others are open as well.
LEMMA Counted ==
  ASSUME NEW r \in Requests, NEW n \in Int,
         NEW s, s = [r EXCEPT !.unseen = @ + n]
  PROVE  /\ s \in Requests /\ (Shaped(r) => Shaped(s))
         /\ s.kind = r.kind /\ s.items = r.items /\ s.seen = r.seen
         /\ s.denied = r.denied /\ s.parts = r.parts /\ s.log = r.log
         /\ s.todo = r.todo /\ s.at = r.at /\ s.unseen = r.unseen + n
<1>1. /\ s.kind = r.kind /\ s.items = r.items /\ s.seen = r.seen
      /\ s.denied = r.denied /\ s.parts = r.parts /\ s.log = r.log
      /\ s.todo = r.todo /\ s.at = r.at /\ s.unseen = r.unseen + n
  BY DEF Requests
<1>2. s \in Requests
  <2>1. r.unseen + n \in Int
    BY RequestFields
  <2> QED
    BY <2>1 DEF Requests
<1> QED
  BY <1>1, <1>2 DEF Shaped

LEMMA SubmitShaped ==
  ASSUME RequestsShaped, NEW c \in Clients, req[c] = {},
         NEW kind, NEW items, NEW parts, Admissible(kind, items, parts),
         Submit(c, kind, items, parts)
  PROVE  /\ RequestsShaped'
         /\ \A d \in Docs : minted[d] \subseteq minted'[d]
         /\ \A i \in DOMAIN items : Made(items[i]) \in minted'[items[i].id]
<1> USE DEF RequestsShaped
<1> DEFINE new(d) == {Made(items[i]) : i \in {i \in DOMAIN items : items[i].id = d}}
<1>1. /\ Len(items) \in Nat /\ DOMAIN items = 1..Len(items)
      /\ \A i \in DOMAIN items :
           LET it == items[i]
           IN  /\ it.id \in Docs /\ Made(it) \in Document /\ OwnHistory(Made(it))
               /\ \A m \in minted[it.id] : m.rev = Made(it).rev => m = Made(it)
  BY AdmissibleItems DEF Consistent
<1>2. /\ spare' = spare - Len(items)
      /\ minted' = [d \in Docs |-> minted[d] \cup new(d)]
      /\ db' = db /\ acked' = acked /\ serial' = serial
      /\ req' = [o \in Clients |->
           IF o = c THEN {Opened(kind, items, parts)}
           ELSE {[r EXCEPT !.unseen = @ + Len(items)] : r \in req[o]}]
  BY DEF Submit, Opened
<1>3. \A d \in Docs : /\ minted'[d] = minted[d] \cup new(d)
                      /\ new(d) \subseteq Document /\ minted[d] \subseteq Document
  BY <1>1, <1>2 DEF TypeOK
<1>4. spare' \in 0..MaxWrites
  BY <1>1, <1>2, RequestsAssumption DEF Admissible, TypeOK
<1>5. minted' \in [Docs -> SUBSET Document]
  BY <1>2, <1>3
<1>6. MintedOnce'
  <2> SUFFICES ASSUME NEW d \in Docs
               PROVE  /\ \A m \in minted'[d] : OwnHistory(m)
                      /\ \A m, n \in minted'[d] : m.rev = n.rev => m = n
    BY DEF MintedOnce
  <2>1. /\ \A m \in minted[d] : OwnHistory(m)
        /\ \A m, n \in minted[d] : m.rev = n.rev => m = n
    BY DEF MintedOnce
  <2>2. \A m \in new(d) : \E i \in DOMAIN items : items[i].id = d /\ m = Made(items[i])
    OBVIOUS
  <2>3. \A m \in new(d) : OwnHistory(m)
    BY <1>1, <2>2
  <2>4. \A m \in minted[d], n \in new(d) : m.rev = n.rev => m = n
    BY <1>1, <2>2
  <2>5. \A m, n \in new(d) : m.rev = n.rev => m = n
    <3> SUFFICES ASSUME NEW m \in new(d), NEW n \in new(d), m.rev = n.rev
                 PROVE  m = n
      OBVIOUS
    <3>1. PICK i \in DOMAIN items : items[i].id = d /\ m = Made(items[i])
      BY <2>2
    <3>2. PICK j \in DOMAIN items : items[j].id = d /\ n = Made(items[j])
      BY <2>2
    <3>3. items[i] = items[j]
      BY <3>1, <3>2 DEF Admissible
    <3> QED
      BY <3>1, <3>2, <3>3
  <2> HIDE DEF new
  <2> QED
    BY <1>3, <2>1, <2>3, <2>4, <2>5
<1>7. \A o \in Clients : req[o] \subseteq Requests
  BY DEF TypeOK
<1>8. ASSUME NEW o \in Clients
      PROVE  /\ req'[o] \subseteq Requests
             /\ \A r \in req'[o] : Shaped(r) /\ \A p \in req'[o] : p = r
  <2>1. CASE o = c
    <3>1. req'[o] = {Opened(kind, items, parts)}
      BY <1>2, <2>1
    <3> QED
      BY <3>1, OpenedShaped
  <2>2. CASE o # c
    <3>1. req'[o] = {[r EXCEPT !.unseen = @ + Len(items)] : r \in req[o]}
      BY <1>2, <2>2
    <3>2. \A s \in req'[o] : \E r \in req[o] : s = [r EXCEPT !.unseen = @ + Len(items)]
      BY <3>1
    <3>3. ASSUME NEW s \in req'[o]
          PROVE  s \in Requests /\ Shaped(s)
      <4>1. PICK r \in req[o] : s = [r EXCEPT !.unseen = @ + Len(items)]
        BY <3>2
      <4>2. r \in Requests /\ Shaped(r) /\ Len(items) \in Int
        BY <1>1, <1>7
      <4> QED
        BY <4>1, <4>2, Counted
    <3> QED
      BY <3>2, <3>3
  <2> QED
    BY <2>1, <2>2
<1>9. req' \in [Clients -> SUBSET Requests]
  <2>1. req' = [o \in Clients |-> req'[o]]
    BY <1>2
  <2> QED
    BY <1>8, <2>1
<1>10. TypeOK' /\ db'.changesSeq = db'.invalSeq
  BY <1>2, <1>4, <1>5, <1>9 DEF TypeOK
<1>11. \A i \in DOMAIN items : Made(items[i]) \in minted'[items[i].id]
  BY <1>1, <1>3
<1> QED
  BY <1>3, <1>6, <1>8, <1>10, <1>11

-----------------------------------------------------------------------------
(* The steps of a request keep it what it is. *)

LEMMA ReplacedShaped ==
  ASSUME RequestsShaped, NEW c \in Clients, NEW q \in SUBSET Requests,
         \A r \in q : Shaped(r) /\ \A p \in q : p = r,
         req' = [req EXCEPT ![c] = q]
  PROVE  /\ req' \in [Clients -> SUBSET Requests]
         /\ req'[c] = q /\ \A o \in Clients \ {c} : req'[o] = req[o]
         /\ \A o \in Clients : \A r \in req'[o] :
              Shaped(r) /\ \A p \in req'[o] : p = r
<1>1. req \in [Clients -> SUBSET Requests]
  BY DEF RequestsShaped, TypeOK
<1>2. req'[c] = q /\ \A o \in Clients \ {c} : req'[o] = req[o]
  BY <1>1
<1> QED
  BY <1>1, <1>2 DEF RequestsShaped

\* Validation leaves a request with one more document read, or answered.
LEMMA ValidateShaped ==
  ASSUME RequestsShaped, NEW c \in Clients, NEW r \in req[c], Validate(c, r)
  PROVE  /\ RequestsShaped'
         /\ \A s \in req'[c] :
              LET i == Len(r.seen) + 1
              IN  /\ s.kind = r.kind /\ s.items = r.items /\ s.todo = r.todo
                  /\ s.unseen = r.unseen /\ s.log = r.log
                  /\ s.at = (IF i = Len(r.items) THEN "begin" ELSE r.at)
                  /\ s.seen = Append(r.seen, OldDoc(r.kind, r.items[i]))
         /\ \A o \in Clients \ {c} : req'[o] = req[o]
<1> USE DEF RequestsShaped
<1> DEFINE i    == Len(r.seen) + 1
           next == IF i = Len(r.items) THEN "begin" ELSE r.at
           seen == Append(r.seen, OldDoc(r.kind, r.items[i]))
           good == [r EXCEPT !.seen = seen, !.at = next]
           bad  == [r EXCEPT !.seen = seen, !.at = next, !.denied = r.denied \cup {i}]
<1>1. r \in Requests /\ Shaped(r) /\ r.at = "validate"
  BY DEF TypeOK, Validate
<1>2. /\ Len(r.seen) \in Nat /\ Len(r.items) \in Nat /\ Len(r.items) <= MaxBatch
      /\ Len(r.seen) < Len(r.items) /\ i \in 1..Len(r.items) /\ i \in 1..MaxBatch
      /\ r.kind # "copy"
  BY <1>1, RequestFields, RequestsAssumption DEF Shaped
<1>3. OldDoc(r.kind, r.items[i]) \in Document \cup {NoDoc}
  <2>1. r.items[i] \in Item
    BY <1>1, <1>2, RequestFields
  <2>2. db.docs[r.items[i].id] \in Document \cup {NoDoc}
    BY <2>1, ItemFields DEF TypeOK, Buckets
  <2> QED
    BY <2>2 DEF OldDoc, Live
<1>4. /\ seen \in Seq(Document \cup {NoDoc}) /\ Len(seen) = i
  BY <1>1, <1>3, RequestFields
<1>5. r.denied \cup {i} \in SUBSET (1..MaxBatch)
  BY <1>1, <1>2, RequestFields
<1>6. next \in {"validate", "begin", "commit", "attach"}
  BY <1>1
<1>7. \/ req' = [req EXCEPT ![c] = {good}]
      \/ req' = [req EXCEPT ![c] = {bad}]
      \/ req' = [req EXCEPT ![c] = {}]
  BY <1>1 DEF Validate, Requests
<1> HIDE DEF seen, next
<1>8. ASSUME NEW s \in {good, bad}
      PROVE  /\ s \in Requests
             /\ s.kind = r.kind /\ s.items = r.items /\ s.todo = r.todo
             /\ s.unseen = r.unseen /\ s.log = r.log /\ s.parts = r.parts
             /\ s.at = next /\ s.seen = seen
  BY <1>1, <1>4, <1>5, <1>6 DEF Requests
<1>9. ASSUME NEW s \in {good, bad}
      PROVE  Shaped(s)
  <2>1. next = IF i = Len(r.items) THEN "begin" ELSE "validate"
    BY <1>1 DEF next
  <2>2. next = "validate" => i < Len(r.items)
    BY <1>2, <2>1
  <2>3. next = "begin" => i = Len(r.items)
    BY <2>1
  <2>4. next # "attach"
    BY <2>1
  <2> HIDE DEF good, bad
  <2> QED
    BY <1>1, <1>2, <1>4, <1>8, <2>2, <2>3, <2>4 DEF Shaped
<1> HIDE DEF good, bad
<1>10. PICK q \in {{good}, {bad}, {}} : req' = [req EXCEPT ![c] = q]
  BY <1>7
<1>11. /\ req' \in [Clients -> SUBSET Requests]
       /\ req'[c] = q /\ \A o \in Clients \ {c} : req'[o] = req[o]
       /\ \A o \in Clients : \A s \in req'[o] :
            Shaped(s) /\ \A p \in req'[o] : p = s
  <2> HIDE DEF RequestsShaped
  <2>1. q \in SUBSET Requests /\ \A t \in q : Shaped(t) /\ \A p \in q : t = p
    BY <1>8, <1>9
  <2> QED
    BY <1>10, <2>1, ReplacedShaped
<1>12. RequestsShaped'
  BY <1>11 DEF Validate, TypeOK, MintedOnce
<1> QED
  BY <1>8, <1>10, <1>11, <1>12 DEF next, seen

LEMMA RefusedShaped ==
  ASSUME RequestsShaped, NEW c \in Clients, NEW r, Refused(c, r)
  PROVE  /\ RequestsShaped' /\ req'[c] = {}
         /\ \A o \in Clients \ {c} : req'[o] = req[o]
<1>1. {} \in SUBSET Requests /\ req' = [req EXCEPT ![c] = {}]
  BY DEF Refused
<1>2. /\ req' \in [Clients -> SUBSET Requests]
      /\ req'[c] = {} /\ \A o \in Clients \ {c} : req'[o] = req[o]
      /\ \A o \in Clients : \A s \in req'[o] :
           Shaped(s) /\ \A p \in req'[o] : p = s
  BY <1>1, ReplacedShaped
<1> QED
  BY <1>2 DEF RequestsShaped, Refused, TypeOK, MintedOnce

\* The log that a transaction collects.
LEMMA BeginLog ==
  ASSUME TypeOK, MintedOnce, NEW r \in Requests, Shaped(r),
         NEW stored, stored = Stored(r)
  PROVE  /\ stored \subseteq DOMAIN r.items
         /\ \A i \in stored :
              LET op == WriteOf(r.kind, r.items[i])
              IN  op.id = r.items[i].id /\ Writes(db, op, Made(r.items[i]))
         /\ LogOf(Logged(r, stored), r, stored, Len(r.items))
<1>1. /\ Len(r.items) \in Nat /\ DOMAIN r.items = 1..Len(r.items)
      /\ \A i \in DOMAIN r.items : r.items[i] \in Item
  BY RequestFields
<1>2. stored \subseteq DOMAIN r.items
  BY DEF Stored
<1>3. ASSUME NEW i \in stored
      PROVE  LET op == WriteOf(r.kind, r.items[i])
             IN  /\ op.id = r.items[i].id /\ op \in OpLog
                 /\ Writes(db, op, Made(r.items[i]))
  <2>1. Stores(r.kind, r.items[i])
    BY DEF Stored
  <2>2. /\ r.items[i] \in Item
        /\ NewRev(r.items[i].base, r.items[i].hash) \in Rev
        /\ r.kind = "delete" => r.items[i].deleted
    BY <1>1, <1>2 DEF Shaped
  <2> QED
    BY <2>1, <2>2, WriteOfItem
<1>4. LogOf(Logged(r, stored), r, stored, Len(r.items))
  BY <1>1, <1>2, <1>3, LoggedWrites
<1> QED
  BY <1>2, <1>3, <1>4

LEMMA BeginShaped ==
  ASSUME RequestsShaped, NEW c \in Clients, NEW r \in req[c], Begin(c, r)
  PROVE  /\ RequestsShaped'
         /\ \A s \in req'[c] :
              /\ s.kind = r.kind /\ s.items = r.items /\ s.todo = r.todo
              /\ s.unseen = r.unseen /\ s.at = "commit" /\ s.seen = <<>>
              /\ s.log = Logged(r, Stored(r)) /\ s.log # <<>>
         /\ \A o \in Clients \ {c} : req'[o] = req[o]
<1> USE DEF RequestsShaped
<1> DEFINE log == Logged(r, Stored(r))
           s == [r EXCEPT !.at = "commit", !.seen = <<>>, !.denied = {}, !.log = log]
<1>1. r \in Requests /\ Shaped(r)
  BY DEF TypeOK
<1>2. req' = [req EXCEPT ![c] = {s}] /\ Stored(r) # {}
  BY DEF Begin
<1>3. LogOf(log, r, Stored(r), Len(r.items)) /\ Stored(r) \subseteq DOMAIN r.items
  BY <1>1, BeginLog
<1>4. log \in Seq(OpLog)
  BY <1>3 DEF LogOf
<1>5. log # <<>>
  BY <1>1, <1>2, <1>3, RequestFields DEF LogOf
<1> HIDE DEF log
<1>6. /\ s \in Requests
      /\ s.kind = r.kind /\ s.items = r.items /\ s.todo = r.todo
      /\ s.unseen = r.unseen /\ s.at = "commit" /\ s.seen = <<>>
      /\ s.log = log /\ s.parts = r.parts
  <2>1. /\ <<>> \in Seq(Document \cup {NoDoc}) /\ {} \in SUBSET (1..MaxBatch)
        /\ "commit" \in {"validate", "begin", "commit", "attach"}
    OBVIOUS
  <2> QED
    BY <1>1, <1>4, <2>1 DEF Requests
<1> HIDE DEF s
<1>7. Shaped(s)
  BY <1>1, <1>6 DEF Shaped
<1>8. /\ req' \in [Clients -> SUBSET Requests]
      /\ req'[c] = {s} /\ \A o \in Clients \ {c} : req'[o] = req[o]
      /\ \A o \in Clients : \A p \in req'[o] :
           Shaped(p) /\ \A t \in req'[o] : t = p
  <2> HIDE DEF RequestsShaped
  <2> DEFINE q == {s}
  <2>1. q \in SUBSET Requests /\ \A t \in q : Shaped(t) /\ \A p \in q : t = p
    BY <1>6, <1>7
  <2>2. req' = [req EXCEPT ![c] = q]
    BY <1>2
  <2> HIDE DEF q
  <2>3. /\ req' \in [Clients -> SUBSET Requests]
        /\ req'[c] = q /\ \A o \in Clients \ {c} : req'[o] = req[o]
        /\ \A o \in Clients : \A p \in req'[o] :
             Shaped(p) /\ \A t \in req'[o] : t = p
    BY <2>1, <2>2, ReplacedShaped
  <2> QED
    BY <2>3 DEF q
<1>9. RequestsShaped'
  <2>1. serial' \in BOOLEAN
    BY DEF Begin, TypeOK
  <2> QED
    BY <1>8, <2>1 DEF Begin, TypeOK, MintedOnce
<1> QED
  BY <1>5, <1>6, <1>8, <1>9 DEF log

LEMMA AttachShaped ==
  ASSUME RequestsShaped, NEW c \in Clients, NEW r \in req[c], Attach(c, r)
  PROVE  /\ RequestsShaped'
         /\ \A d \in Docs : minted[d] \subseteq minted'[d]
         /\ \A s \in req'[c] :
              /\ s.kind = r.kind /\ s.items = r.items /\ s.todo = r.todo
              /\ s.unseen = r.unseen /\ s.at = "commit" /\ s.seen = r.seen
              /\ LET d   == r.items[1].id
                     old == db.docs[d]
                 IN  \E m \in minted'[d] :
                       /\ m.rev.gen = old.rev.gen + 1 /\ m.deleted = old.deleted
                       /\ s.log = <<PutDocument(db, d, m.rev, m.deleted)>>
         /\ \A o \in Clients \ {c} : req'[o] = req[o]
<1> DEFINE d   == r.items[1].id
           old == db.docs[d]
           item(hash) == [id |-> d, base |-> old.rev, hash |-> hash,
                          deleted |-> old.deleted]
<1>1. /\ r \in Requests /\ Shaped(r) /\ TypeOK /\ MintedOnce /\ r.at = "attach"
      /\ r.parts = 1
  BY DEF RequestsShaped, TypeOK, Attach, Shaped
<1>2. /\ d \in Docs /\ db \in Buckets /\ old \in Document \cup {NoDoc}
  <2>1. Len(r.items) >= 1 /\ 1 \in DOMAIN r.items
    BY <1>1, RequestFields DEF Shaped
  <2>2. d \in Docs
    BY <1>1, <2>1, RequestFields, ItemFields
  <2> QED
    BY <1>1, <2>2 DEF TypeOK, Buckets
<1>3. old.rev \in Rev \cup {NoRev} /\ old.deleted \in BOOLEAN /\ old.rev.gen \in Nat
  BY <1>2, DocIsNotNil, NilDocument, RevNumbers
<1>4. PICK hash \in Hashes :
        LET made == Made(item(hash))
        IN  /\ Consistent(d, made)
            /\ minted' = [minted EXCEPT ![d] = @ \cup {made}]
            /\ req' = [req EXCEPT ![c] =
                 {[r EXCEPT !.at = "commit", !.parts = @ - 1,
                            !.log = <<PutDocument(db, d, made.rev, old.deleted)>>]}]
  BY DEF Attach
<1> DEFINE it   == item(hash)
           made == Made(it)
           log  == <<PutDocument(db, d, made.rev, old.deleted)>>
           s    == [r EXCEPT !.at = "commit", !.parts = @ - 1, !.log = log]
<1>5. /\ it \in Item /\ it.id = d /\ it.base = old.rev /\ it.deleted = old.deleted
  BY <1>2, <1>3 DEF Item
<1>6. made.rev = NewRev(it.base, it.hash) /\ made.rev \in Rev
  BY <1>4 DEF Made, Consistent
<1> HIDE DEF it
<1>7. /\ made \in Document /\ OwnHistory(made) /\ made.deleted = old.deleted
      /\ made.rev.gen = old.rev.gen + 1
  BY <1>1, <1>5, <1>6, MadeIsDocument, ItemFields
<1>8. /\ Consistent(d, made) /\ minted' = [minted EXCEPT ![d] = @ \cup {made}]
      /\ req' = [req EXCEPT ![c] = {s}]
  BY <1>4 DEF it
<1> HIDE DEF made
<1>9. log \in Seq(OpLog)
  <2>1. PutDocument(db, d, made.rev, old.deleted) \in OpLog
    BY <1>2, <1>3, <1>6, PutDocumentLog
  <2> QED
    BY <2>1
<1>10. log = <<PutDocument(db, d, made.rev, made.deleted)>>
  BY <1>7
<1> HIDE DEF log
<1>11. /\ s \in Requests
       /\ s.kind = r.kind /\ s.items = r.items /\ s.todo = r.todo
       /\ s.unseen = r.unseen /\ s.at = "commit" /\ s.seen = r.seen
       /\ s.log = log /\ s.parts = 0
  <2>1. r.parts - 1 = 0
    BY <1>1
  <2>2. "commit" \in {"validate", "begin", "commit", "attach"}
    OBVIOUS
  <2> QED
    BY <1>1, <1>9, <2>1, <2>2 DEF Requests
<1> HIDE DEF s
<1>12. Shaped(s)
  BY <1>1, <1>11 DEF Shaped
<1>13. /\ req' \in [Clients -> SUBSET Requests]
       /\ req'[c] = {s} /\ \A o \in Clients \ {c} : req'[o] = req[o]
       /\ \A o \in Clients : \A p \in req'[o] :
            Shaped(p) /\ \A t \in req'[o] : t = p
  <2> DEFINE q == {s}
  <2>1. q \in SUBSET Requests /\ \A t \in q : Shaped(t) /\ \A p \in q : t = p
    BY <1>11, <1>12
  <2>2. req' = [req EXCEPT ![c] = q]
    BY <1>8
  <2> HIDE DEF q
  <2>3. /\ req' \in [Clients -> SUBSET Requests]
        /\ req'[c] = q /\ \A o \in Clients \ {c} : req'[o] = req[o]
        /\ \A o \in Clients : \A p \in req'[o] :
             Shaped(p) /\ \A t \in req'[o] : t = p
    BY <2>1, <2>2, ReplacedShaped
  <2> QED
    BY <2>3 DEF q
<1>14. minted \in [Docs -> SUBSET Document]
  BY <1>1 DEF TypeOK
<1>15. /\ minted' \in [Docs -> SUBSET Document]
       /\ \A e \in Docs : minted'[e] = IF e = d THEN minted[d] \cup {made} ELSE minted[e]
  BY <1>7, <1>8, <1>14
<1>16. MintedOnce'
  BY <1>1, <1>2, <1>7, <1>8, <1>15 DEF MintedOnce, Consistent
<1>17. TypeOK' /\ (db.changesSeq = db.invalSeq)'
  <2>1. serial' \in BOOLEAN
    BY <1>1 DEF Attach, TypeOK
  <2> QED
    BY <1>1, <1>13, <1>15, <2>1 DEF Attach, RequestsShaped, TypeOK
<1>18. RequestsShaped'
  BY <1>13, <1>16, <1>17 DEF RequestsShaped
<1>19. made \in minted'[d]
  BY <1>2, <1>15
<1> QED
  BY <1>7, <1>10, <1>11, <1>13, <1>15, <1>18, <1>19

LEMMA CommitShaped ==
  ASSUME RequestsShaped, NEW c \in Clients, NEW r \in req[c], Commit(c, r)
  PROVE  /\ RequestsShaped'
         /\ \A d \in Docs : acked[d] \subseteq acked'[d]
         /\ \A d \in Docs : \A a \in acked'[d] : a \in acked[d] \/
              \E k \in DOMAIN r.log : /\ r.log[k].id = d
                                      /\ \E l \in r.log[k].puts : l.rev = a
         /\ \A s \in req'[c] :
              /\ s.kind = r.kind /\ s.items = r.items /\ s.todo = 0
              /\ s.unseen = r.unseen /\ s.at = "attach" /\ s.seen = r.seen
              /\ r.parts = 1
         /\ \A o \in Clients \ {c} : req'[o] = req[o]
<1> DEFINE s == [r EXCEPT !.at = "attach", !.log = <<>>, !.todo = 0]
           q == IF r.parts > 0 THEN {s} ELSE {}
           written(d) == UNION {{l.rev : l \in op.puts} :
                                  op \in {op \in ToSet(r.log) : op.id = d}}
<1>1. /\ r \in Requests /\ Shaped(r) /\ TypeOK /\ MintedOnce /\ db \in Buckets
      /\ db.changesSeq = db.invalSeq
  BY DEF RequestsShaped, TypeOK
<1>2. /\ db' = Applied(db, r.log) /\ req' = [req EXCEPT ![c] = q]
      /\ db.changesSeq + Len(r.log) <= MaxSeq
      /\ acked' = [d \in Docs |-> acked[d] \cup written(d)]
      /\ spare' = spare /\ minted' = minted /\ serial' = serial
  BY DEF Commit
<1>3. /\ r.log \in Seq(OpLog) /\ DOMAIN r.log = 1..Len(r.log)
      /\ r.parts \in {0, 1}
  BY <1>1, RequestFields
<1>4. db' \in Buckets /\ db'.changesSeq = db'.invalSeq
  BY <1>1, <1>2, <1>3, AppliedTyped
<1>5. \A op : op \in ToSet(r.log) <=> \E k \in DOMAIN r.log : r.log[k] = op
  BY <1>3, SeqToSet
<1>6. \A d \in Docs : \A a : a \in written(d) <=>
        \E k \in DOMAIN r.log : /\ r.log[k].id = d
                                /\ \E l \in r.log[k].puts : l.rev = a
  BY <1>5
<1>7. \A k \in DOMAIN r.log : \A l \in r.log[k].puts : l.rev \in Rev
  <2> SUFFICES ASSUME NEW k \in DOMAIN r.log, NEW l \in r.log[k].puts
               PROVE  l.rev \in Rev
    OBVIOUS
  <2>1. r.log[k] \in OpLog
    BY <1>3
  <2>2. l \in Document
    BY <2>1 DEF OpLog
  <2> QED
    BY <2>2, DocIsNotNil
<1>8. \A d \in Docs : written(d) \subseteq Rev
  BY <1>6, <1>7
<1> HIDE DEF written
<1>9. /\ acked' \in [Docs -> SUBSET Rev]
      /\ \A d \in Docs : acked'[d] = acked[d] \cup written(d)
  BY <1>1, <1>2, <1>8 DEF TypeOK
<1>10. /\ s \in Requests
       /\ s.kind = r.kind /\ s.items = r.items /\ s.todo = 0
       /\ s.unseen = r.unseen /\ s.at = "attach" /\ s.seen = r.seen
       /\ s.parts = r.parts
  <2>1. /\ <<>> \in Seq(OpLog) /\ 0 \in 0..MaxBatch
        /\ "attach" \in {"validate", "begin", "commit", "attach"}
    BY RequestsAssumption
  <2> QED
    BY <1>1, <2>1 DEF Requests
<1> HIDE DEF s
<1>11. r.parts > 0 => Shaped(s) /\ r.parts = 1
  BY <1>1, <1>3, <1>10 DEF Shaped
<1>12. q \in SUBSET Requests /\ \A t \in q : Shaped(t) /\ \A p \in q : t = p
  BY <1>10, <1>11
<1>13. \A t \in q : t = s /\ r.parts = 1
  BY <1>11
<1> HIDE DEF q
<1>14. /\ req' \in [Clients -> SUBSET Requests]
       /\ req'[c] = q /\ \A o \in Clients \ {c} : req'[o] = req[o]
       /\ \A o \in Clients : \A p \in req'[o] :
            Shaped(p) /\ \A t \in req'[o] : t = p
  BY <1>2, <1>12, ReplacedShaped
<1>15. RequestsShaped'
  BY <1>1, <1>2, <1>4, <1>9, <1>14 DEF RequestsShaped, TypeOK, MintedOnce
<1> QED
  BY <1>6, <1>9, <1>10, <1>13, <1>14, <1>15

LEMMA InitShaped ==
  ASSUME Init
  PROVE  RequestsShaped
<1>1. EmptyBuckets \in Buckets /\ EmptyBuckets.changesSeq = EmptyBuckets.invalSeq
  BY DocTxAssumption DEF EmptyBuckets, Buckets
<1>2. TypeOK
  BY <1>1, RequestsAssumption DEF Init, TypeOK
<1>3. MintedOnce
  BY DEF Init, MintedOnce
<1>4. \A c \in Clients : req[c] = {}
  BY DEF Init
<1> QED
  BY <1>1, <1>2, <1>3, <1>4 DEF RequestsShaped, Init

\* The shape is kept by every step, and what was made stays made.
LEMMA NextShaped ==
  ASSUME RequestsShaped, [Next]_vars
  PROVE  RequestsShaped'
<1>1. CASE Arrives
  <2>1. TypeOK
    BY DEF RequestsShaped
  <2> QED
    BY <1>1, <2>1, ArrivesAdmissible, SubmitShaped
<1>2. CASE Proceeds
  <2>1. PICK c \in Clients : \E r \in req[c] :
          \/ Validate(c, r) \/ Begin(c, r) \/ Refused(c, r)
          \/ Commit(c, r) \/ Attach(c, r)
    BY <1>2 DEF Proceeds
  <2>2. PICK r \in req[c] :
          \/ Validate(c, r) \/ Begin(c, r) \/ Refused(c, r)
          \/ Commit(c, r) \/ Attach(c, r)
    BY <2>1
  <2> QED
    BY <2>2, ValidateShaped, BeginShaped, RefusedShaped, CommitShaped, AttachShaped
<1>3. CASE UNCHANGED vars
  BY <1>3 DEF vars, RequestsShaped, TypeOK, MintedOnce
<1> QED
  BY <1>1, <1>2, <1>3 DEF Next

-----------------------------------------------------------------------------
(* What holds when transactions do not overlap. *)

\* What a request names and makes stays known.
LEMMA KnownStays ==
  ASSUME TypeOK, WinnerOfAcked, TypeOK', MintedOnce',
         \A d \in Docs : /\ minted[d] \subseteq minted'[d]
                         /\ acked[d] \subseteq acked'[d],
         NEW r \in Requests, ItemsKnown(r)
  PROVE  ItemsKnown(r)'
<1> SUFFICES ASSUME NEW i \in DOMAIN r.items
             PROVE  LET it == r.items[i]
                    IN  /\ it.base \in acked'[it.id] \cup {NoRev}
                        /\ Made(it)' \in minted'[it.id]
  BY DEF ItemsKnown
<1> DEFINE it == r.items[i]
<1>1. it \in Item /\ it.id \in Docs
  BY RequestFields, ItemFields
<1>2. it.base \in acked[it.id] \cup {NoRev} /\ Made(it) \in minted[it.id]
  BY DEF ItemsKnown
<1> HIDE DEF it
<1>3. it.base = NoRev \/ \E m \in minted[it.id] : m.rev = it.base
  BY <1>1, <1>2 DEF WinnerOfAcked
<1>4. Made(it)' = Made(it)
  <2>1. /\ minted'[it.id] \subseteq Document
        /\ minted[it.id] \subseteq minted'[it.id]
        /\ \A m, n \in minted'[it.id] : m.rev = n.rev => m = n
    BY <1>1 DEF TypeOK, MintedOnce
  <2> QED
    BY <1>1, <1>3, <2>1, MadeStays
<1> QED
  BY <1>1, <1>2, <1>4 DEF it

\* A step that stores nothing.
QuietStep ==
  /\ db' = db /\ acked' = acked
  /\ \A d \in Docs : minted[d] \subseteq minted'[d]

LEMMA QuietKeeps ==
  ASSUME RequestsShaped, RequestsShaped', RequestsSound, QuietStep
  PROVE  /\ BucketsSound(db)' /\ WinnerOfAcked' /\ LiveDocs' = LiveDocs
         /\ \A c \in Clients : \A r \in req[c] :
              ItemsKnown(r)' /\ SeenIsCurrent(r)' /\ StepsInOrder(r)'
<1>1. /\ db' = db /\ acked' = acked
      /\ \A d \in Docs : minted[d] \subseteq minted'[d]
  BY DEF QuietStep
<1>2. BucketsSound(db)'
  <2>1. SequencesApart(db) /\ LeavesAsMade(db) /\ \A d \in Docs : SoundAt(db, d)
    BY DEF RequestsSound, BucketsSound
  <2>2. LeavesAsMade(db)'
    BY <1>1, <2>1 DEF LeavesAsMade
  <2> QED
    BY <1>1, <2>1, <2>2 DEF BucketsSound
<1>3. WinnerOfAcked'
  BY <1>1 DEF RequestsSound, WinnerOfAcked
<1>4. LiveDocs' = LiveDocs
  BY <1>1 DEF LiveDocs
<1>5. ASSUME NEW c \in Clients, NEW r \in req[c]
      PROVE  ItemsKnown(r)' /\ SeenIsCurrent(r)' /\ StepsInOrder(r)'
  <2>1. /\ r \in Requests
        /\ ItemsKnown(r) /\ SeenIsCurrent(r) /\ StepsInOrder(r)
    BY DEF RequestsShaped, TypeOK, RequestsSound
  <2>2. ItemsKnown(r)'
    BY <1>1, <2>1, KnownStays DEF RequestsShaped, RequestsSound
  <2>3. SeenIsCurrent(r)'
    BY <1>1, <2>1 DEF SeenIsCurrent
  <2>4. LogIsCurrent(r) => LogIsCurrent(r)'
    <3>1. \A k \in DOMAIN r.log : r.log[k].id \in Docs
      BY <2>1, RequestFields
    <3> QED
      BY <1>1, <3>1 DEF LogIsCurrent
  <2>5. LogOfAttachment(r) => LogOfAttachment(r)'
    BY <1>1 DEF LogOfAttachment
  <2>6. StepsInOrder(r)'
    BY <1>1, <2>1, <2>4, <2>5 DEF StepsInOrder
  <2> QED
    BY <2>2, <2>3, <2>6
<1> QED
  BY <1>2, <1>3, <1>4, <1>5

\* What a request's fields say carries over to a request that has the same.
LEMMA SameRequest ==
  ASSUME NEW r, NEW s, s.kind = r.kind, s.items = r.items, s.seen = r.seen,
         s.at = r.at, s.todo = r.todo, s.log = r.log
  PROVE  /\ ItemsKnown(r)' => ItemsKnown(s)'
         /\ SeenIsCurrent(r)' => SeenIsCurrent(s)'
         /\ StepsInOrder(r)' => StepsInOrder(s)'
<1>1. ItemsKnown(r)' => ItemsKnown(s)'
  BY DEF ItemsKnown
<1>2. SeenIsCurrent(r)' => SeenIsCurrent(s)'
  BY DEF SeenIsCurrent
<1>3. LogIsCurrent(r)' => LogIsCurrent(s)'
  BY DEF LogIsCurrent
<1>4. LogOfAttachment(r)' => LogOfAttachment(s)'
  BY DEF LogOfAttachment
<1>5. StepsInOrder(r)' => StepsInOrder(s)'
  BY <1>3, <1>4 DEF StepsInOrder
<1> QED
  BY <1>1, <1>2, <1>5

LEMMA UnstoredType ==
  /\ Unstored = UnstoredOf(req) /\ Unstored' = UnstoredOf(req')
  /\ Cardinality(Unstored) \in Nat /\ Cardinality(Unstored') \in Nat
<1>1. Unstored = UnstoredOf(req) /\ Unstored' = UnstoredOf(req')
  BY DEF Unstored, UnstoredOf
<1> QED
  BY <1>1, UnstoredFinite

LEMMA LiveType ==
  ASSUME RequestsShaped, BucketsSound(db)
  PROVE  /\ LiveDocs = LiveIn(db) /\ Cardinality(LiveDocs) \in Nat
         /\ DocCount(db) = Cardinality(LiveDocs)
<1>1. LiveDocs = LiveIn(db)
  BY DEF LiveDocs, LiveIn
<1>2. db \in Buckets
  BY DEF RequestsShaped, TypeOK
<1> QED
  BY <1>1, <1>2, DocCountIsLive

LEMMA SubmitSound ==
  ASSUME RequestsShaped, RequestsShaped', RequestsSound,
         NEW c \in Clients, req[c] = {},
         NEW kind, NEW items, NEW parts, Admissible(kind, items, parts),
         Submit(c, kind, items, parts)
  PROVE  RequestsSound'
<1> DEFINE n     == Len(items)
           fresh == Opened(kind, items, parts)
<1>1. TypeOK /\ MintedOnce
  BY DEF RequestsShaped
<1>2. /\ n \in Nat /\ n \in 0..MaxBatch /\ DOMAIN items = 1..n
      /\ \A i \in DOMAIN items : items[i] \in Item
  <2>1. /\ Len(items) \in Nat /\ DOMAIN items = 1..Len(items)
        /\ \A i \in DOMAIN items : items[i] \in Item
    BY <1>1, AdmissibleItems
  <2>2. Len(items) <= MaxBatch
    BY DEF Admissible
  <2> QED
    BY <2>1, <2>2, RequestsAssumption
<1> HIDE DEF n
<1>3. /\ db' = db /\ acked' = acked
      /\ req' = [o \in Clients |->
           IF o = c THEN {fresh}
           ELSE {[r EXCEPT !.unseen = @ + n] : r \in req[o]}]
      /\ ~LimitExceeded(kind, items)
  BY DEF Submit, Opened, n
<1>4. /\ \A d \in Docs : minted[d] \subseteq minted'[d]
      /\ \A i \in DOMAIN items : Made(items[i]) \in minted'[items[i].id]
  BY SubmitShaped
<1>5. QuietStep
  BY <1>3, <1>4 DEF QuietStep
<1>6. /\ BucketsSound(db)' /\ WinnerOfAcked' /\ LiveDocs' = LiveDocs
      /\ \A o \in Clients : \A r \in req[o] :
           ItemsKnown(r)' /\ SeenIsCurrent(r)' /\ StepsInOrder(r)'
  BY <1>5, QuietKeeps
<1>7. /\ fresh.kind = kind /\ fresh.items = items /\ fresh.seen = <<>>
      /\ fresh.log = <<>> /\ fresh.todo = n
      /\ fresh.unseen = n - Announced(kind, items) + Cardinality(Unstored)
      /\ fresh.at = IF kind = "copy" THEN "begin" ELSE "validate"
  BY DEF Opened, n
<1>8. req'[c] = {fresh}
  BY <1>3
<1> HIDE DEF fresh
<1>9. ASSUME NEW o \in Clients \ {c}
      PROVE  /\ \A s \in req'[o] : \E r \in req[o] :
                  /\ s.kind = r.kind /\ s.items = r.items /\ s.seen = r.seen
                  /\ s.at = r.at /\ s.todo = r.todo /\ s.log = r.log
                  /\ s.unseen = r.unseen + n
             /\ \A r \in req[o] : \E s \in req'[o] : s.todo = r.todo
  <2>1. req'[o] = {[r EXCEPT !.unseen = @ + n] : r \in req[o]}
    BY <1>3
  <2>2. \A r \in req[o] : r \in Requests
    BY <1>1 DEF TypeOK
  <2> DEFINE counted(r) == [r EXCEPT !.unseen = @ + n]
  <2>3. ASSUME NEW r \in req[o], NEW s, s = counted(r)
        PROVE  /\ s.kind = r.kind /\ s.items = r.items /\ s.seen = r.seen
               /\ s.at = r.at /\ s.todo = r.todo /\ s.log = r.log
               /\ s.unseen = r.unseen + n
    <3>1. n \in Int
      BY <1>2
    <3> QED
      BY <2>2, <2>3, <3>1, Counted
  <2>4. req'[o] = {counted(r) : r \in req[o]}
    BY <2>1
  <2> HIDE DEF counted
  <2>5. \A s \in req'[o] : \E r \in req[o] : s = counted(r)
    BY <2>4
  <2>6. \A r \in req[o] : counted(r) \in req'[o] /\ counted(r).todo = r.todo
    BY <2>3, <2>4
  <2> QED
    BY <2>3, <2>5, <2>6
<1>10. Cardinality(Unstored') = Cardinality(Unstored) + n
  <2>1. Cardinality(UnstoredOf(req')) = Cardinality(UnstoredOf(req)) + n
    <3>1. /\ \A s \in req[c] : s.todo = 0
          /\ \E s \in req'[c] : TRUE
          /\ \A s \in req'[c] : s.todo = n
      BY <1>7, <1>8
    <3>2. \A o \in Clients \ {c} :
            /\ \A r \in req'[o] : \E s \in req[o] : s.todo = r.todo
            /\ \A r \in req[o] : \E s \in req'[o] : s.todo = r.todo
      BY <1>9
    <3>3. DifferBy(req, req', c, n)
      BY <3>1, <3>2 DEF DifferBy
    <3> QED
      BY <1>2, <3>3, UnstoredMore
  <2> QED
    BY <2>1, UnstoredType
<1>11. OneAtATime'
  <2>1. fresh.at # "commit"
    BY <1>7
  <2>2. \A o \in Clients : \A s \in req'[o] :
          s.at = "commit" => \E r \in req[o] : r.at = "commit"
    BY <1>8, <1>9, <2>1
  <2>3. OneAtATime
    BY DEF RequestsSound
  <2> QED
    BY <2>2, <2>3 DEF OneAtATime
<1>12. /\ Cardinality(Unstored) \in Nat /\ Cardinality(LiveDocs) \in Nat
       /\ DocCount(db) = Cardinality(LiveDocs) /\ Announced(kind, items) \in Nat
  BY <1>2, UnstoredType, LiveType, AnnouncedType DEF RequestsSound, n
<1>13. ASSUME NEW o \in Clients, NEW s \in req'[o]
       PROVE  (ItemsKnown(s) /\ SeenIsCurrent(s) /\ StepsInOrder(s)
                 /\ LimitInReach(s))'
  <2>1. CASE o = c
    <3>1. s = fresh
      BY <1>8, <2>1
    <3>2. ItemsKnown(s)'
      <4> SUFFICES ASSUME NEW i \in DOMAIN items
                   PROVE  /\ items[i].base \in acked'[items[i].id] \cup {NoRev}
                          /\ Made(items[i])' \in minted'[items[i].id]
        BY <1>7, <3>1 DEF ItemsKnown
      <4> DEFINE it == items[i]
      <4>1. it \in Item /\ it.id \in Docs /\ it.base \in acked[it.id] \cup {NoRev}
        BY <1>1, AdmissibleItems
      <4> HIDE DEF it
      <4>2. it.base = NoRev \/ \E m \in minted[it.id] : m.rev = it.base
        BY <4>1 DEF RequestsSound, WinnerOfAcked
      <4>3. /\ minted'[it.id] \subseteq Document
            /\ minted[it.id] \subseteq minted'[it.id]
            /\ \A m, p \in minted'[it.id] : m.rev = p.rev => m = p
        BY <1>4, <4>1 DEF RequestsShaped, TypeOK, MintedOnce
      <4>4. Made(it)' = Made(it)
        BY <1>1, <4>1, <4>2, <4>3, MadeStays
      <4> QED
        BY <1>3, <1>4, <4>1, <4>4 DEF it
    <3>3. SeenIsCurrent(s)'
      BY <1>2, <1>7, <3>1 DEF SeenIsCurrent, n
    <3>4. StepsInOrder(s)'
      BY <1>7, <3>1 DEF StepsInOrder, n
    <3>5. LimitInReach(s)'
      <4>1. Limited(kind, items) =>
              Cardinality(LiveDocs) + Announced(kind, items) <= MaxDocs
        BY <1>3, <1>12, RequestsAssumption DEF LimitExceeded
      <4>2. Limited(kind, items) =>
              Cardinality(LiveDocs') + Cardinality(Unstored') <= MaxDocs + s.unseen
        BY <1>2, <1>6, <1>7, <1>10, <1>12, <3>1, <4>1, RequestsAssumption
      <4> QED
        BY <1>7, <3>1, <4>2 DEF LimitInReach
    <3> QED
      BY <3>2, <3>3, <3>4, <3>5
  <2>2. CASE o # c
    <3>1. PICK r \in req[o] :
            /\ s.kind = r.kind /\ s.items = r.items /\ s.seen = r.seen
            /\ s.at = r.at /\ s.todo = r.todo /\ s.log = r.log
            /\ s.unseen = r.unseen + n
      BY <1>9, <2>2
    <3>2. ItemsKnown(s)' /\ SeenIsCurrent(s)' /\ StepsInOrder(s)'
      BY <1>6, <3>1, SameRequest
    <3>3. r \in Requests /\ LimitInReach(r)
      BY <1>1 DEF TypeOK, RequestsSound
    <3>4. LimitInReach(s)'
      <4>1. r.unseen \in Int
        BY <3>3, RequestFields
      <4> QED
        BY <1>2, <1>6, <1>10, <1>12, <3>1, <3>3, <4>1, RequestsAssumption
           DEF LimitInReach
    <3> QED
      BY <3>2, <3>4
  <2> QED
    BY <2>1, <2>2
<1> QED
  BY <1>6, <1>11, <1>13 DEF RequestsSound

\* A step of c that stores nothing, and leaves c what it had to store or less.
LEMMA QuietSound ==
  ASSUME RequestsShaped, RequestsShaped', RequestsSound, QuietStep,
         NEW c \in Clients, NEW r \in req[c],
         \A o \in Clients \ {c} : req'[o] = req[o],
         \A s \in req'[c] :
           /\ s.kind = r.kind /\ s.items = r.items
           /\ s.todo = r.todo /\ s.unseen = r.unseen
           /\ SeenIsCurrent(s)' /\ StepsInOrder(s)'
           /\ s.at = "commit" =>
                \A o \in Clients \ {c} : \A p \in req[o] : p.at # "commit"
  PROVE  RequestsSound'
<1>1. /\ BucketsSound(db)' /\ WinnerOfAcked' /\ LiveDocs' = LiveDocs
      /\ \A o \in Clients : \A p \in req[o] :
           ItemsKnown(p)' /\ SeenIsCurrent(p)' /\ StepsInOrder(p)'
  BY QuietKeeps
<1>2. \A o \in Clients : \A p \in req[o] : p \in Requests
  BY DEF RequestsShaped, TypeOK
<1>3. Cardinality(UnstoredOf(req')) <= Cardinality(UnstoredOf(req))
  <2>1. \A o \in Clients : \A p \in req'[o] :
          p.todo \in Nat /\ \E s \in req[o] : s.todo \in Nat /\ p.todo <= s.todo
    <3> SUFFICES ASSUME NEW o \in Clients, NEW p \in req'[o]
                 PROVE  \E s \in req[o] : s.todo \in Nat /\ p.todo = s.todo
      OBVIOUS
    <3>1. CASE o = c
      BY <1>2, <3>1, RequestFields
    <3>2. CASE o # c
      BY <1>2, <3>2, RequestFields
    <3> QED
      BY <3>1, <3>2
  <2> QED
    BY <2>1, UnstoredFewer
<1>4. /\ Cardinality(Unstored') <= Cardinality(Unstored)
      /\ Cardinality(Unstored') \in Nat /\ Cardinality(Unstored) \in Nat
      /\ Cardinality(LiveDocs) \in Nat
  BY <1>3, UnstoredType, LiveType DEF RequestsSound
<1>5. OneAtATime'
  <2>1. OneAtATime
    BY DEF RequestsSound
  <2>2. SUFFICES ASSUME NEW a \in Clients, NEW o \in Clients,
                        NEW p \in req'[a], NEW s \in req'[o],
                        p.at = "commit", s.at = "commit", a # o
                 PROVE  FALSE
    BY DEF OneAtATime
  <2>3. CASE a = c
    BY <2>2, <2>3
  <2>4. CASE o = c
    BY <2>2, <2>4
  <2>5. CASE a # c /\ o # c
    BY <2>1, <2>2, <2>5 DEF OneAtATime
  <2> QED
    BY <2>3, <2>4, <2>5
<1>6. ASSUME NEW o \in Clients, NEW s \in req'[o]
      PROVE  (ItemsKnown(s) /\ SeenIsCurrent(s) /\ StepsInOrder(s)
                /\ LimitInReach(s))'
  <2>1. PICK p \in req[o] :
          /\ s.kind = p.kind /\ s.items = p.items /\ s.unseen = p.unseen
          /\ o # c => s = p
    BY <1>6
  <2>2. ItemsKnown(s)'
    <3>1. ItemsKnown(p)'
      BY <1>1
    <3> QED
      BY <2>1, <3>1 DEF ItemsKnown
  <2>3. SeenIsCurrent(s)' /\ StepsInOrder(s)'
    BY <1>1, <1>6, <2>1
  <2>4. LimitInReach(s)'
    <3>1. LimitInReach(p) /\ p.unseen \in Int
      BY <1>2, RequestFields DEF RequestsSound
    <3>2. Limited(p.kind, p.items) =>
            Cardinality(LiveDocs') + Cardinality(Unstored') <= MaxDocs + p.unseen
      BY <1>1, <1>4, <3>1, RequestsAssumption DEF LimitInReach
    <3> QED
      BY <2>1, <3>2 DEF LimitInReach
  <2> QED
    BY <2>2, <2>3, <2>4
<1> QED
  BY <1>1, <1>5, <1>6 DEF RequestsSound

LEMMA ValidateSound ==
  ASSUME RequestsShaped, RequestsShaped', RequestsSound,
         NEW c \in Clients, NEW r \in req[c], Validate(c, r)
  PROVE  RequestsSound'
<1> DEFINE i  == Len(r.seen) + 1
           it == r.items[i]
           read == OldDoc(r.kind, it)
<1>1. /\ r \in Requests /\ Shaped(r) /\ r.at = "validate" /\ db \in Buckets
      /\ SeenIsCurrent(r) /\ StepsInOrder(r)
  BY DEF RequestsShaped, TypeOK, Validate, RequestsSound
<1>2. /\ \A s \in req'[c] :
           /\ s.kind = r.kind /\ s.items = r.items /\ s.todo = r.todo
           /\ s.unseen = r.unseen /\ s.log = r.log
           /\ s.at = (IF i = Len(r.items) THEN "begin" ELSE r.at)
           /\ s.seen = Append(r.seen, read)
      /\ \A o \in Clients \ {c} : req'[o] = req[o]
  BY ValidateShaped
<1>3. QuietStep
  BY DEF Validate, QuietStep
<1>4. /\ Len(r.seen) \in Nat /\ Len(r.items) \in Nat /\ i <= Len(r.items)
      /\ i \in DOMAIN r.items /\ it \in Item /\ it.id \in Docs
      /\ r.seen \in Seq(Document \cup {NoDoc})
  BY <1>1, RequestFields, ItemFields DEF Shaped
<1>5. db.docs[it.id] \in Document \cup {NoDoc} /\ NoDoc.rev = NoRev
  BY <1>1, <1>4, NilDocument DEF Buckets
<1>6. /\ db.docs[it.id] = NoDoc => read.rev = NoRev
      /\ db.docs[it.id] # NoDoc /\ it.base = db.docs[it.id].rev =>
           read.rev = Live(db, it.id).rev
  <2>1. CASE r.kind = "post" \/ (r.kind = "bulk" /\ IsNew(it))
    <3>1. read = NoDoc
      BY <2>1 DEF OldDoc
    <3>2. it.base = NoRev
      BY <1>1, <1>4, <2>1 DEF Shaped, IsNew
    <3>3. db.docs[it.id] # NoDoc => db.docs[it.id].rev # NoRev
      BY <1>5, DocIsNotNil
    <3> QED
      BY <1>5, <3>1, <3>2, <3>3
  <2>2. CASE ~(r.kind = "post" \/ (r.kind = "bulk" /\ IsNew(it)))
    <3>1. read = Live(db, it.id)
      BY <2>2 DEF OldDoc
    <3> QED
      BY <1>5, <3>1 DEF Live
  <2> QED
    BY <2>1, <2>2
<1> HIDE DEF read
<1>7. ASSUME NEW s \in req'[c]
      PROVE  SeenIsCurrent(s)' /\ StepsInOrder(s)' /\ s.at # "commit"
  <2>1. /\ s.items = r.items /\ s.todo = r.todo /\ s.seen = Append(r.seen, read)
        /\ s.at \in {"validate", "begin"}
    BY <1>1, <1>2
  <2>2. /\ Len(s.seen) = i /\ DOMAIN s.seen = 1..i /\ s.seen[i] = read
        /\ \A j \in 1..i : j # i => j \in DOMAIN r.seen /\ s.seen[j] = r.seen[j]
    BY <1>4, <2>1
  <2>3. db' = db
    BY <1>3 DEF QuietStep
  <2>4. ASSUME NEW j \in DOMAIN s.seen
        PROVE  LET jt == r.items[j]
               IN  /\ db.docs[jt.id] = NoDoc => s.seen[j].rev = NoRev
                   /\ db.docs[jt.id] # NoDoc /\ jt.base = db.docs[jt.id].rev =>
                        s.seen[j].rev = Live(db, jt.id).rev
    <3>1. CASE j = i
      BY <1>6, <2>2, <3>1
    <3>2. CASE j # i
      BY <1>1, <2>2, <3>2 DEF SeenIsCurrent
    <3> QED
      BY <3>1, <3>2
  <2>5. SeenIsCurrent(s)'
    BY <1>4, <2>1, <2>2, <2>3, <2>4 DEF SeenIsCurrent
  <2>6. StepsInOrder(s)'
    BY <1>1, <2>1 DEF StepsInOrder
  <2> QED
    BY <2>1, <2>5, <2>6
<1>8. \A s \in req'[c] :
        /\ s.kind = r.kind /\ s.items = r.items
        /\ s.todo = r.todo /\ s.unseen = r.unseen
        /\ SeenIsCurrent(s)' /\ StepsInOrder(s)'
        /\ s.at = "commit" =>
             \A o \in Clients \ {c} : \A p \in req[o] : p.at # "commit"
  BY <1>2, <1>7
<1> QED
  BY <1>2, <1>3, <1>8, QuietSound

LEMMA RefusedSound ==
  ASSUME RequestsShaped, RequestsShaped', RequestsSound,
         NEW c \in Clients, NEW r \in req[c], Refused(c, r)
  PROVE  RequestsSound'
<1>1. QuietStep
  BY DEF Refused, QuietStep
<1>2. req'[c] = {} /\ \A o \in Clients \ {c} : req'[o] = req[o]
  BY RefusedShaped
<1> QED
  BY <1>1, <1>2, QuietSound

LEMMA BeginSound ==
  ASSUME RequestsShaped, RequestsShaped', RequestsSound,
         NEW c \in Clients, NEW r \in req[c], Begin(c, r), serial'
  PROVE  RequestsSound'
<1> DEFINE stored == Stored(r)
           log    == Logged(r, stored)
<1>1. /\ r \in Requests /\ Shaped(r) /\ TypeOK /\ MintedOnce
      /\ ItemsKnown(r) /\ StepsInOrder(r) /\ r.at = "begin"
  BY DEF RequestsShaped, TypeOK, Begin, RequestsSound
<1>2. /\ \A s \in req'[c] :
           /\ s.kind = r.kind /\ s.items = r.items /\ s.todo = r.todo
           /\ s.unseen = r.unseen /\ s.at = "commit" /\ s.seen = <<>>
           /\ s.log = log /\ s.log # <<>>
      /\ \A o \in Clients \ {c} : req'[o] = req[o]
  BY BeginShaped
<1>3. QuietStep
  BY DEF Begin, QuietStep
<1>4. /\ \A o \in Clients \ {c} : \A p \in req[o] : p.at # "commit"
      /\ \A i, j \in stored : r.items[i].id = r.items[j].id => i = j
  BY DEF Begin, Overlaps
<1>5. /\ stored \subseteq DOMAIN r.items
      /\ \A i \in stored :
           LET op == WriteOf(r.kind, r.items[i])
           IN  op.id = r.items[i].id /\ Writes(db, op, Made(r.items[i]))
      /\ LogOf(log, r, stored, Len(r.items))
  BY <1>1, BeginLog
<1> HIDE DEF stored, log
<1>6. /\ Len(log) <= Len(r.items) /\ DOMAIN log = 1..Len(log)
      /\ \A k, l \in DOMAIN log : log[k].id = log[l].id => k = l
  BY <1>4, <1>5 DEF LogOf
<1>7. ASSUME NEW k \in DOMAIN log
      PROVE  /\ \E m \in minted[log[k].id] : Writes(db, log[k], m)
             /\ \E i \in DOMAIN r.items : r.items[i].id = log[k].id
  <2>1. PICK i \in stored : log[k] = WriteOf(r.kind, r.items[i])
    BY <1>5, <1>6 DEF LogOf
  <2>2. /\ i \in DOMAIN r.items /\ log[k].id = r.items[i].id
        /\ Writes(db, log[k], Made(r.items[i]))
    BY <1>5, <2>1
  <2>3. Made(r.items[i]) \in minted[log[k].id]
    BY <1>1, <2>2 DEF ItemsKnown
  <2> QED
    BY <2>2, <2>3
<1>8. ASSUME NEW s \in req'[c]
      PROVE  SeenIsCurrent(s)' /\ StepsInOrder(s)'
  <2>1. db' = db /\ minted' = minted
    BY DEF Begin
  <2>2. LogIsCurrent(s)'
    <3>1. s.log = log /\ s.log # <<>> /\ s.items = r.items
      BY <1>2
    <3>2. \A k \in DOMAIN s.log :
            /\ \E m \in minted'[s.log[k].id] : Writes(db', s.log[k], m)
            /\ \E i \in DOMAIN s.items : s.items[i].id = s.log[k].id
      BY <1>7, <2>1, <3>1
    <3>3. /\ Len(s.log) <= Len(s.items)
          /\ \A k, l \in DOMAIN s.log : s.log[k].id = s.log[l].id => k = l
      BY <1>6, <3>1
    <3> QED
      BY <3>1, <3>2, <3>3 DEF LogIsCurrent
  <2>3. s.todo = Len(s.items) /\ s.at = "commit"
    BY <1>1, <1>2 DEF StepsInOrder
  <2>4. StepsInOrder(s)'
    BY <2>2, <2>3 DEF StepsInOrder
  <2>5. Len(r.items) \in Nat
    BY <1>1, RequestFields
  <2>6. SeenIsCurrent(s)'
    BY <1>2, <2>5 DEF SeenIsCurrent
  <2> QED
    BY <2>4, <2>6
<1>9. \A s \in req'[c] :
        /\ s.kind = r.kind /\ s.items = r.items
        /\ s.todo = r.todo /\ s.unseen = r.unseen
        /\ SeenIsCurrent(s)' /\ StepsInOrder(s)'
        /\ s.at = "commit" =>
             \A o \in Clients \ {c} : \A p \in req[o] : p.at # "commit"
  BY <1>2, <1>4, <1>8
<1> QED
  BY <1>2, <1>3, <1>9, QuietSound

LEMMA AttachSound ==
  ASSUME RequestsShaped, RequestsShaped', RequestsSound,
         NEW c \in Clients, NEW r \in req[c], Attach(c, r), serial'
  PROVE  RequestsSound'
<1> DEFINE d   == r.items[1].id
           old == db.docs[d]
<1>1. /\ r \in Requests /\ Shaped(r) /\ TypeOK /\ StepsInOrder(r)
      /\ r.at = "attach"
  BY DEF RequestsShaped, TypeOK, Attach, RequestsSound
<1>2. /\ \A s \in req'[c] :
           /\ s.kind = r.kind /\ s.items = r.items /\ s.todo = r.todo
           /\ s.unseen = r.unseen /\ s.at = "commit" /\ s.seen = r.seen
           /\ \E m \in minted'[d] :
                /\ m.rev.gen = old.rev.gen + 1 /\ m.deleted = old.deleted
                /\ s.log = <<PutDocument(db, d, m.rev, m.deleted)>>
      /\ \A o \in Clients \ {c} : req'[o] = req[o]
      /\ \A e \in Docs : minted[e] \subseteq minted'[e]
  BY AttachShaped
<1>3. QuietStep
  BY <1>2 DEF Attach, QuietStep
<1>4. \A o \in Clients \ {c} : \A p \in req[o] : p.at # "commit"
  BY DEF Attach, Overlaps
<1>5. /\ Len(r.items) \in Nat /\ Len(r.items) >= 1 /\ 1 \in DOMAIN r.items
      /\ d \in Docs
  <2>1. Len(r.items) \in Nat /\ Len(r.items) >= 1 /\ 1 \in DOMAIN r.items
    BY <1>1, RequestFields DEF Shaped
  <2> QED
    BY <1>1, <2>1, RequestFields, ItemFields
<1>6. old # NoDoc /\ r.todo = 0 /\ db' = db
  BY <1>1 DEF StepsInOrder, Attach
<1>7. old.rev.gen \in Nat
  <2>1. old \in Document
    BY <1>1, <1>5, <1>6 DEF TypeOK, Buckets
  <2> QED
    BY <2>1, DocumentFields
<1> HIDE DEF d, old
<1>8. ASSUME NEW s \in req'[c]
      PROVE  SeenIsCurrent(s)' /\ StepsInOrder(s)'
  <2>1. PICK m \in minted'[d] :
          /\ m.rev.gen = old.rev.gen + 1 /\ m.deleted = old.deleted
          /\ s.log = <<PutDocument(db, d, m.rev, m.deleted)>>
    BY <1>2
  <2> DEFINE op == PutDocument(db, d, m.rev, m.deleted)
  <2>2. op.id = d /\ op.put.deleted = old.deleted
    BY <2>1 DEF PutDocument, ReplaceWinner
  <2>3. Writes(db, op, m)
    BY <1>7, <2>1, <2>2 DEF Writes, old
  <2> HIDE DEF op
  <2>4. /\ s.log = <<op>> /\ s.log # <<>> /\ Len(s.log) = 1
        /\ DOMAIN s.log = 1..1 /\ s.log[1] = op
    BY <2>1 DEF op
  <2>5. /\ s.items = r.items /\ s.todo = 0 /\ s.at = "commit"
    BY <1>2, <1>6
  <2>6. LogIsCurrent(s)'
    BY <1>5, <1>6, <2>2, <2>3, <2>4, <2>5 DEF LogIsCurrent, d
  <2>7. LogOfAttachment(s)'
    BY <1>6, <2>2, <2>4, <2>5 DEF LogOfAttachment, old
  <2>8. StepsInOrder(s)'
    BY <2>5, <2>6, <2>7 DEF StepsInOrder
  <2>9. SeenIsCurrent(s)'
    <3>1. SeenIsCurrent(r)'
      BY <1>3, QuietKeeps
    <3> QED
      BY <1>2, <3>1 DEF SeenIsCurrent
  <2> QED
    BY <2>8, <2>9
<1>9. \A s \in req'[c] :
        /\ s.kind = r.kind /\ s.items = r.items
        /\ s.todo = r.todo /\ s.unseen = r.unseen
        /\ SeenIsCurrent(s)' /\ StepsInOrder(s)'
        /\ s.at = "commit" =>
             \A o \in Clients \ {c} : \A p \in req[o] : p.at # "commit"
  BY <1>2, <1>4, <1>8
<1> QED
  BY <1>2, <1>3, <1>9, QuietSound

\* What a commit makes of the database.
LEMMA CommitStage ==
  ASSUME RequestsShaped, RequestsSound,
         NEW c \in Clients, NEW r \in req[c], Commit(c, r)
  PROVE  /\ Stage(db, r.log, db', Len(r.log)) /\ BucketsSound(db')
         /\ db \in Buckets /\ db' \in Buckets /\ minted' = minted
         /\ r \in Requests /\ r.at = "commit"
         /\ LogIsCurrent(r) /\ (r.todo = Len(r.items) \/ LogOfAttachment(r))
<1>1. /\ r \in Requests /\ r.at = "commit" /\ StepsInOrder(r)
      /\ db \in Buckets /\ BucketsSound(db) /\ MintedOnce
      /\ \A d \in Docs : minted[d] \subseteq Document
  BY DEF RequestsShaped, RequestsSound, TypeOK, Commit
<1>2. /\ db' = Applied(db, r.log) /\ minted' = minted
      /\ db.changesSeq + Len(r.log) <= MaxSeq
  BY DEF Commit
<1>3. LogIsCurrent(r) /\ (r.todo = Len(r.items) \/ LogOfAttachment(r))
  BY <1>1 DEF StepsInOrder
<1>4. LogFor(db, r.log)
  <2>1. r.log \in Seq(OpLog) /\ DOMAIN r.log = 1..Len(r.log)
    BY <1>1, RequestFields
  <2> QED
    BY <1>3, <2>1 DEF LogIsCurrent, LogFor
<1>5. Stage(db, r.log, Applied(db, r.log), Len(r.log))
  BY <1>1, <1>2, <1>4, LogApplied
<1>6. BucketsSound(Applied(db, r.log)) /\ Applied(db, r.log) \in Buckets
  BY <1>5 DEF Stage
<1> QED
  BY <1>1, <1>2, <1>3, <1>5, <1>6

\* The statistics and the documents that wait, when a request commits.
LEMMA CommitCounts ==
  ASSUME RequestsShaped, RequestsShaped', RequestsSound,
         NEW c \in Clients, NEW r \in req[c], Commit(c, r)
  PROVE  /\ Cardinality(LiveDocs') <= Cardinality(LiveDocs) + r.todo
         /\ Cardinality(Unstored) = Cardinality(Unstored') + r.todo
         /\ Cardinality(LiveDocs') \in Nat /\ Cardinality(LiveDocs) \in Nat
         /\ Cardinality(Unstored') \in Nat /\ r.todo \in Nat
<1>1. /\ Stage(db, r.log, db', Len(r.log)) /\ BucketsSound(db')
      /\ db \in Buckets /\ db' \in Buckets
      /\ r \in Requests /\ LogIsCurrent(r)
      /\ r.todo = Len(r.items) \/ LogOfAttachment(r)
  BY CommitStage
<1>2. /\ LiveDocs = LiveIn(db) /\ LiveDocs' = LiveIn(db')
  BY DEF LiveDocs, LiveIn
<1>3. BucketsSound(db)
  BY DEF RequestsSound
<1>4. /\ r.log \in Seq(OpLog) /\ Len(r.log) \in Nat /\ DOMAIN r.log = 1..Len(r.log)
      /\ r.todo \in Nat /\ r.todo \in 0..MaxBatch /\ Len(r.items) \in Nat
  BY <1>1, RequestFields
<1>5. Cardinality(LiveDocs) \in Nat /\ Cardinality(LiveDocs') \in Nat
  BY <1>1, <1>2, <1>3, DocCountIsLive
<1>6. Cardinality(LiveDocs') <= Cardinality(LiveDocs) + r.todo
  <2>1. CASE r.todo = Len(r.items)
    <3>1. Cardinality(LiveIn(db')) <= Cardinality(LiveIn(db)) + Len(r.log)
      BY <1>1, <1>3, <1>4, LiveGrows
    <3>2. Len(r.log) <= r.todo
      BY <1>1, <2>1 DEF LogIsCurrent
    <3> QED
      BY <1>2, <1>4, <1>5, <3>1, <3>2
  <2>2. CASE LogOfAttachment(r)
    <3>1. ASSUME NEW d \in Docs
          PROVE  Live(db', d) # NoDoc <=> Live(db, d) # NoDoc
      <4>1. /\ db.docs[d] \in Document \cup {NoDoc}
            /\ db'.docs[d] \in Document \cup {NoDoc}
        BY <1>1 DEF Buckets
      <4>2. CASE \E k \in 1..Len(r.log) : r.log[k].id = d
        <5>1. PICK k \in 1..Len(r.log) : r.log[k].id = d
          BY <4>2
        <5>2. /\ db'.docs[d] # NoDoc
              /\ db'.docs[d] = IF r.log[k].put = NoDoc THEN db.docs[d]
                               ELSE r.log[k].put
          BY <1>1, <5>1 DEF Stage
        <5>3. /\ db.docs[d] # NoDoc
              /\ r.log[k].put.deleted = db.docs[d].deleted
          BY <1>4, <2>2, <5>1 DEF LogOfAttachment
        <5> QED
          BY <4>1, <5>2, <5>3, LiveAt
      <4>3. CASE \A k \in 1..Len(r.log) : r.log[k].id # d
        BY <1>1, <4>3 DEF Stage, Live
      <4> QED
        BY <4>2, <4>3
    <3>2. LiveDocs' = LiveDocs
      BY <3>1 DEF LiveDocs
    <3> QED
      BY <1>4, <1>5, <3>2
  <2> QED
    BY <1>1, <2>1, <2>2
<1>7. Cardinality(Unstored) = Cardinality(Unstored') + r.todo
  <2>1. /\ \A s \in req'[c] : s.todo = 0
        /\ \A o \in Clients \ {c} : req'[o] = req[o]
    BY CommitShaped
  <2>2. \A s \in req[c] : s = r
    BY DEF RequestsShaped
  <2>3. DifferBy(req', req, c, r.todo)
    BY <2>1, <2>2 DEF DifferBy
  <2>4. Cardinality(UnstoredOf(req)) = Cardinality(UnstoredOf(req')) + r.todo
    BY <1>4, <2>3, UnstoredMore
  <2> QED
    BY <2>4, UnstoredType
<1> QED
  BY <1>4, <1>5, <1>6, <1>7, UnstoredType

\* What was validated is what the client's revision names, after others
\* commit too: a winner never comes back.
LEMMA SeenStays ==
  ASSUME RequestsShaped, RequestsSound, BucketsSound(db'), db' \in Buckets,
         \A d \in Docs : AtLeast(db'.docs[d].rev, db.docs[d].rev),
         NEW p \in Requests, ItemsKnown(p), SeenIsCurrent(p)
  PROVE  SeenIsCurrent(p)'
<1> SUFFICES ASSUME NEW i \in DOMAIN p.seen
             PROVE  LET it == p.items[i]
                    IN  /\ db'.docs[it.id] = NoDoc => p.seen[i].rev = NoRev
                        /\ db'.docs[it.id] # NoDoc /\ it.base = db'.docs[it.id].rev =>
                             p.seen[i].rev = Live(db', it.id).rev
  BY DEF SeenIsCurrent
<1> DEFINE it == p.items[i]
           d  == it.id
<1>1. /\ i \in DOMAIN p.items /\ it \in Item /\ d \in Docs
      /\ it.base \in Rev \cup {NoRev}
  <2>1. i \in DOMAIN p.items
    BY RequestFields DEF SeenIsCurrent
  <2> QED
    BY <2>1, RequestFields, ItemFields
<1>2. /\ db.docs[d] = NoDoc => p.seen[i].rev = NoRev
      /\ db.docs[d] # NoDoc /\ it.base = db.docs[d].rev =>
           p.seen[i].rev = Live(db, d).rev
  BY DEF SeenIsCurrent
<1>3. it.base \in acked[d] \cup {NoRev}
  BY <1>1 DEF ItemsKnown
<1> HIDE DEF it
<1>4. db \in Buckets /\ MintedOnce /\ BucketsSound(db) /\ WinnerOfAcked
  BY DEF RequestsShaped, RequestsSound, TypeOK
<1>5. /\ db.docs[d] \in Document \cup {NoDoc}
      /\ db'.docs[d] \in Document \cup {NoDoc}
  BY <1>1, <1>4 DEF Buckets
<1>6. /\ db.docs[d].rev \in Rev \cup {NoRev} /\ db'.docs[d].rev \in Rev \cup {NoRev}
      /\ db.docs[d] = NoDoc <=> db.docs[d].rev = NoRev
      /\ db'.docs[d] = NoDoc <=> db'.docs[d].rev = NoRev
  BY <1>5, DocIsNotNil, NilDocument
<1>7. AtLeast(db'.docs[d].rev, db.docs[d].rev)
  BY <1>1
<1>8. ASSUME db'.docs[d] = NoDoc
      PROVE  p.seen[i].rev = NoRev
  <2>1. NoRev \in Rev \cup {NoRev} /\ db'.docs[d].rev = NoRev
    BY <1>6, <1>8
  <2>2. db.docs[d].rev = NoRev
    BY <1>6, <1>7, <2>1, NoRevIsLeast, RevOrder DEF AtLeast
  <2> QED
    BY <1>2, <1>6, <2>2
<1>9. ASSUME db'.docs[d] # NoDoc, it.base = db'.docs[d].rev
      PROVE  p.seen[i].rev = Live(db', d).rev
  <2>1. it.base # NoRev /\ it.base \in acked[d]
    BY <1>3, <1>6, <1>9
  <2>2. AtLeast(db.docs[d].rev, it.base) /\ \E m \in minted[d] : m.rev = it.base
    BY <1>1, <1>4, <2>1 DEF WinnerOfAcked
  <2>3. db.docs[d].rev = it.base
    BY <1>1, <1>6, <1>7, <1>9, <2>2, RevOrder DEF AtLeast
  <2>4. p.seen[i].rev = Live(db, d).rev
    BY <1>2, <1>6, <2>1, <2>3
  <2>5. PICK m \in minted[d] : m.rev = it.base
    BY <2>2
  <2>6. m.deleted = db.docs[d].deleted
    <3>1. LeavesAsMade(db) /\ SoundAt(db, d)
      BY <1>1, <1>4 DEF BucketsSound
    <3> QED
      BY <1>1, <1>4, <2>1, <2>3, <2>5, <3>1, WinnerAsMade
  <2>7. m.deleted = db'.docs[d].deleted
    <3>1. LeavesAsMade(db') /\ SoundAt(db', d)
      BY <1>1 DEF BucketsSound
    <3> QED
      BY <1>1, <1>4, <1>9, <2>1, <2>5, <3>1, WinnerAsMade
  <2>8. Live(db', d).rev = Live(db, d).rev
    BY <1>9, <2>3, <2>6, <2>7 DEF Live
  <2> QED
    BY <2>4, <2>8
<1> QED
  BY <1>8, <1>9 DEF it

LEMMA CommitSound ==
  ASSUME RequestsShaped, RequestsShaped', RequestsSound,
         NEW c \in Clients, NEW r \in req[c], Commit(c, r)
  PROVE  RequestsSound'
<1>1. /\ Stage(db, r.log, db', Len(r.log)) /\ BucketsSound(db')
      /\ db \in Buckets /\ db' \in Buckets /\ minted' = minted
      /\ r \in Requests /\ r.at = "commit" /\ LogIsCurrent(r)
  BY CommitStage
<1>2. /\ \A d \in Docs : acked[d] \subseteq acked'[d]
      /\ \A d \in Docs : \A a \in acked'[d] : a \in acked[d] \/
           \E k \in DOMAIN r.log : /\ r.log[k].id = d
                                   /\ \E l \in r.log[k].puts : l.rev = a
      /\ \A s \in req'[c] :
           /\ s.kind = r.kind /\ s.items = r.items /\ s.todo = 0
           /\ s.unseen = r.unseen /\ s.at = "attach" /\ s.seen = r.seen
           /\ r.parts = 1
      /\ \A o \in Clients \ {c} : req'[o] = req[o]
  BY CommitShaped
<1>3. TypeOK /\ TypeOK' /\ MintedOnce /\ MintedOnce'
  BY DEF RequestsShaped
<1>4. /\ BucketsSound(db) /\ WinnerOfAcked /\ OneAtATime
      /\ \A o \in Clients : \A p \in req[o] :
           ItemsKnown(p) /\ SeenIsCurrent(p) /\ StepsInOrder(p) /\ LimitInReach(p)
  BY DEF RequestsSound
<1>5. \A d \in Docs : AtLeast(db'.docs[d].rev, db.docs[d].rev)
  BY <1>1 DEF Stage
<1>6. BucketsSound(db)'
  <2>1. LeavesAsMade(db)'
    BY <1>1 DEF BucketsSound, LeavesAsMade
  <2> QED
    BY <1>1, <2>1 DEF BucketsSound
<1>7. \A k \in DOMAIN r.log : k \in 1..Len(r.log)
  BY <1>1, RequestFields
<1>8. WinnerOfAcked'
  <2> SUFFICES ASSUME NEW d \in Docs, NEW a \in acked'[d]
               PROVE  (\E m \in minted[d] : m.rev = a) /\ AtLeast(db'.docs[d].rev, a)
    BY <1>1 DEF WinnerOfAcked
  <2>1. CASE a \in acked[d]
    <3>1. (\E m \in minted[d] : m.rev = a) /\ AtLeast(db.docs[d].rev, a)
      BY <1>4, <2>1 DEF WinnerOfAcked
    <3>2. /\ a \in Rev \cup {NoRev}
          /\ db.docs[d].rev \in Rev \cup {NoRev}
          /\ db'.docs[d].rev \in Rev \cup {NoRev}
      <4>1. a \in Rev
        BY <1>3, <2>1 DEF TypeOK
      <4>2. /\ db.docs[d] \in Document \cup {NoDoc}
            /\ db'.docs[d] \in Document \cup {NoDoc}
        BY <1>1 DEF Buckets
      <4> QED
        BY <4>1, <4>2, DocIsNotNil, NilDocument
    <3>3. AtLeast(db'.docs[d].rev, db.docs[d].rev)
      BY <1>5
    <3> QED
      BY <3>1, <3>2, <3>3, RevLessTransitive DEF AtLeast
  <2>2. CASE a \notin acked[d]
    <3>1. PICK k \in DOMAIN r.log :
            r.log[k].id = d /\ \E l \in r.log[k].puts : l.rev = a
      BY <1>2, <2>2
    <3> QED
      BY <1>1, <1>7, <3>1 DEF Stage
  <2> QED
    BY <2>1, <2>2
<1>9. \A o \in Clients \ {c} : \A p \in req[o] : p.at # "commit"
  BY <1>1, <1>4 DEF OneAtATime
<1>10. OneAtATime'
  <2>1. \A o \in Clients : \A s \in req'[o] : s.at # "commit"
    BY <1>2, <1>9
  <2> QED
    BY <2>1 DEF OneAtATime
<1>11. /\ Cardinality(LiveDocs') <= Cardinality(LiveDocs) + r.todo
       /\ Cardinality(Unstored) = Cardinality(Unstored') + r.todo
       /\ Cardinality(LiveDocs') \in Nat /\ Cardinality(LiveDocs) \in Nat
       /\ Cardinality(Unstored') \in Nat /\ r.todo \in Nat
  BY CommitCounts
<1>12. ASSUME NEW o \in Clients, NEW p \in req[o]
       PROVE  /\ p \in Requests
              /\ ItemsKnown(p)' /\ SeenIsCurrent(p)' /\ LimitInReach(p)'
  <2>1. p \in Requests
    BY <1>3 DEF TypeOK
  <2>2. ItemsKnown(p)'
    BY <1>1, <1>2, <1>3, <1>4, <2>1, KnownStays
  <2>3. SeenIsCurrent(p)'
    BY <1>1, <1>4, <1>5, <2>1, SeenStays
  <2>4. p.unseen \in Int /\ LimitInReach(p)
    BY <1>4, <2>1, RequestFields
  <2>5. Limited(p.kind, p.items) =>
          Cardinality(LiveDocs') + Cardinality(Unstored') <= MaxDocs + p.unseen
    BY <1>11, <2>4, RequestsAssumption DEF LimitInReach
  <2>6. LimitInReach(p)'
    BY <2>5 DEF LimitInReach
  <2> QED
    BY <2>1, <2>2, <2>3, <2>6
<1>13. ASSUME NEW o \in Clients \ {c}, NEW s \in req'[o]
       PROVE  (ItemsKnown(s) /\ SeenIsCurrent(s) /\ StepsInOrder(s)
                 /\ LimitInReach(s))'
  <2>1. /\ s \in req[o] /\ s \in Requests /\ s.at # "commit"
        /\ ItemsKnown(s)' /\ SeenIsCurrent(s)' /\ LimitInReach(s)'
    BY <1>2, <1>9, <1>12
  <2>2. s.at = "attach" => db'.docs[s.items[1].id] # NoDoc
    <3> SUFFICES ASSUME s.at = "attach"
                 PROVE  db'.docs[s.items[1].id] # NoDoc
      OBVIOUS
    <3> DEFINE d == s.items[1].id
    <3>1. db.docs[d] # NoDoc
      BY <1>4, <2>1 DEF StepsInOrder
    <3>2. d \in Docs
      <4>1. Shaped(s)
        BY <2>1 DEF RequestsShaped
      <4>2. 1 \in DOMAIN s.items
        BY <2>1, <4>1, RequestFields DEF Shaped
      <4> QED
        BY <2>1, <4>2, RequestFields, ItemFields
    <3> HIDE DEF d
    <3>3. /\ db.docs[d] \in Document /\ db.docs[d].rev \in Rev
      BY <1>1, <3>1, <3>2, DocIsNotNil DEF Buckets
    <3>4. AtLeast(db'.docs[d].rev, db.docs[d].rev)
      BY <1>5, <3>2
    <3>5. db'.docs[d].rev # NoRev
      BY <3>3, <3>4, NoRevIsLeast, RevOrder, DocIsNotNil DEF AtLeast
    <3> QED
      BY <3>5, NilDocument DEF d
  <2>3. StepsInOrder(s)
    BY <1>4, <2>1
  <2>4. StepsInOrder(s)'
    BY <2>1, <2>2, <2>3 DEF StepsInOrder
  <2> QED
    BY <2>1, <2>4
<1>14. ASSUME NEW s \in req'[c]
       PROVE  (ItemsKnown(s) /\ SeenIsCurrent(s) /\ StepsInOrder(s)
                 /\ LimitInReach(s))'
  <2>1. /\ s.kind = r.kind /\ s.items = r.items /\ s.todo = 0
        /\ s.unseen = r.unseen /\ s.at = "attach" /\ s.seen = r.seen
        /\ r.parts = 1
    BY <1>2
  <2>2. ItemsKnown(r)' /\ SeenIsCurrent(r)' /\ LimitInReach(r)'
    BY <1>12
  <2>3. ItemsKnown(s)' /\ SeenIsCurrent(s)' /\ LimitInReach(s)'
    BY <2>1, <2>2 DEF ItemsKnown, SeenIsCurrent, LimitInReach
  <2>4. db'.docs[s.items[1].id] # NoDoc
    <3>1. Len(r.items) = 1
      BY <2>1 DEF RequestsShaped, Shaped
    <3>2. DOMAIN r.items = 1..1
      BY <1>1, <3>1, RequestFields
    <3>3. 1 \in DOMAIN r.log
      BY <1>1, RequestFields DEF LogIsCurrent
    <3>4. PICK i \in DOMAIN r.items : r.items[i].id = r.log[1].id
      BY <1>1, <3>3 DEF LogIsCurrent
    <3>5. r.log[1].id = s.items[1].id
      BY <2>1, <3>2, <3>4
    <3>6. db'.docs[r.log[1].id] # NoDoc
      BY <1>1, <1>7, <3>3 DEF Stage
    <3> QED
      BY <3>5, <3>6
  <2>5. StepsInOrder(s)'
    BY <2>1, <2>4 DEF StepsInOrder
  <2> QED
    BY <2>3, <2>5
<1> QED
  BY <1>6, <1>8, <1>10, <1>13, <1>14 DEF RequestsSound

LEMMA InitSound ==
  ASSUME Init
  PROVE  RequestsSound
<1>1. /\ db.docs = [d \in Docs |-> NoDoc] /\ db.changes = {} /\ db.deleted = {}
      /\ db.changesSeq = 0 /\ db.invalSeq = 0 /\ ~NoDoc.deleted
      /\ \A d \in Docs : leafRevs(db, d) = {}
  BY DEF Init, EmptyBuckets, leafRevs, NoDoc
<1>2. BucketsSound(db)
  BY <1>1 DEF BucketsSound, SequencesApart, LeavesAsMade, SoundAt, WinnerRuleAt,
              IndicesExactAt, LeavesHeadHistoryAt
<1>3. \A c \in Clients : req[c] = {}
  BY DEF Init
<1>4. \A d \in Docs : acked[d] = {}
  BY DEF Init
<1> QED
  BY <1>2, <1>3, <1>4 DEF RequestsSound, WinnerOfAcked, OneAtATime

\* While no two transactions have overlapped, every step keeps what is sound.
LEMMA NextSound ==
  ASSUME RequestsInv, [Next]_vars, serial'
  PROVE  RequestsSound'
<1>1. RequestsShaped /\ RequestsShaped'
  BY NextShaped DEF RequestsInv
<1>2. CASE Arrives
  <2>1. PICK c \in Clients, kind \in Kinds, parts \in {0, 1} : \E items :
          /\ req[c] = {} /\ Admissible(kind, items, parts)
          /\ Submit(c, kind, items, parts)
    BY <1>1, <1>2, ArrivesAdmissible DEF RequestsShaped
  <2>2. PICK items :
          /\ req[c] = {} /\ Admissible(kind, items, parts)
          /\ Submit(c, kind, items, parts)
    BY <2>1
  <2>3. RequestsSound
    BY <2>2 DEF Submit, RequestsInv
  <2> QED
    BY <1>1, <2>2, <2>3, SubmitSound
<1>3. CASE Proceeds
  <2>1. PICK c \in Clients : \E r \in req[c] :
          \/ Validate(c, r) \/ Begin(c, r) \/ Refused(c, r)
          \/ Commit(c, r) \/ Attach(c, r)
    BY <1>3 DEF Proceeds
  <2>2. PICK r \in req[c] :
          \/ Validate(c, r) \/ Begin(c, r) \/ Refused(c, r)
          \/ Commit(c, r) \/ Attach(c, r)
    BY <2>1
  <2>3. serial
    BY <2>2 DEF Validate, Begin, Refused, Commit, Attach
  <2>4. RequestsSound
    BY <2>3 DEF RequestsInv
  <2> QED
    BY <1>1, <2>2, <2>4, ValidateSound, BeginSound, RefusedSound, CommitSound,
       AttachSound
<1>4. CASE UNCHANGED vars
  <2>1. RequestsSound /\ db' = db /\ req' = req /\ minted' = minted /\ acked' = acked
    BY <1>4 DEF RequestsInv, vars
  <2>2. QuietStep
    BY <2>1 DEF QuietStep
  <2>3. /\ BucketsSound(db)' /\ WinnerOfAcked' /\ LiveDocs' = LiveDocs
        /\ \A c \in Clients : \A r \in req[c] :
             ItemsKnown(r)' /\ SeenIsCurrent(r)' /\ StepsInOrder(r)'
    BY <1>1, <2>1, <2>2, QuietKeeps
  <2>4. OneAtATime'
    BY <2>1 DEF RequestsSound, OneAtATime
  <2>5. \A c \in Clients : \A r \in req[c] : LimitInReach(r)'
    BY <2>1, <2>3 DEF RequestsSound, LimitInReach, Unstored
  <2> QED
    BY <2>1, <2>3, <2>4, <2>5 DEF RequestsSound
<1> QED
  BY <1>2, <1>3, <1>4 DEF Next

-----------------------------------------------------------------------------
(* Which step it was, seen from one request. *)

LEMMA OthersKeepTheirStep ==
  ASSUME RequestsShaped, Arrives, NEW c \in Clients, NEW r \in req[c],
         NEW s \in req'[c]
  PROVE  s.at = r.at
<1>1. PICK o \in Clients, kind \in Kinds, parts \in {0, 1} : \E items :
        /\ req[o] = {} /\ Admissible(kind, items, parts)
        /\ Submit(o, kind, items, parts)
  BY ArrivesAdmissible DEF RequestsShaped
<1>2. PICK items :
        /\ req[o] = {} /\ Admissible(kind, items, parts)
        /\ Submit(o, kind, items, parts)
  BY <1>1
<1>3. o # c
  BY <1>2
<1>4. req'[c] = {[p EXCEPT !.unseen = @ + Len(items)] : p \in req[c]}
  BY <1>2, <1>3 DEF Submit
<1>5. PICK p \in req[c] : s = [p EXCEPT !.unseen = @ + Len(items)]
  BY <1>4
<1>6. p = r /\ p \in Requests
  BY DEF RequestsShaped, TypeOK
<1>7. s.at = p.at
  BY <1>5, <1>6 DEF Requests
<1> QED
  BY <1>6, <1>7

LEMMA OnlyBegins ==
  ASSUME RequestsShaped, [Next]_vars, NEW c \in Clients, NEW r \in req[c],
         NEW s \in req'[c], r.at = "begin", s.at = "commit"
  PROVE  Begin(c, r)
<1>1. \A p \in req[c] : p = r
  BY DEF RequestsShaped
<1>2. ~Arrives
  BY OthersKeepTheirStep
<1>3. ~UNCHANGED vars
  BY <1>1 DEF vars
<1>4. Proceeds
  BY <1>2, <1>3 DEF Next
<1>5. PICK o \in Clients : \E p \in req[o] :
        \/ Validate(o, p) \/ Begin(o, p) \/ Refused(o, p)
        \/ Commit(o, p) \/ Attach(o, p)
  BY <1>4 DEF Proceeds
<1>6. PICK p \in req[o] :
        \/ Validate(o, p) \/ Begin(o, p) \/ Refused(o, p)
        \/ Commit(o, p) \/ Attach(o, p)
  BY <1>5
<1>7. \A q \in Clients \ {o} : req'[q] = req[q]
  BY <1>6, ValidateShaped, BeginShaped, RefusedShaped, CommitShaped, AttachShaped
<1>8. o = c
  BY <1>1, <1>7
<1>9. p = r
  BY <1>1, <1>8
<1>10. ~Validate(c, r) /\ ~Commit(c, r) /\ ~Attach(c, r)
  BY DEF Validate, Commit, Attach
<1>11. ~Refused(c, r)
  BY RefusedShaped
<1> QED
  BY <1>6, <1>8, <1>9, <1>10, <1>11

LEMMA OnlyCommitAnswers ==
  ASSUME RequestsShaped, [Next]_vars, NEW c \in Clients, NEW r \in req[c],
         r.at = "commit", req'[c] = {}
  PROVE  Commit(c, r)
<1>1. \A p \in req[c] : p = r
  BY DEF RequestsShaped
<1>2. ~Arrives
  <2> SUFFICES ASSUME Arrives PROVE FALSE
    OBVIOUS
  <2>1. PICK o \in Clients, kind \in Kinds, parts \in {0, 1} : \E items :
          /\ req[o] = {} /\ Admissible(kind, items, parts)
          /\ Submit(o, kind, items, parts)
    BY ArrivesAdmissible DEF RequestsShaped
  <2>2. PICK items :
          /\ req[o] = {} /\ Admissible(kind, items, parts)
          /\ Submit(o, kind, items, parts)
    BY <2>1
  <2>3. req'[c] = {[p EXCEPT !.unseen = @ + Len(items)] : p \in req[c]}
    BY <2>2 DEF Submit
  <2> QED
    BY <2>3
<1>3. ~UNCHANGED vars
  BY DEF vars
<1>4. Proceeds
  BY <1>2, <1>3 DEF Next
<1>5. PICK o \in Clients : \E p \in req[o] :
        \/ Validate(o, p) \/ Begin(o, p) \/ Refused(o, p)
        \/ Commit(o, p) \/ Attach(o, p)
  BY <1>4 DEF Proceeds
<1>6. PICK p \in req[o] :
        \/ Validate(o, p) \/ Begin(o, p) \/ Refused(o, p)
        \/ Commit(o, p) \/ Attach(o, p)
  BY <1>5
<1>7. \A q \in Clients \ {o} : req'[q] = req[q]
  BY <1>6, ValidateShaped, BeginShaped, RefusedShaped, CommitShaped, AttachShaped
<1>8. o = c
  BY <1>7
<1>9. p = r
  BY <1>1, <1>8
<1>10. ~Validate(c, r) /\ ~Begin(c, r) /\ ~Refused(c, r) /\ ~Attach(c, r)
  BY DEF Validate, Begin, Refused, Attach
<1> QED
  BY <1>6, <1>8, <1>9, <1>10

-----------------------------------------------------------------------------
(* The theorems. *)

(***************************************************************************)
(* RequestsInv holds in every reachable state: requests keep their shape   *)
(* however transactions overlap, and while none has, the buckets are sound *)
(* and a request's log, what it validated and what its limit check left    *)
(* uncounted are right for the database as it is by then.                  *)
(***************************************************************************)
THEOREM RequestsInductive == Spec => []RequestsInv
<1>1. Init => RequestsInv
  BY InitShaped, InitSound DEF RequestsInv
<1>2. RequestsInv /\ [Next]_vars => RequestsInv'
  <2> SUFFICES ASSUME RequestsInv, [Next]_vars
               PROVE  RequestsInv'
    OBVIOUS
  <2>1. RequestsShaped'
    BY NextShaped DEF RequestsInv
  <2>2. serial' => RequestsSound'
    BY NextSound
  <2> QED
    BY <2>1, <2>2 DEF RequestsInv
<1> QED
  BY <1>1, <1>2, PTL DEF Spec

(***************************************************************************)
(* Requests of every kind, batches and inline attachments included, leave  *)
(* each document served by its winning leaf, and the changes feed and the  *)
(* _deleted index exact, if no two transactions overlapped and no batch    *)
(* wrote a document twice.                                                 *)
(***************************************************************************)
THEOREM WinnersKept == Spec => []RequestsKeepWinners
<1>1. RequestsInv => RequestsKeepWinners
  BY DEF RequestsInv, RequestsSound, BucketsSound, SoundAt, RequestsKeepWinners
<1> QED
  BY <1>1, RequestsInductive, PTL

\* What a transaction is about to replace is what was validated.
LEMMA BeginValidated ==
  ASSUME RequestsInv, NEW c \in Clients, NEW r \in req[c], Begin(c, r), serial',
         r.kind \notin {"copy", "replicate"}, NEW i \in Stored(r)
  PROVE  LET it == r.items[i]
         IN  \/ r.seen[i].rev = Live(db, it.id).rev
             \/ IsDeletion(r.kind, it) /\ it.base # db.docs[it.id].rev
<1> DEFINE it == r.items[i]
<1>1. /\ r \in Requests /\ Shaped(r) /\ r.at = "begin" /\ SeenIsCurrent(r)
  BY DEF RequestsInv, RequestsShaped, RequestsSound, TypeOK, Begin
<1>2. i \in DOMAIN r.items /\ Stores(r.kind, it)
  BY DEF Stored
<1>3. i \in DOMAIN r.seen
  BY <1>1, <1>2, RequestFields DEF Shaped
<1>4. /\ db.docs[it.id] = NoDoc => r.seen[i].rev = NoRev
      /\ db.docs[it.id] # NoDoc /\ it.base = db.docs[it.id].rev =>
           r.seen[i].rev = Live(db, it.id).rev
  BY <1>1, <1>3 DEF SeenIsCurrent
<1>5. CASE IsDeletion(r.kind, it)
  BY <1>2, <1>4, <1>5 DEF Stores, Deletable
<1>6. CASE ~IsDeletion(r.kind, it)
  <2>1. db.docs[it.id] = NoDoc \/ it.base = db.docs[it.id].rev
    BY <1>2, <1>6 DEF Stores, ValidUpdateRevision
  <2>2. Live(db, it.id).rev = NoRev \/ db.docs[it.id] # NoDoc
    BY NilDocument DEF Live
  <2> QED
    BY <1>4, <2>1, <2>2
<1> QED
  BY <1>5, <1>6

(***************************************************************************)
(* What a client's write replaces is what validate_doc_update was given,   *)
(* although it ran in transactions of its own before: any write that came  *)
(* between makes the revision the client names stale, and a winner that    *)
(* was replaced never comes back.                                          *)
(***************************************************************************)
THEOREM ReplacesWhatWasValidated == Spec => ValidatedOnBase
<1> DEFINE A == \A c \in Clients : \A r \in req[c] : \A s \in req'[c] :
       r.at = "begin" /\ s.at = "commit" /\ serial' /\ r.kind \notin {"copy", "replicate"} =>
         \A i \in Stored(r) :
           LET it == r.items[i]
           IN  \/ r.seen[i].rev = Live(db, it.id).rev
               \/ IsDeletion(r.kind, it) /\ it.base # db.docs[it.id].rev
<1>1. RequestsInv /\ [Next]_vars => A
  <2> SUFFICES ASSUME RequestsInv, [Next]_vars,
                      NEW c \in Clients, NEW r \in req[c], NEW s \in req'[c],
                      r.at = "begin", s.at = "commit", serial',
                      r.kind \notin {"copy", "replicate"}, NEW i \in Stored(r)
               PROVE  LET it == r.items[i]
                      IN  \/ r.seen[i].rev = Live(db, it.id).rev
                          \/ IsDeletion(r.kind, it) /\ it.base # db.docs[it.id].rev
    OBVIOUS
  <2>1. Begin(c, r)
    BY OnlyBegins DEF RequestsInv
  <2> QED
    BY <2>1, BeginValidated
<1> HIDE DEF A
<1>2. Spec => [][A]_vars
  BY <1>1, RequestsInductive, PTL DEF Spec
<1> QED
  BY <1>2 DEF A, ValidatedOnBase

(***************************************************************************)
(* max_docs_per_db is exceeded by no more than what the request's check    *)
(* could not count: what it stores under a revision, and what the requests *)
(* open at the same time had yet to store.                                 *)
(***************************************************************************)
THEOREM LimitHolds == Spec => LimitOverrunBounded
<1> DEFINE A == \A c \in Clients : \A r \in req[c] :
       /\ r.at = "commit" /\ req'[c] = {}
       /\ serial /\ Limited(r.kind, r.items)
       => Cardinality(LiveDocs') <= MaxDocs + r.unseen
<1>1. RequestsInv /\ [Next]_vars => A
  <2> SUFFICES ASSUME RequestsInv, [Next]_vars,
                      NEW c \in Clients, NEW r \in req[c],
                      r.at = "commit", req'[c] = {},
                      serial, Limited(r.kind, r.items)
               PROVE  Cardinality(LiveDocs') <= MaxDocs + r.unseen
    OBVIOUS
  <2>1. Commit(c, r)
    BY OnlyCommitAnswers DEF RequestsInv
  <2>2. RequestsShaped /\ RequestsShaped' /\ RequestsSound
    BY NextShaped DEF RequestsInv
  <2>3. r.unseen \in Int
    BY <2>2, RequestFields DEF RequestsShaped, TypeOK
  <2>4. Cardinality(LiveDocs) + Cardinality(Unstored) <= MaxDocs + r.unseen
    BY <2>2 DEF RequestsSound, LimitInReach
  <2>5. /\ Cardinality(LiveDocs') <= Cardinality(LiveDocs) + r.todo
        /\ Cardinality(Unstored) = Cardinality(Unstored') + r.todo
        /\ Cardinality(LiveDocs') \in Nat /\ Cardinality(LiveDocs) \in Nat
        /\ Cardinality(Unstored') \in Nat /\ r.todo \in Nat
    BY <2>1, <2>2, CommitCounts
  <2> QED
    BY <2>3, <2>4, <2>5, RequestsAssumption
<1> HIDE DEF A
<1>2. Spec => [][A]_vars
  BY <1>1, RequestsInductive, PTL DEF Spec
<1> QED
  BY <1>2 DEF A, LimitOverrunBounded

=============================================================================
