--------------------------- MODULE DatabaseProofs ----------------------------
(***************************************************************************)
(* What holds of a database for any number of documents, hashes and        *)
(* writers and for any bounds.                                             *)
(*                                                                         *)
(* First the document store.  However its transactions overlap, IInv is    *)
(* inductive, and with it come the type invariant, FeedCovers,             *)
(* AckedNotLost and FeedMovesOn.  As long as none overlapped, SerialInv    *)
(* is, and gives the winner, the indices and what edits extend.            *)
(*                                                                         *)
(* Then what runs beside its writers and needs those theorems: the readers *)
(* that page through the changes feed, the listeners and polls that are    *)
(* pushed it, and compaction.                                              *)
(***************************************************************************)
EXTENDS ChangesFeed, LiveFeed, Compaction, DocTxProofs, SequenceTheorems

-----------------------------------------------------------------------------
(* Minting a revision. *)

LEMMA MintType ==
  ASSUME TypeOK, NEW d \in Docs, NEW base \in known[d] \cup {NoRev}, NEW new,
         NEW deleted \in BOOLEAN, Mint(d, base, new, deleted)
  PROVE  /\ new \in Rev
         /\ known' \in [Docs -> SUBSET Rev]
         /\ anc' \in [Docs -> [Rev -> SUBSET Rev]]
         /\ dead' \in [Docs -> SUBSET Rev]
         /\ new \in known'[d]
         /\ anc'[d][new] = Lineage(d, base)
         /\ \A c \in Docs : known[c] \subseteq known'[c]
         /\ \A c \in Docs : known'[c] \subseteq known[c] \cup {new}
         /\ \A c \in Docs \ {d} : known'[c] = known[c] /\ anc'[c] = anc[c]
         /\ \A r \in Rev \ {new} : anc'[d][r] = anc[d][r]
         /\ \A c \in Docs : \A r \in known[c] : anc'[c][r] = anc[c][r]
<1>1. Lineage(d, base) \subseteq Rev
  BY DEF Lineage, TypeOK
<1>2. new \in Rev
  BY DEF Mint
<1>3. new \in known[d] => anc[d][new] = Lineage(d, base)
  BY DEF Mint
<1>4. /\ known' = [known EXCEPT ![d] = @ \cup {new}]
      /\ anc' = [anc EXCEPT ![d][new] = Lineage(d, base)]
      /\ dead' = [dead EXCEPT ![d] = IF deleted THEN @ \cup {new} ELSE @]
  BY DEF Mint
<1>5. anc' \in [Docs -> [Rev -> SUBSET Rev]]
  BY <1>1, <1>2, <1>4 DEF TypeOK
<1>6. /\ known' \in [Docs -> SUBSET Rev]
      /\ dead' \in [Docs -> SUBSET Rev]
  BY <1>2, <1>4 DEF TypeOK
<1>7. /\ anc'[d][new] = Lineage(d, base)
      /\ \A c \in Docs \ {d} : anc'[c] = anc[c]
      /\ \A r \in Rev \ {new} : anc'[d][r] = anc[d][r]
  BY <1>2, <1>4 DEF TypeOK
<1>8. /\ new \in known'[d]
      /\ \A c \in Docs : known[c] \subseteq known'[c]
      /\ \A c \in Docs : known'[c] \subseteq known[c] \cup {new}
      /\ \A c \in Docs \ {d} : known'[c] = known[c]
  BY <1>4 DEF TypeOK
<1>9. \A c \in Docs : \A r \in known[c] : anc'[c][r] = anc[c][r]
  BY <1>3, <1>7 DEF TypeOK
<1> QED
  BY <1>2, <1>5, <1>6, <1>7, <1>8, <1>9

LEMMA MintTree ==
  ASSUME TypeOK, TreeOK, NEW d \in Docs, NEW base \in known[d] \cup {NoRev},
         NEW hash \in Hashes, NEW deleted \in BOOLEAN,
         Mint(d, base, NewRev(base, hash), deleted)
  PROVE  TreeOK'
<1> DEFINE new == NewRev(base, hash)
<1> USE MintType
<1>1. new.gen = base.gen + 1
  BY DEF NewRev, NextSequenceRevision
<1>2. \A a \in Lineage(d, base) :
         a \in known[d] /\ anc[d][a] \subseteq Lineage(d, base) /\ a.gen < new.gen
  <2>1. CASE base = NoRev
    BY <2>1 DEF Lineage
  <2>2. CASE base # NoRev
    <3>1. base \in known[d] /\ base \in Rev /\ known[d] \subseteq Rev
      BY <2>2 DEF TypeOK
    <3>2. Lineage(d, base) = {base} \cup anc[d][base]
      BY <2>2 DEF Lineage
    <3>3. \A a \in anc[d][base] :
            a \in known[d] /\ anc[d][a] \subseteq anc[d][base] /\ a.gen < base.gen
      BY <3>1 DEF TreeOK
    <3>4. \A a \in known[d] : a.gen \in Int
      BY <3>1, RevFields
    <3> QED
      BY <3>1, <3>2, <3>3, <3>4, <1>1
  <2> QED
    BY <2>1, <2>2
<1> HIDE DEF new
<1>3. ASSUME NEW c \in Docs, NEW r \in known'[c], NEW a \in anc'[c][r]
      PROVE  a \in known'[c] /\ anc'[c][a] \subseteq anc'[c][r] /\ a.gen < r.gen
  <2>1. CASE r \in known[c]
    <3>1. anc'[c][r] = anc[c][r]
      BY <2>1 DEF new
    <3>2. a \in known[c] /\ anc[c][a] \subseteq anc[c][r] /\ a.gen < r.gen
      BY <2>1, <3>1 DEF TreeOK
    <3>3. anc'[c][a] = anc[c][a] /\ a \in known'[c]
      BY <3>2 DEF new
    <3> QED
      BY <3>1, <3>2, <3>3
  <2>2. CASE r \notin known[c]
    <3>1. c = d /\ r = new
      BY <2>2 DEF new
    <3>2. anc'[c][r] = Lineage(d, base)
      BY <3>1 DEF new
    <3>3. a \in known[d] /\ anc[d][a] \subseteq Lineage(d, base) /\ a.gen < new.gen
      BY <3>2, <1>2
    <3>4. anc'[c][a] = anc[c][a] /\ a \in known'[c]
      BY <3>1, <3>3 DEF new
    <3> QED
      BY <3>1, <3>2, <3>3, <3>4
  <2> QED
    BY <2>1, <2>2
<1> QED
  BY <1>3 DEF TreeOK

-----------------------------------------------------------------------------
(* Steps that leave the buckets alone. *)

(***************************************************************************)
(* The history variables only grow, so what was true of them stays true.   *)
(***************************************************************************)
Grown ==
  /\ known' \in [Docs -> SUBSET Rev]
  /\ anc' \in [Docs -> [Rev -> SUBSET Rev]]
  /\ dead' \in [Docs -> SUBSET Rev]
  /\ \A c \in Docs : known[c] \subseteq known'[c]
  /\ \A c \in Docs : \A r \in known[c] : anc'[c][r] = anc[c][r]
  /\ TreeOK'

LEMMA StoredKnownGrown ==
  ASSUME Grown, NEW b, StoredKnown(b)
  PROVE  \A d \in Docs :
           /\ b.docs[d] # NoDoc => b.docs[d].rev \in known'[d]
           /\ \A r \in leafRevs(b, d) : r \in known'[d] /\ b.leaves[d][r].rev = r
  BY DEF Grown, StoredKnown

LEMMA CoveredGrown ==
  ASSUME Grown, NEW b, StoredKnown(b), NEW d \in Docs, NEW r, Covered(b, d, r)
  PROVE  \E l \in leafRevs(b, d) : r = l \/ r \in anc'[d][l]
<1>1. \A l \in leafRevs(b, d) : anc'[d][l] = anc[d][l]
  BY DEF Grown, StoredKnown
<1> QED
  BY <1>1 DEF Covered

LEMMA GrownKeeps ==
  ASSUME StoreInv, Grown, UNCHANGED <<db, acked>>
  PROVE  /\ \A d \in Docs : acked'[d] \subseteq known'[d]
         /\ StoredKnown(db)' /\ SequencesOK(db)' /\ TreeOK'
<1>1. db' = db /\ acked' = acked
  OBVIOUS
<1>2. \A d \in Docs : acked'[d] \subseteq known'[d]
  BY <1>1 DEF StoreInv, Grown
<1>3. StoredKnown(db)'
  <2>1. StoredKnown(db)
    BY DEF StoreInv
  <2>2. \A d \in Docs :
          /\ db.docs[d] # NoDoc => db.docs[d].rev \in known'[d]
          /\ \A r \in leafRevs(db, d) :
               r \in known'[d] /\ db.leaves[d][r].rev = r
    BY <2>1, StoredKnownGrown
  <2> QED
    BY <1>1, <2>2 DEF StoredKnown
<1>4. SequencesOK(db)'
  BY <1>1 DEF StoreInv, SequencesOK
<1> QED
  BY <1>2, <1>3, <1>4 DEF Grown

LEMMA OldPendKeeps ==
  ASSUME StoreInv, Grown, NEW w \in Writers, NEW p \in pend[w]
  PROVE  LET d == p.op.id
         IN  /\ p.rev \in known'[d]
             /\ p.op.put # NoDoc => p.op.put.rev \in known'[d]
             /\ \A l \in p.op.puts : l.rev \in known'[d]
             /\ \E l \in p.op.puts : l.rev = p.rev
             /\ p.op.dels \subseteq anc'[d][p.rev]
<1>1. p.op.id \in Docs
  BY DEF StoreInv, TypeOK, Pending, OpLog
<1> QED
  BY <1>1 DEF StoreInv, PendOK, Grown

\* The transactions that began meanwhile delete a changes entry their snapshot
\* had.
FreshChg ==
  \A w \in Writers : \A p \in pend'[w] : p \in pend[w] \/ OwnChange(db, p.op)

\* What every step but a commit does.
Began == StoreInv' /\ Grown /\ FreshChg /\ db' = db /\ acked' = acked

LEMMA BeginKeeps ==
  ASSUME StoreInv, Grown, NEW w \in Writers, NEW d \in Docs, NEW op \in OpLog,
         NEW rev \in Rev, NEW edit \in BOOLEAN, NEW base \in Rev \cup {NoRev},
         Begin(w, op, rev, edit, base),
         op.id = d, rev \in known'[d],
         op.put # NoDoc => op.put.rev \in known'[d],
         \A l \in op.puts : l.rev \in known'[d],
         \E l \in op.puts : l.rev = rev,
         op.dels \subseteq anc'[d][rev],
         OwnChange(db, op)
  PROVE  Began
<1> DEFINE new == [op |-> op, rev |-> rev, edit |-> edit, base |-> base]
<1>1. /\ db' = db /\ acked' = acked
      /\ pend' = [pend EXCEPT ![w] = {new}]
  BY DEF Begin
<1>2. /\ \A c \in Docs : acked'[c] \subseteq known'[c]
      /\ StoredKnown(db)' /\ SequencesOK(db)' /\ TreeOK'
  BY <1>1, GrownKeeps
<1>3. TypeOK'
  <2>1. new \in Pending
    BY DEF Pending
  <2>2. overlapped' \in BOOLEAN
    <3> DEFINE others == \E v \in Writers : pend[v] # {}
    <3>1. overlapped' = (overlapped \/ others)
      BY DEF Begin
    <3> HIDE DEF others
    <3> QED
      BY <3>1
  <2> QED
    BY <1>1, <2>1, <2>2 DEF StoreInv, TypeOK, Grown
<1>4. \A v \in Writers : \A p \in pend'[v] : p \in pend[v] \/ p = new
  BY <1>1 DEF StoreInv, TypeOK
<1>5. new.op = op /\ new.rev = rev
  OBVIOUS
<1> HIDE DEF new
<1>6. PendOK'
  <2>1. ASSUME NEW v \in Writers, NEW p \in pend'[v]
        PROVE  LET c == p.op.id
               IN  /\ p.rev \in known'[c]
                   /\ p.op.put # NoDoc => p.op.put.rev \in known'[c]
                   /\ \A l \in p.op.puts : l.rev \in known'[c]
                   /\ \E l \in p.op.puts : l.rev = p.rev
                   /\ p.op.dels \subseteq anc'[c][p.rev]
    <3>1. CASE p \in pend[v]
      BY <3>1, OldPendKeeps
    <3>2. CASE p = new
      BY <1>5, <3>2
    <3> QED
      BY <1>4, <3>1, <3>2
  <2> QED
    BY <2>1 DEF PendOK
<1>7. FreshChg
  BY <1>4, <1>5 DEF FreshChg
<1> QED
  BY <1>1, <1>2, <1>3, <1>6, <1>7 DEF StoreInv, Began

LEMMA PeerEditKeeps ==
  ASSUME StoreInv, NEW d \in Docs, NEW base \in known[d] \cup {NoRev},
         NEW hash \in Hashes, NEW deleted \in BOOLEAN,
         PeerEdit(d, base, hash, deleted)
  PROVE  Began
<1>1. Grown
  BY MintType, MintTree DEF PeerEdit, StoreInv, Grown
<1>2. UNCHANGED <<db, pend, acked, overlapped>>
  BY DEF PeerEdit
<1>3. /\ \A c \in Docs : acked'[c] \subseteq known'[c]
      /\ StoredKnown(db)' /\ SequencesOK(db)' /\ TreeOK'
  BY <1>1, <1>2, GrownKeeps
<1>4. TypeOK'
  BY <1>1, <1>2 DEF StoreInv, TypeOK, Grown
<1>5. PendOK'
  BY <1>1, <1>2, OldPendKeeps DEF PendOK
<1>6. FreshChg
  BY <1>2 DEF FreshChg
<1> QED
  BY <1>1, <1>2, <1>3, <1>4, <1>5, <1>6 DEF StoreInv, Began

LEMMA BeginPutKeeps ==
  ASSUME StoreInv, NEW w \in Writers, NEW d \in Docs,
         NEW base \in known[d] \cup {NoRev},
         NEW hash \in Hashes, NEW deleted \in BOOLEAN,
         BeginPut(w, d, base, hash, deleted)
  PROVE  Began
<1> DEFINE new == NewRev(base, hash)
           op == PutDocument(db, d, new, deleted)
<1>1. /\ Mint(d, base, new, deleted)
      /\ Begin(w, op, new, TRUE, base)
      /\ ValidUpdateRevision(db.docs[d], base)
  BY DEF BeginPut
<1>2. Grown
  BY <1>1, MintType, MintTree DEF StoreInv, Grown
<1>3. /\ new \in Rev /\ new \in known'[d]
      /\ anc'[d][new] = Lineage(d, base)
  BY <1>1, MintType DEF StoreInv
<1> HIDE DEF new
<1>4. db \in Buckets
  BY DEF StoreInv, TypeOK
<1>5. /\ op \in OpLog /\ op.id = d
      /\ op.put \in Document /\ PutsWinner(op) /\ op.put.rev = new
      /\ op.dels = OldWinner(db, d)
      /\ OwnChange(db, op)
  BY <1>3, <1>4, PutDocumentLog
<1> HIDE DEF op
<1>6. op.dels \subseteq anc'[d][new]
  <2>1. CASE db.docs[d] = NoDoc
    BY <1>5, <2>1 DEF OldWinner
  <2>2. CASE db.docs[d] # NoDoc
    <3>1. base = db.docs[d].rev
      BY <1>1, <2>2 DEF ValidUpdateRevision
    <3>2. db.docs[d] \in Document
      BY <1>4, <2>2 DEF Buckets
    <3> QED
      BY <1>3, <1>5, <3>1, <3>2, DocIsNotNil DEF Lineage, OldWinner
  <2> QED
    BY <2>1, <2>2
<1>7. base \in Rev \cup {NoRev}
  BY DEF StoreInv, TypeOK
<1>8. /\ op \in OpLog /\ op.id = d /\ OwnChange(db, op)
      /\ op.put.rev \in known'[d]
      /\ \A l \in op.puts : l.rev \in known'[d]
      /\ \E l \in op.puts : l.rev = new
  BY <1>3, <1>5 DEF PutsWinner
<1> QED
  BY <1>1, <1>2, <1>3, <1>6, <1>7, <1>8, BeginKeeps

LEMMA BeginDeleteKeeps ==
  ASSUME StoreInv, NEW w \in Writers, NEW d \in Docs, NEW rev \in known[d],
         NEW hash \in Hashes, BeginDelete(w, d, rev, hash)
  PROVE  Began
<1> DEFINE new == NewRev(rev, hash)
           op == DeleteDocument(db, d, rev, new)
<1>1. /\ Mint(d, rev, new, TRUE)
      /\ Begin(w, op, new, TRUE, rev)
      /\ db.docs[d] # NoDoc
      /\ rev = db.docs[d].rev \/ rev \in leafRevs(db, d)
  BY DEF BeginDelete
<1>2. Grown
  <2> DEFINE deleted == TRUE
  <2>1. Mint(d, rev, new, deleted) /\ deleted \in BOOLEAN
    BY <1>1
  <2> HIDE DEF deleted
  <2> QED
    BY <2>1, MintType, MintTree DEF StoreInv, Grown
<1>3. /\ new \in Rev /\ new \in known'[d]
      /\ anc'[d][new] = Lineage(d, rev)
  <2> DEFINE deleted == TRUE
  <2>1. Mint(d, rev, new, deleted) /\ deleted \in BOOLEAN
    BY <1>1
  <2> HIDE DEF deleted
  <2>2. rev \in known[d] \cup {NoRev}
    OBVIOUS
  <2> QED
    BY <2>1, <2>2, MintType DEF StoreInv
<1> HIDE DEF new, op
<1>4. db \in Buckets /\ rev \in Rev /\ rev # NoRev
  BY RevFields DEF StoreInv, TypeOK
<1>5. rev \in anc'[d][new]
  BY <1>3, <1>4 DEF Lineage
<1>6. /\ op \in OpLog /\ op.id = d
      /\ op.dels = {rev} /\ OwnChange(db, op)
      /\ \A l \in op.puts : l.rev = new
      /\ op.puts # {}
      /\ op.put # NoDoc => op.put.rev = new \/ op.put.rev \in known[d]
  <2>1. CASE rev = db.docs[d].rev
    <3> DEFINE deleted == TRUE
    <3>1. op = PutDocument(db, d, new, deleted)
      BY <2>1 DEF DeleteDocument, op
    <3>2. deleted \in BOOLEAN
      OBVIOUS
    <3>3. new \in Rev
      BY <1>3
    <3>4. db \in Buckets
      BY <1>4
    <3> HIDE DEF deleted
    <3>5. /\ op \in OpLog /\ op.id = d
          /\ PutsWinner(op) /\ op.put.rev = new
          /\ op.dels = OldWinner(db, d)
          /\ OwnChange(db, op)
      BY <3>1, <3>2, <3>3, <3>4, PutDocumentLog
    <3> QED
      BY <1>1, <2>1, <3>5 DEF PutsWinner, OldWinner
  <2>2. CASE rev # db.docs[d].rev
    <3>1. op = DeleteLeaf(db, d, rev, new) /\ rev \in leafRevs(db, d)
      BY <1>1, <2>2 DEF DeleteDocument, op
    <3>2. op.put # NoDoc => op.put.rev = new \/ op.put.rev \in known[d]
      BY <1>3, <1>4, <3>1, DeleteLeafPut DEF StoreInv, StoredKnown
    <3> QED
      BY <1>3, <1>4, <3>1, <3>2, DeleteLeafOp
  <2> QED
    BY <2>1, <2>2
<1>7. known[d] \subseteq known'[d]
  BY <1>2 DEF Grown
<1>8. op.dels \subseteq anc'[d][new] /\ \E l \in op.puts : l.rev = new
  BY <1>5, <1>6
<1>9. /\ op.put # NoDoc => op.put.rev \in known'[d]
      /\ \A l \in op.puts : l.rev \in known'[d]
  BY <1>3, <1>6, <1>7
<1> DEFINE edit == TRUE
<1>10. Begin(w, op, new, edit, rev) /\ edit \in BOOLEAN
  BY <1>1
<1> HIDE DEF edit
<1> QED
  BY <1>10, <1>2, <1>3, <1>4, <1>6, <1>8, <1>9, BeginKeeps

LEMMA PeerHistoryType ==
  ASSUME TypeOK, NEW d \in Docs, NEW r \in known[d],
         NEW h \in PeerHistories(d, r)
  PROVE  /\ h \in Seq(Rev) /\ h # <<>> /\ h[1] = r
         /\ \A i \in 2..Len(h) : h[i] \in anc[d][r]
<1>1. r \in Rev /\ anc[d][r] \subseteq Rev
  BY DEF TypeOK
<1>2. h \in BoundedSeq({r} \cup anc[d][r], HistCap)
  BY DEF PeerHistories
<1>3. PICK n \in 0..HistCap : h \in [1..n -> {r} \cup anc[d][r]]
  BY <1>2, DocTxAssumption DEF BoundedSeq, SeqOf
<1>4. n \in Nat
  BY <1>3, DocTxAssumption
<1>5. h \in [1..n -> Rev]
  BY <1>1, <1>3
<1> QED
  BY <1>4, <1>5 DEF PeerHistories

LEMMA BeginReplicateKeeps ==
  ASSUME StoreInv, NEW w \in Writers, NEW d \in Docs, NEW r \in known[d],
         NEW h \in PeerHistories(d, r), BeginReplicate(w, d, r, h)
  PROVE  Began
<1> DEFINE doc == [rev |-> r, deleted |-> r \in dead[d], hist |-> h]
           op == PutDocumentForReplication(db, d, doc)
           edit == FALSE
<1>1. Begin(w, op, r, edit, NoRev) /\ UNCHANGED <<known, anc, dead>>
  BY DEF BeginReplicate
<1>2. Grown
  BY <1>1 DEF StoreInv, TypeOK, Grown, TreeOK
<1>3. db \in Buckets /\ r \in Rev /\ anc[d][r] \subseteq Rev
  BY DEF StoreInv, TypeOK
<1>4. /\ h \in Seq(Rev) /\ h # <<>>
      /\ \A i \in 2..Len(h) : h[i] \in anc[d][r]
  BY PeerHistoryType DEF StoreInv
<1>5. doc \in Document /\ doc.hist = h /\ doc.rev = r
  BY <1>3, <1>4 DEF Document
<1>6. ToSet(Tail(doc.hist)) \subseteq anc[d][r]
  BY <1>4, <1>5 DEF ToSet
<1> HIDE DEF doc, op, edit
<1>7. /\ op \in OpLog /\ op.id = d
      /\ doc \in op.puts
      /\ \A l \in op.puts :
           \/ l = doc
           \/ l.rev = db.docs[d].rev /\ l.rev \notin leafRevs(db, d)
      /\ op.dels \subseteq ToSet(Tail(doc.hist))
      /\ OwnChange(db, op)
  BY <1>3, <1>4, <1>5, ReplicationOp DEF op
<1>8. op.put # NoDoc => op.put.rev \in known[d]
  <2>1. op.put # NoDoc =>
          op.put = doc \/ \E s \in leafRevs(db, d) : op.put = db.leaves[d][s]
    BY <1>3, <1>5, ReplicationPut DEF op
  <2> QED
    BY <1>5, <2>1 DEF StoreInv, StoredKnown
<1>9. ASSUME NEW l \in op.puts
      PROVE  l.rev \in known[d]
  <2>1. CASE l = doc
    BY <1>5, <2>1
  <2>2. CASE l # doc
    <3>1. l \in Document /\ l.rev = db.docs[d].rev
      BY <1>7, <2>2 DEF OpLog
    <3>2. db.docs[d] # NoDoc
      BY <3>1, DocIsNotNil, NilDocument
    <3> QED
      BY <3>1, <3>2 DEF StoreInv, StoredKnown
  <2> QED
    BY <2>1, <2>2
<1>10. \E l \in op.puts : l.rev = r
  BY <1>5, <1>7
<1>11. op.dels \subseteq anc'[d][r] /\ known' = known
  BY <1>1, <1>6, <1>7
<1>12. edit \in BOOLEAN /\ NoRev \in Rev \cup {NoRev}
  BY DEF edit
<1> QED
  BY <1>1, <1>2, <1>3, <1>7, <1>8, <1>9, <1>10, <1>11, <1>12, BeginKeeps

-----------------------------------------------------------------------------
(* Applying a log. *)

LEMMA CommitFields ==
  ASSUME db \in Buckets, NEW w \in Writers, NEW p \in pend[w], p.op \in OpLog,
         Commit(w, p)
  PROVE  /\ db'.leaves = [db.leaves EXCEPT ![p.op.id] =
                           ApplyLeaves(db.leaves[p.op.id], p.op)]
         /\ p.op.put = NoDoc =>
              /\ db'.docs = db.docs /\ db'.changes = db.changes
              /\ db'.changesSeq = db.changesSeq /\ db'.inval = db.inval
              /\ db'.invalSeq = db.invalSeq /\ db'.deleted = db.deleted
         /\ p.op.put # NoDoc =>
              /\ db'.docs = [db.docs EXCEPT ![p.op.id] = p.op.put]
              /\ db'.changes = {e \in db.changes : e.seq # p.op.chg}
                   \cup {[seq |-> db.changesSeq + 1, id |-> p.op.id]}
              /\ db'.changesSeq = db.changesSeq + 1
              /\ db'.inval = [db.inval EXCEPT ![p.op.id] = db.invalSeq + 1]
              /\ db'.invalSeq = db.invalSeq + 1
              /\ db'.deleted =
                   (IF p.op.undel THEN db.deleted \ {p.op.id} ELSE db.deleted)
                     \cup (IF p.op.put.deleted THEN {p.op.id} ELSE {})
<1>1. db' = Apply(db, p.op)
  BY DEF Commit
<1> QED
  BY <1>1 DEF Apply, ApplyIndices, Buckets

LEMMA CommitType ==
  ASSUME StoreInv, NEW w \in Writers, NEW p \in pend[w], Commit(w, p)
  PROVE  /\ p \in Pending /\ p.op \in OpLog /\ p.op.id \in Docs
         /\ db \in Buckets
         /\ TypeOK'
<1>1. /\ p \in Pending /\ p.op \in OpLog /\ p.op.id \in Docs /\ p.rev \in Rev
      /\ db \in Buckets
  BY DEF StoreInv, TypeOK, Pending, OpLog
<1>2. db' = Apply(db, p.op) /\ db.changesSeq < MaxSeq
  BY DEF Commit
<1>3. \A r \in Rev : ApplyLeaves(db.leaves[p.op.id], p.op)
                       \in [Rev -> Document \cup {NoDoc}]
  BY <1>1, ApplyLeavesAt DEF Buckets
<1>4. ApplyLeaves(db.leaves[p.op.id], p.op) \in [Rev -> Document \cup {NoDoc}]
  <2>1. CASE Rev = {}
    BY <2>1 DEF ApplyLeaves
  <2>2. CASE Rev # {}
    BY <1>3, <2>2
  <2> QED
    BY <2>1, <2>2
<1>5. db'.leaves \in [Docs -> [Rev -> Document \cup {NoDoc}]]
  <2>1. db'.leaves = [db.leaves EXCEPT ![p.op.id] =
                        ApplyLeaves(db.leaves[p.op.id], p.op)]
    BY <1>1, CommitFields
  <2>2. db.leaves \in [Docs -> [Rev -> Document \cup {NoDoc}]]
    BY <1>1 DEF Buckets
  <2> QED
    BY <1>1, <1>4, <2>1, <2>2
<1>6. /\ db.changesSeq + 1 \in 1..MaxSeq
      /\ db.invalSeq = db.changesSeq
  BY <1>1, <1>2, DocTxAssumption DEF Buckets, StoreInv, SequencesOK
<1>7. db' \in Buckets
  <2>1. CASE p.op.put = NoDoc
    <3>1. db' = [db EXCEPT !.leaves = db'.leaves]
      BY <1>1, <1>2, <2>1 DEF Apply, Buckets
    <3> QED
      BY <1>1, <1>5, <3>1 DEF Buckets
  <2>2. CASE p.op.put # NoDoc
    <3>1. p.op.put \in Document
      BY <1>1, <2>2 DEF OpLog
    <3>2. db' = [docs |-> db'.docs, leaves |-> db'.leaves,
                 changes |-> db'.changes, changesSeq |-> db'.changesSeq,
                 inval |-> db'.inval, invalSeq |-> db'.invalSeq,
                 deleted |-> db'.deleted]
      BY <1>1, <1>2, <2>2 DEF Apply, ApplyIndices, Buckets
    <3>3. db'.docs \in [Docs -> Document \cup {NoDoc}]
      <4>1. db'.docs = [db.docs EXCEPT ![p.op.id] = p.op.put]
        BY <1>1, <2>2, CommitFields
      <4>2. db.docs \in [Docs -> Document \cup {NoDoc}]
        BY <1>1 DEF Buckets
      <4> QED
        BY <1>1, <3>1, <4>1, <4>2
    <3>4. db'.changes \subseteq Change
      <4>1. db'.changes = {e \in db.changes : e.seq # p.op.chg}
              \cup {[seq |-> db.changesSeq + 1, id |-> p.op.id]}
        BY <1>1, <2>2, CommitFields
      <4>2. [seq |-> db.changesSeq + 1, id |-> p.op.id] \in Change
        BY <1>1, <1>6 DEF Change
      <4>3. db.changes \subseteq Change
        BY <1>1 DEF Buckets
      <4> QED
        BY <4>1, <4>2, <4>3
    <3>5. db'.changesSeq \in 0..MaxSeq /\ db'.invalSeq \in 0..MaxSeq
      <4>1. db'.changesSeq = db.changesSeq + 1 /\ db'.invalSeq = db.invalSeq + 1
        BY <1>1, <2>2, CommitFields
      <4> QED
        BY <1>6, <4>1, DocTxAssumption
    <3>6. db'.inval \in [Docs -> 0..MaxSeq]
      <4>1. db'.inval = [db.inval EXCEPT ![p.op.id] = db.invalSeq + 1]
        BY <1>1, <2>2, CommitFields
      <4>2. db.inval \in [Docs -> 0..MaxSeq] /\ db.invalSeq + 1 \in 0..MaxSeq
        BY <1>1, <1>6, DocTxAssumption DEF Buckets
      <4> QED
        BY <1>1, <4>1, <4>2
    <3>7. db'.deleted \subseteq Docs
      <4>1. db'.deleted \subseteq db.deleted \cup {p.op.id}
        BY <1>1, <2>2, CommitFields
      <4> QED
        BY <1>1, <4>1 DEF Buckets
    <3> QED
      BY <1>5, <3>2, <3>3, <3>4, <3>5, <3>6, <3>7 DEF Buckets
  <2> QED
    BY <2>1, <2>2
<1> QED
  BY <1>1, <1>7 DEF Commit, StoreInv, TypeOK

LEMMA CommitLeaves ==
  ASSUME StoreInv, NEW w \in Writers, NEW p \in pend[w], Commit(w, p)
  PROVE  /\ \A c \in Docs \ {p.op.id} : db'.leaves[c] = db.leaves[c]
         /\ \A r \in Rev :
              r \in leafRevs(db', p.op.id) <=>
                /\ r \notin p.op.dels
                /\ r \in leafRevs(db, p.op.id) \/ \E l \in p.op.puts : l.rev = r
         /\ \A r \in leafRevs(db', p.op.id) :
              \/ db'.leaves[p.op.id][r].rev = r
              \/ /\ r \in leafRevs(db, p.op.id)
                 /\ db'.leaves[p.op.id][r] = db.leaves[p.op.id][r]
<1> DEFINE d == p.op.id
           f == db.leaves[d]
<1>1. p.op \in OpLog /\ d \in Docs /\ db \in Buckets
  BY CommitType
<1>2. db.leaves \in [Docs -> [Rev -> Document \cup {NoDoc}]]
  BY <1>1 DEF Buckets
<1>3. f \in [Rev -> Document \cup {NoDoc}]
  BY <1>1, <1>2
<1>4. db'.leaves = [db.leaves EXCEPT ![d] = ApplyLeaves(f, p.op)]
  BY <1>1, CommitFields
<1>5. db'.leaves[d] = ApplyLeaves(f, p.op)
  BY <1>1, <1>2, <1>4
<1>6. \A c \in Docs \ {d} : db'.leaves[c] = db.leaves[c]
  BY <1>2, <1>4
<1>7. ASSUME NEW r \in Rev
      PROVE  /\ r \in leafRevs(db', d) <=> ApplyLeaves(f, p.op)[r] # NoDoc
             /\ r \in leafRevs(db, d) <=> f[r] # NoDoc
  BY <1>5 DEF leafRevs
<1> HIDE DEF f
<1>8. ASSUME NEW r \in Rev
      PROVE  r \in leafRevs(db', d) <=>
               /\ r \notin p.op.dels
               /\ r \in leafRevs(db, d) \/ \E l \in p.op.puts : l.rev = r
  BY <1>1, <1>3, <1>7, ApplyLeavesAt
<1>9. ASSUME NEW r \in leafRevs(db', d)
      PROVE  \/ db'.leaves[d][r].rev = r
             \/ r \in leafRevs(db, d) /\ db'.leaves[d][r] = f[r]
  <2>1. r \in Rev
    BY DEF leafRevs
  <2>2. r \notin p.op.dels
    BY <1>8, <2>1
  <2> QED
    BY <1>1, <1>3, <1>5, <1>8, <2>1, <2>2, ApplyLeavesAt
<1> QED
  BY <1>6, <1>8, <1>9 DEF f

LEMMA CommitKeepsKnown ==
  ASSUME StoreInv, NEW w \in Writers, NEW p \in pend[w], Commit(w, p)
  PROVE  /\ \A c \in Docs : acked'[c] \subseteq known'[c]
         /\ StoredKnown(db)'
<1> DEFINE d == p.op.id
<1>1. p.op \in OpLog /\ d \in Docs /\ db \in Buckets
  BY CommitType
<1>2. /\ p.rev \in known[d]
      /\ p.op.put # NoDoc => p.op.put.rev \in known[d]
      /\ \A l \in p.op.puts : l.rev \in known[d]
  BY DEF StoreInv, PendOK
<1>3. known' = known /\ acked' = [acked EXCEPT ![d] = @ \cup {p.rev}]
  BY DEF Commit
<1>4. \A c \in Docs : acked'[c] \subseteq known'[c]
  BY <1>1, <1>2, <1>3 DEF StoreInv, TypeOK
<1>5. ASSUME NEW c \in Docs, db'.docs[c] # NoDoc
      PROVE  db'.docs[c].rev \in known'[c]
  <2>1. db.docs[c] # NoDoc => db.docs[c].rev \in known[c]
    BY DEF StoreInv, StoredKnown
  <2>2. CASE p.op.put = NoDoc
    <3>1. db'.docs = db.docs
      BY <1>1, <2>2, CommitFields
    <3> QED
      BY <1>3, <1>5, <2>1, <3>1
  <2>3. CASE p.op.put # NoDoc
    <3>1. db'.docs = [db.docs EXCEPT ![d] = p.op.put]
      BY <1>1, <2>3, CommitFields
    <3>2. db.docs \in [Docs -> Document \cup {NoDoc}]
      BY <1>1 DEF Buckets
    <3> QED
      BY <1>1, <1>2, <1>3, <1>5, <2>1, <2>3, <3>1, <3>2
  <2> QED
    BY <2>2, <2>3
<1>6. ASSUME NEW c \in Docs, NEW r \in leafRevs(db', c)
      PROVE  r \in known'[c] /\ db'.leaves[c][r].rev = r
  <2>1. \A s \in leafRevs(db, c) : s \in known[c] /\ db.leaves[c][s].rev = s
    BY DEF StoreInv, StoredKnown
  <2>2. CASE c # d
    <3>1. db'.leaves[c] = db.leaves[c]
      BY <2>2, CommitLeaves
    <3> QED
      BY <1>3, <2>1, <3>1 DEF leafRevs
  <2>3. CASE c = d
    <3>1. r \in Rev
      BY DEF leafRevs
    <3>2. r \in leafRevs(db, d) \/ \E l \in p.op.puts : l.rev = r
      BY <2>3, <3>1, CommitLeaves
    <3>3. \/ db'.leaves[d][r].rev = r
          \/ r \in leafRevs(db, d) /\ db'.leaves[d][r] = db.leaves[d][r]
      BY <2>3, CommitLeaves
    <3> QED
      BY <1>2, <1>3, <2>1, <2>3, <3>2, <3>3
  <2> QED
    BY <2>2, <2>3
<1> QED
  BY <1>4, <1>5, <1>6 DEF StoredKnown

LEMMA CommitKeepsSequences ==
  ASSUME StoreInv, NEW w \in Writers, NEW p \in pend[w], Commit(w, p)
  PROVE  SequencesOK(db)'
<1> DEFINE d == p.op.id
           new == [seq |-> db.changesSeq + 1, id |-> d]
<1>1. p.op \in OpLog /\ d \in Docs /\ db \in Buckets
  BY CommitType
<1>2. /\ db.changesSeq \in Nat /\ db.changesSeq = db.invalSeq
      /\ \A e \in db.changes : e.seq <= db.changesSeq /\ e.seq \in Nat
      /\ \A e, f \in db.changes : e.seq = f.seq => e = f
  BY <1>1, DocTxAssumption DEF StoreInv, SequencesOK, Buckets, Change
<1>3. CASE p.op.put = NoDoc
  <2>1. /\ db'.changes = db.changes /\ db'.changesSeq = db.changesSeq
        /\ db'.invalSeq = db.invalSeq
    BY <1>1, <1>3, CommitFields
  <2> QED
    BY <1>2, <2>1 DEF SequencesOK
<1>4. CASE p.op.put # NoDoc
  <2>1. /\ db'.changes = {e \in db.changes : e.seq # p.op.chg} \cup {new}
        /\ db'.changesSeq = db.changesSeq + 1
        /\ db'.invalSeq = db.invalSeq + 1
    BY <1>1, <1>4, CommitFields
  <2> QED
    BY <1>2, <2>1 DEF SequencesOK
<1> QED
  BY <1>3, <1>4

(***************************************************************************)
(* The new entry takes a sequence nobody has; the one removed was the      *)
(* document's own, so no other document loses its place in the feed.       *)
(***************************************************************************)
LEMMA CommitKeepsFeed ==
  ASSUME IInv, NEW w \in Writers, NEW p \in pend[w], Commit(w, p)
  PROVE  FeedCovers'
<1> DEFINE d == p.op.id
           new == [seq |-> db.changesSeq + 1, id |-> d]
<1>1. p.op \in OpLog /\ d \in Docs /\ db \in Buckets
  BY CommitType DEF IInv
<1>2. /\ db.changesSeq \in Nat /\ db.changesSeq = db.invalSeq
      /\ \A e \in db.changes : e.seq <= db.changesSeq /\ e.seq \in Nat
  BY <1>1, DocTxAssumption DEF IInv, StoreInv, SequencesOK, Buckets, Change
<1>3. \A c \in Docs :
        /\ db.inval[c] = 0 <=> db.docs[c] = NoDoc
        /\ db.inval[c] # 0 => [seq |-> db.inval[c], id |-> c] \in db.changes
  BY DEF IInv, FeedCovers
<1>4. \A e \in db.changes : e.seq = p.op.chg => e.id = d
  BY DEF IInv, PendChgOK, ChgOwn
<1>5. CASE p.op.put = NoDoc
  <2>1. /\ db'.docs = db.docs /\ db'.changes = db.changes
        /\ db'.changesSeq = db.changesSeq /\ db'.inval = db.inval
        /\ db'.invalSeq = db.invalSeq
    BY <1>1, <1>5, CommitFields
  <2> QED
    BY <2>1 DEF IInv, FeedCovers
<1>6. CASE p.op.put # NoDoc
  <2>1. /\ db'.docs = [db.docs EXCEPT ![d] = p.op.put]
        /\ db'.changes = {e \in db.changes : e.seq # p.op.chg} \cup {new}
        /\ db'.changesSeq = db.changesSeq + 1
        /\ db'.inval = [db.inval EXCEPT ![d] = db.invalSeq + 1]
        /\ db'.invalSeq = db.invalSeq + 1
    BY <1>1, <1>6, CommitFields
  <2>2. /\ db.docs \in [Docs -> Document \cup {NoDoc}]
        /\ db.inval \in [Docs -> 0..MaxSeq]
    BY <1>1 DEF Buckets
  <2>3. ASSUME NEW c \in Docs
        PROVE  /\ db'.inval[c] = 0 <=> db'.docs[c] = NoDoc
               /\ db'.inval[c] # 0 =>
                    [seq |-> db'.inval[c], id |-> c] \in db'.changes
    <3>1. CASE c = d
      <4>1. db'.inval[c] = db.changesSeq + 1 /\ db'.docs[c] = p.op.put
        BY <1>2, <2>1, <2>2, <3>1
      <4> QED
        BY <1>2, <1>6, <2>1, <3>1, <4>1
    <3>2. CASE c # d
      <4>1. db'.inval[c] = db.inval[c] /\ db'.docs[c] = db.docs[c]
        BY <2>1, <2>2, <3>2
      <4>2. ASSUME db.inval[c] # 0
            PROVE  [seq |-> db.inval[c], id |-> c] \in db'.changes
        <5> DEFINE e == [seq |-> db.inval[c], id |-> c]
        <5>1. e \in db.changes /\ e.id = c
          BY <1>3, <4>2
        <5>2. e.seq # p.op.chg
          BY <1>4, <3>2, <5>1
        <5> QED
          BY <2>1, <5>1, <5>2
      <4> QED
        BY <1>3, <4>1, <4>2
    <3> QED
      BY <3>1, <3>2
  <2> QED
    BY <2>3 DEF FeedCovers
<1> QED
  BY <1>5, <1>6

(***************************************************************************)
(* Every leaf the log removes is an ancestor of the leaf it writes, so the *)
(* new leaf covers whatever the removed ones covered.                      *)
(***************************************************************************)
LEMMA CommitCovers ==
  ASSUME StoreInv, NEW w \in Writers, NEW p \in pend[w], Commit(w, p),
         NEW c \in Docs, NEW r, Covered(db, c, r) \/ (c = p.op.id /\ r = p.rev)
  PROVE  Covered(db, c, r)'
<1> DEFINE d == p.op.id
<1>1. p.op \in OpLog /\ d \in Docs /\ db \in Buckets
  BY CommitType
<1>2. /\ p.rev \in known[d] /\ p.op.dels \subseteq anc[d][p.rev]
      /\ \E l \in p.op.puts : l.rev = p.rev
  BY DEF StoreInv, PendOK
<1>3. anc' = anc
  BY DEF Commit
<1>4. known[d] \subseteq Rev
  BY <1>1 DEF StoreInv, TypeOK
<1>5. \A a \in anc[d][p.rev] :
        a \in known[d] /\ anc[d][a] \subseteq anc[d][p.rev] /\ a.gen < p.rev.gen
  BY <1>1, <1>2 DEF StoreInv, TreeOK
<1>6. p.rev \in leafRevs(db', d)
  <2>1. p.rev.gen \in Int
    BY <1>2, <1>4, RevFields
  <2>2. p.rev \notin p.op.dels
    BY <1>2, <1>5, <2>1
  <2> QED
    BY <1>2, <1>4, <2>2, CommitLeaves
<1>7. \E l \in leafRevs(db', c) : r = l \/ r \in anc'[c][l]
  <2>1. CASE c # d
    <3>1. leafRevs(db', c) = leafRevs(db, c)
      BY <2>1, CommitLeaves DEF leafRevs
    <3> QED
      BY <1>3, <2>1, <3>1 DEF Covered
  <2>2. CASE c = d /\ r = p.rev
    BY <1>6, <2>2
  <2>3. CASE c = d /\ r # p.rev
    <3>1. PICK l \in leafRevs(db, d) : r = l \/ r \in anc[d][l]
      BY <2>3 DEF Covered
    <3>2. CASE l \in p.op.dels
      <4>1. r \in anc[d][p.rev]
        BY <1>2, <1>5, <3>1, <3>2
      <4> QED
        BY <1>3, <1>6, <2>3, <4>1
    <3>3. CASE l \notin p.op.dels
      <4>1. l \in leafRevs(db', d)
        BY <3>3, CommitLeaves DEF leafRevs
      <4> QED
        BY <1>3, <2>3, <3>1, <4>1
    <3> QED
      BY <3>2, <3>3
  <2> QED
    BY <2>1, <2>2, <2>3
<1> QED
  BY <1>7 DEF Covered

LEMMA CommitAcks ==
  ASSUME StoreInv, NEW w \in Writers, NEW p \in pend[w], Commit(w, p),
         NEW c \in Docs, NEW r \in acked'[c]
  PROVE  r \in acked[c] \/ (c = p.op.id /\ r = p.rev)
  BY DEF Commit, StoreInv, TypeOK

LEMMA CommitKeepsPend ==
  ASSUME StoreInv, NEW w \in Writers, NEW p \in pend[w], Commit(w, p)
  PROVE  PendOK'
<1>1. /\ pend' = [pend EXCEPT ![w] = {}]
      /\ known' = known /\ anc' = anc
      /\ pend \in [Writers -> SUBSET Pending]
  BY DEF Commit, StoreInv, TypeOK
<1>2. ASSUME NEW v \in Writers, NEW q \in pend'[v]
      PROVE  LET c == q.op.id
             IN  /\ q.rev \in known'[c]
                 /\ q.op.put # NoDoc => q.op.put.rev \in known'[c]
                 /\ \A l \in q.op.puts : l.rev \in known'[c]
                 /\ \E l \in q.op.puts : l.rev = q.rev
                 /\ q.op.dels \subseteq anc'[c][q.rev]
  <2>1. q \in pend[v]
    BY <1>1
  <2> QED
    BY <1>1, <2>1 DEF StoreInv, PendOK
<1> QED
  BY <1>2 DEF PendOK

LEMMA CommitKeepsChg ==
  ASSUME IInv, NEW w \in Writers, NEW p \in pend[w], Commit(w, p)
  PROVE  PendChgOK'
<1>1. /\ pend' = [pend EXCEPT ![w] = {}]
      /\ pend \in [Writers -> SUBSET Pending]
  BY DEF Commit, IInv, StoreInv, TypeOK
<1>2. p.op \in OpLog /\ p.op.id \in Docs /\ db \in Buckets
  BY CommitType DEF IInv
<1>3. ASSUME NEW v \in Writers, NEW q \in pend'[v]
      PROVE  /\ q.op.chg <= db'.changesSeq
             /\ \A e \in db'.changes : e.seq = q.op.chg => e.id = q.op.id
  <2>1. q \in pend[v]
    BY <1>1
  <2>2. /\ q.op.chg <= db.changesSeq
        /\ \A e \in db.changes : e.seq = q.op.chg => e.id = q.op.id
    BY <2>1 DEF IInv, PendChgOK, ChgOwn
  <2>3. q.op.chg \in Nat /\ db.changesSeq \in Nat
    BY <1>1, <1>2, <2>1, DocTxAssumption DEF Pending, OpLog, Buckets
  <2>4. CASE p.op.put = NoDoc
    BY <1>2, <2>2, <2>4, CommitFields
  <2>5. CASE p.op.put # NoDoc
    <3>1. /\ db'.changes = {e \in db.changes : e.seq # p.op.chg}
               \cup {[seq |-> db.changesSeq + 1, id |-> p.op.id]}
          /\ db'.changesSeq = db.changesSeq + 1
      BY <1>2, <2>5, CommitFields
    <3> QED
      BY <2>2, <2>3, <3>1
  <2> QED
    BY <2>4, <2>5
<1> QED
  BY <1>3 DEF PendChgOK, ChgOwn

LEMMA CommitKeepsStore ==
  ASSUME StoreInv, NEW w \in Writers, NEW p \in pend[w], Commit(w, p)
  PROVE  StoreInv'
<1>1. TreeOK'
  BY DEF Commit, StoreInv, TreeOK
<1> QED
  BY <1>1, CommitType, CommitKeepsKnown, CommitKeepsSequences, CommitKeepsPend
     DEF StoreInv

LEMMA CommitKeeps ==
  ASSUME IInv, NEW w \in Writers, NEW p \in pend[w], Commit(w, p)
  PROVE  IInv'
<1>1. StoreInv
  BY DEF IInv
<1>2. AckedNotLost'
  <2>1. ASSUME NEW c \in Docs, NEW r \in acked'[c]
        PROVE  Covered(db, c, r)'
    <3>1. Covered(db, c, r) \/ (c = p.op.id /\ r = p.rev)
      BY <1>1, CommitAcks DEF IInv, AckedNotLost
    <3> QED
      BY <1>1, <3>1, CommitCovers
  <2> QED
    BY <2>1 DEF AckedNotLost
<1> QED
  BY <1>1, <1>2, CommitKeepsStore, CommitKeepsFeed, CommitKeepsChg DEF IInv

-----------------------------------------------------------------------------
(* The theorems. *)

LEMMA InitIInv == Init => IInv
<1> SUFFICES ASSUME Init PROVE IInv
  OBVIOUS
<1>1. 0 \in 0..MaxSeq
  BY DocTxAssumption
<1>2. db \in Buckets
  BY <1>1 DEF Init, EmptyBuckets, Buckets
<1>3. TypeOK
  BY <1>2 DEF Init, TypeOK
<1>4. db.docs = [d \in Docs |-> NoDoc] /\ db.changes = {}
      /\ db.inval = [d \in Docs |-> 0] /\ db.changesSeq = 0 /\ db.invalSeq = 0
  BY DEF Init, EmptyBuckets
<1>5. \A d \in Docs : leafRevs(db, d) = {}
  BY DEF Init, EmptyBuckets, leafRevs
<1> QED
  BY <1>3, <1>4, <1>5
     DEF Init, IInv, StoreInv, TreeOK, StoredKnown, SequencesOK, PendOK,
         PendChgOK, FeedCovers, AckedNotLost

LEMMA NextBegan ==
  ASSUME StoreInv, BeginEdit \/ PeerNext
  PROVE  Began
<1>1. ASSUME NEW d \in Docs, NEW hash \in Hashes, NEW deleted \in BOOLEAN,
             NEW base \in known[d] \cup {NoRev},
             PeerEdit(d, base, hash, deleted)
      PROVE  Began
  BY <1>1, PeerEditKeeps
<1>2. ASSUME NEW d \in Docs, NEW hash \in Hashes, NEW deleted \in BOOLEAN,
             NEW base \in known[d] \cup {NoRev}, NEW w \in Writers,
             BeginPut(w, d, base, hash, deleted)
      PROVE  Began
  BY <1>2, BeginPutKeeps
<1>3. ASSUME NEW w \in Writers, NEW d \in Docs, NEW r \in known[d],
             NEW hash \in Hashes, BeginDelete(w, d, r, hash)
      PROVE  Began
  BY <1>3, BeginDeleteKeeps
<1>4. ASSUME NEW w \in Writers, NEW d \in Docs, NEW r \in known[d],
             NEW h \in PeerHistories(d, r), BeginReplicate(w, d, r, h)
      PROVE  Began
  BY <1>4, BeginReplicateKeeps
<1> QED
  BY <1>1, <1>2, <1>3, <1>4 DEF BeginEdit, PeerNext

LEMMA BeganKeeps ==
  ASSUME IInv, Began
  PROVE  IInv'
<1>1. StoreInv' /\ db' = db /\ acked' = acked /\ Grown
  BY DEF Began
<1>2. FeedCovers'
  BY <1>1 DEF IInv, FeedCovers
<1>3. AckedNotLost'
  <2>1. ASSUME NEW d \in Docs, NEW r \in acked[d]
        PROVE  \E l \in leafRevs(db, d) : r = l \/ r \in anc'[d][l]
    BY <1>1, CoveredGrown DEF IInv, StoreInv, AckedNotLost
  <2> QED
    BY <1>1, <2>1 DEF AckedNotLost, Covered
<1>4. ASSUME NEW w \in Writers, NEW p \in pend'[w]
      PROVE  /\ p.op.chg <= db.changesSeq
             /\ \A e \in db.changes : e.seq = p.op.chg => e.id = p.op.id
  <2>1. p.op.id \in Docs
    BY <1>1 DEF StoreInv, TypeOK, Pending, OpLog
  <2>2. CASE p \in pend[w]
    BY <2>2 DEF IInv, PendChgOK, ChgOwn
  <2>3. /\ db.changesSeq \in Nat
        /\ \A e \in db.changes : e.seq \in Nat /\ e.seq # 0
    BY DocTxAssumption DEF IInv, StoreInv, TypeOK, Buckets, Change
  <2>4. CASE p.op.chg = 0
    BY <2>3, <2>4
  <2>5. CASE db.docs[p.op.id] # NoDoc /\ p.op.chg = db.inval[p.op.id]
    <3>1. [seq |-> p.op.chg, id |-> p.op.id] \in db.changes
      BY <2>1, <2>5 DEF IInv, FeedCovers
    <3> QED
      BY <3>1 DEF IInv, StoreInv, SequencesOK
  <2> QED
    BY <2>2, <2>4, <2>5 DEF Began, FreshChg, OwnChange
<1>5. PendChgOK'
  BY <1>1, <1>4 DEF PendChgOK, ChgOwn
<1> QED
  BY <1>1, <1>2, <1>3, <1>5 DEF IInv

LEMMA NextIInv == IInv /\ [Next]_vars => IInv'
<1> SUFFICES ASSUME IInv, [Next]_vars PROVE IInv'
  OBVIOUS
<1>1. CASE BeginEdit \/ PeerNext
  BY <1>1, NextBegan, BeganKeeps DEF IInv
<1>2. ASSUME NEW w \in Writers, NEW p \in pend[w], Commit(w, p)
      PROVE  IInv'
  BY <1>2, CommitKeeps
<1>3. CASE UNCHANGED vars
  <2>1. /\ db' = db /\ pend' = pend /\ known' = known /\ anc' = anc
        /\ dead' = dead /\ acked' = acked /\ overlapped' = overlapped
    BY <1>3 DEF vars
  <2> QED
    BY <2>1 DEF IInv, StoreInv, TypeOK, TreeOK, StoredKnown, SequencesOK, PendOK,
                PendChgOK, ChgOwn, FeedCovers, AckedNotLost, Covered, leafRevs
<1> QED
  BY <1>1, <1>2, <1>3 DEF Next, CommitNext

(***************************************************************************)
(* IInv holds in every reachable state, for any documents, hashes, writers *)
(* and bounds.                                                             *)
(***************************************************************************)
THEOREM Inductive == Spec => []IInv
  BY InitIInv, NextIInv, PTL DEF Spec

(***************************************************************************)
(* The buckets, the pending transactions and the history variables always  *)
(* have their types.                                                       *)
(***************************************************************************)
THEOREM TypeCorrect == Spec => []TypeOK
<1>1. IInv => TypeOK
  BY DEF IInv, StoreInv
<1> QED
  BY <1>1, Inductive, PTL

(***************************************************************************)
(* However transactions overlap, a stored document always has an entry in  *)
(* the changes feed, at the sequence its invalidation record names: the    *)
(* hooks of a racing transaction, run with a stale record, never delete    *)
(* another document's entry.                                               *)
(***************************************************************************)
THEOREM FeedAlwaysCovers == Spec => []FeedCovers
<1>1. IInv => FeedCovers
  BY DEF IInv
<1> QED
  BY <1>1, Inductive, PTL

(***************************************************************************)
(* However transactions overlap, a revision the database accepted stays a  *)
(* leaf or an ancestor of one.                                             *)
(***************************************************************************)
THEOREM AckedNeverLost == Spec => []AckedNotLost
<1>1. IInv => AckedNotLost
  BY DEF IInv
<1> QED
  BY <1>1, Inductive, PTL

(***************************************************************************)
(* However transactions overlap, a document whose served version changes   *)
(* moves behind every sequence number given out before.                    *)
(***************************************************************************)
THEOREM FeedAlwaysMovesOn == Spec => FeedMovesOn
<1> DEFINE Moves == \A d \in Docs :
             db'.docs[d] # db.docs[d] => db'.inval[d] > db.changesSeq
<1>1. ASSUME IInv, NEW w \in Writers, NEW p \in pend[w], Commit(w, p)
      PROVE  Moves
  <2>1. p.op \in OpLog /\ p.op.id \in Docs /\ db \in Buckets
    BY <1>1, CommitType DEF IInv
  <2>2. CASE p.op.put = NoDoc
    BY <1>1, <2>1, <2>2, CommitFields
  <2>3. CASE p.op.put # NoDoc
    <3>1. /\ db'.docs = [db.docs EXCEPT ![p.op.id] = p.op.put]
          /\ db'.inval = [db.inval EXCEPT ![p.op.id] = db.invalSeq + 1]
      BY <1>1, <2>1, <2>3, CommitFields
    <3>2. /\ db.docs \in [Docs -> Document \cup {NoDoc}]
          /\ db.inval \in [Docs -> 0..MaxSeq]
          /\ db.changesSeq = db.invalSeq /\ db.changesSeq \in Nat
      BY <1>1, <2>1, DocTxAssumption DEF Buckets, IInv, StoreInv, SequencesOK
    <3> QED
      BY <3>1, <3>2
  <2> QED
    BY <2>2, <2>3
<1>2. IInv /\ [Next]_vars => [Moves]_vars
  <2>1. db' = db => Moves
    OBVIOUS
  <2> QED
    BY <1>1, <2>1 DEF Next, BeginEdit, PeerNext, CommitNext, PeerEdit,
                      BeginPut, BeginDelete, BeginReplicate, Begin, vars
<1> QED
  BY <1>2, Inductive, PTL DEF Spec, FeedMovesOn

-----------------------------------------------------------------------------
(* Transactions that do not overlap: SerialInv is inductive, given IInv.   *)

(***************************************************************************)
(* A revision minted again keeps its deleted flag, so the flag of a        *)
(* revision that exists never changes.                                     *)
(***************************************************************************)
LEMMA MintDead ==
  ASSUME TypeOK, DeadKnown,
         NEW d \in Docs, NEW base, NEW new, NEW deleted \in BOOLEAN,
         Mint(d, base, new, deleted)
  PROVE  /\ DeadKnown'
         /\ \A c \in Docs : \A r \in known[c] : r \in dead'[c] <=> r \in dead[c]
         /\ new \in dead'[d] <=> deleted
         /\ new \in known[d] => (new \in dead[d] <=> deleted)
<1>1. /\ new \in known[d] => deleted = (new \in dead[d])
      /\ known' = [known EXCEPT ![d] = @ \cup {new}]
      /\ dead' = [dead EXCEPT ![d] = IF deleted THEN @ \cup {new} ELSE @]
  BY DEF Mint
<1>2. /\ known'[d] = known[d] \cup {new}
      /\ dead'[d] = IF deleted THEN dead[d] \cup {new} ELSE dead[d]
      /\ \A c \in Docs \ {d} : known'[c] = known[c] /\ dead'[c] = dead[c]
  BY <1>1 DEF TypeOK
<1>3. \A c \in Docs : dead[c] \subseteq known[c]
  BY DEF DeadKnown
<1>4. CASE deleted = TRUE
  <2>1. dead'[d] = dead[d] \cup {new} /\ (new \in known[d] => new \in dead[d])
    BY <1>1, <1>2, <1>4
  <2>2. \A r \in known[d] : r \in dead'[d] <=> r \in dead[d]
    BY <2>1
  <2>3. dead'[d] \subseteq known'[d]
    BY <1>2, <1>3, <2>1
  <2> QED
    BY <1>2, <1>3, <1>4, <2>1, <2>2, <2>3 DEF DeadKnown
<1>5. CASE deleted = FALSE
  BY <1>1, <1>2, <1>3, <1>5 DEF DeadKnown
<1> QED
  BY <1>4, <1>5

(***************************************************************************)
(* What a log writes was minted, so minting more does not disturb it.      *)
(***************************************************************************)
LEMMA AppliedKnown ==
  ASSUME StoreInv, NEW w \in Writers, NEW p \in pend[w]
  PROVE  leafRevs(Apply(db, p.op), p.op.id) \subseteq known[p.op.id]
<1> DEFINE d == p.op.id
           a == Apply(db, p.op)
           f == db.leaves[d]
<1>1. p.op \in OpLog /\ d \in Docs /\ db \in Buckets
  BY DEF StoreInv, TypeOK, Pending, OpLog
<1>2. f \in [Rev -> Document \cup {NoDoc}]
  BY <1>1 DEF Buckets
<1>3. a.leaves[d] = ApplyLeaves(f, p.op)
  <2>1. a.leaves = [db.leaves EXCEPT ![d] = ApplyLeaves(@, p.op)]
    BY <1>1, ApplyFields
  <2>2. db.leaves \in [Docs -> [Rev -> Document \cup {NoDoc}]]
    BY <1>1 DEF Buckets
  <2> QED
    BY <1>1, <2>1, <2>2
<1>4. /\ \A l \in p.op.puts : l.rev \in known[d]
      /\ leafRevs(db, d) \subseteq known[d]
  BY <1>1 DEF StoreInv, PendOK, StoredKnown
<1>5. ASSUME NEW r \in leafRevs(a, d)
      PROVE  r \in known[d]
  <2>1. r \in Rev /\ ApplyLeaves(f, p.op)[r] # NoDoc
    BY <1>3 DEF leafRevs
  <2>2. f[r] # NoDoc => r \in leafRevs(db, d)
    BY <2>1 DEF leafRevs
  <2> HIDE DEF f
  <2>3. f[r] # NoDoc \/ \E l \in p.op.puts : l.rev = r
    BY <1>1, <1>2, <2>1, ApplyLeavesAt
  <2> QED
    BY <1>4, <2>2, <2>3
<1> QED
  BY <1>5

(***************************************************************************)
(* In sound buckets the entry a new log deletes is its own document's.     *)
(***************************************************************************)
LEMMA OwnEntry ==
  ASSUME StoreInv, NEW op \in OpLog, SoundAt(db, op.id), OwnChange(db, op)
  PROVE  \A e \in db.changes : e.seq = op.chg => e.id = op.id
<1> DEFINE d == op.id
<1>1. d \in Docs /\ db.changes \in SUBSET Change
  BY DEF OpLog, StoreInv, TypeOK, Buckets
<1>2. CASE op.chg = 0
  <2>1. \A e \in db.changes : e.seq # 0
    BY <1>1, DocTxAssumption DEF Change
  <2> QED
    BY <1>2, <2>1
<1>3. CASE db.docs[d] # NoDoc /\ op.chg = db.inval[d]
  <2>1. [seq |-> db.inval[d], id |-> d] \in db.changes
    BY <1>3 DEF SoundAt, IndicesExactAt
  <2>2. \A e, f \in db.changes : e.seq = f.seq => e = f
    BY DEF StoreInv, SequencesOK
  <2> QED
    BY <1>3, <2>1, <2>2
<1> QED
  BY <1>2, <1>3 DEF OwnChange

\* The deleted flags of the minted revisions stay as they are.
FlagsKept ==
  /\ DeadKnown'
  /\ \A c \in Docs : \A r \in known[c] : r \in dead'[c] <=> r \in dead[c]

LEMMA StaysSound ==
  ASSUME FlagsKept, NEW b, StoredKnown(b), StoredSound(b)
  PROVE  \A d \in Docs : \A r \in leafRevs(b, d) :
           b.leaves[d][r].deleted <=> r \in dead'[d]
  BY DEF FlagsKept, StoredKnown, StoredSound, DeadAt

LEMMA StoredStaysSound ==
  ASSUME StoreInv, StoredSound(db), FlagsKept, db' = db
  PROVE  StoredSound(db)'
<1>1. \A d \in Docs : \A r \in leafRevs(db, d) :
        db.leaves[d][r].deleted <=> r \in dead'[d]
  BY StaysSound DEF StoreInv
<1> QED
  BY <1>1 DEF StoredSound, DeadAt

\* Transactions that do not overlap stay sound as others begin.
BeganSound ==
  /\ FlagsKept
  /\ overlapped => overlapped'
  /\ Sound /\ ~overlapped' => Sound'

LEMMA PeerEditSerial ==
  ASSUME StoreInv, DeadKnown, NEW d \in Docs, NEW base \in known[d] \cup {NoRev},
         NEW hash \in Hashes, NEW deleted \in BOOLEAN,
         PeerEdit(d, base, hash, deleted)
  PROVE  BeganSound
<1>1. FlagsKept
  <2>1. Mint(d, base, NewRev(base, hash), deleted)
    BY DEF PeerEdit
  <2> QED
    BY <2>1, MintDead DEF StoreInv, FlagsKept
<1>2. db' = db /\ pend' = pend /\ overlapped' = overlapped
  BY DEF PeerEdit
<1>3. ASSUME Sound
      PROVE  Sound'
  <2>1. StoredSound(db)'
    BY <1>1, <1>2, <1>3, StoredStaysSound DEF Sound
  <2>2. OnePending'
    BY <1>2, <1>3 DEF Sound, OnePending
  <2>3. PendSound'
    <3>1. ASSUME NEW w \in Writers, NEW p \in pend[w]
          PROVE  /\ SoundAt(Apply(db, p.op), p.op.id)
                 /\ DeadAt(Apply(db, p.op), p.op.id)'
                 /\ AtLeast(Apply(db, p.op).docs[p.op.id].rev, p.rev)
                 /\ AtLeast(Apply(db, p.op).docs[p.op.id].rev,
                            db.docs[p.op.id].rev)
                 /\ ExtendsLeaf(p)
                 /\ ChgOwn(p)
      <4>1. p.op.id \in Docs
        BY DEF StoreInv, TypeOK, Pending, OpLog
      <4>2. leafRevs(Apply(db, p.op), p.op.id) \subseteq known[p.op.id]
        BY AppliedKnown
      <4>3. DeadAt(Apply(db, p.op), p.op.id)
        BY <1>3 DEF Sound, PendSound
      <4>4. DeadAt(Apply(db, p.op), p.op.id)'
        BY <1>1, <1>2, <4>1, <4>2, <4>3 DEF DeadAt, FlagsKept
      <4> QED
        BY <1>3, <4>4 DEF Sound, PendSound
    <3> QED
      BY <1>2, <3>1 DEF PendSound, ExtendsLeaf, ChgOwn
  <2> QED
    BY <2>1, <2>2, <2>3 DEF Sound
<1> QED
  BY <1>1, <1>2, <1>3 DEF BeganSound

\* The log op of an edit of base or a delivery, applied to what it read, leaves
\* its document sound, with revision rev.
LogSound(op, d, rev, edit, base, deleted) ==
  StoredSound(db) =>
    /\ KeepsSound(db, op, d, rev, deleted)
    /\ edit => db.docs[d] = NoDoc \/ base \in leafRevs(db, d)

(***************************************************************************)
(* A transaction that begins alone is sound if its log, applied to what it *)
(* read, is.                                                               *)
(***************************************************************************)
LEMMA BeginSerial ==
  ASSUME StoreInv, FlagsKept,
         NEW w \in Writers, NEW d \in Docs, NEW op \in OpLog,
         NEW rev \in Rev, NEW edit \in BOOLEAN, NEW base, NEW deleted \in BOOLEAN,
         Begin(w, op, rev, edit, base), op.id = d, OwnChange(db, op),
         rev \in dead'[d] <=> deleted,
         LogSound(op, d, rev, edit, base, deleted)
  PROVE  BeganSound
<1> DEFINE new == [op |-> op, rev |-> rev, edit |-> edit, base |-> base]
<1> USE DEF LogSound
<1>1. /\ db' = db
      /\ pend' = [pend EXCEPT ![w] = {new}]
      /\ overlapped => overlapped'
      /\ ~overlapped' => \A v \in Writers : pend[v] = {}
  BY DEF Begin
<1>2. ASSUME Sound, ~overlapped'
      PROVE  Sound'
  <2>1. StoredSound(db) /\ SoundAt(db, d) /\ DeadAt(db, d)
    BY <1>2 DEF Sound, StoredSound
  <2>2. StoredSound(db)'
    BY <1>1, <2>1, StoredStaysSound
  <2>3. \A v \in Writers : pend'[v] = IF v = w THEN {new} ELSE {}
    BY <1>1, <1>2 DEF StoreInv, TypeOK
  <2>4. OnePending'
    BY <2>3 DEF OnePending
  <2>5. DeadAt(Apply(db, op), d)'
    <3>1. ASSUME NEW r \in leafRevs(Apply(db, op), d)
          PROVE  Apply(db, op).leaves[d][r].deleted <=> r \in dead'[d]
      <4>1. CASE /\ r \in leafRevs(db, d)
                 /\ Apply(db, op).leaves[d][r] = db.leaves[d][r]
        <5>1. r \in known[d]
          BY <4>1 DEF StoreInv, StoredKnown
        <5> QED
          BY <2>1, <4>1, <5>1 DEF DeadAt, FlagsKept
      <4>2. CASE r = rev /\ Apply(db, op).leaves[d][r].deleted = deleted
        BY <4>2
      <4> QED
        BY <2>1, <4>1, <4>2 DEF KeepsSound, OneNewLeaf
    <3>2. \A r \in leafRevs(Apply(db', op), d) :
             Apply(db', op).leaves[d][r].deleted <=> r \in dead'[d]
      BY <1>1, <3>1
    <3> QED
      BY <3>2 DEF DeadAt
  <2>6. ExtendsLeaf(new)' /\ ChgOwn(new)'
    <3>1. edit => db'.docs[d] = NoDoc \/ base \in leafRevs(db', d)
      BY <1>1, <2>1
    <3>2. \A e \in db'.changes : e.seq = op.chg => e.id = d
      BY <1>1, <2>1, OwnEntry
    <3> QED
      BY <3>1, <3>2 DEF ExtendsLeaf, ChgOwn
  <2>7. PendSound'
    <3>1. \A v \in Writers : \A p \in pend'[v] : p = new
      BY <2>3
    <3>2. new.op = op /\ new.rev = rev
      OBVIOUS
    <3>3. /\ SoundAt(Apply(db', op), d)
          /\ AtLeast(Apply(db', op).docs[d].rev, rev)
          /\ AtLeast(Apply(db', op).docs[d].rev, db'.docs[d].rev)
      BY <1>1, <2>1 DEF KeepsSound
    <3> HIDE DEF new
    <3> QED
      BY <2>5, <2>6, <3>1, <3>2, <3>3 DEF PendSound
  <2> QED
    BY <2>2, <2>4, <2>7 DEF Sound
<1> QED
  BY <1>1, <1>2 DEF BeganSound

LEMMA BeginPutSerial ==
  ASSUME StoreInv, DeadKnown, NEW w \in Writers, NEW d \in Docs,
         NEW base \in known[d] \cup {NoRev},
         NEW hash \in Hashes, NEW deleted \in BOOLEAN,
         BeginPut(w, d, base, hash, deleted)
  PROVE  BeganSound
<1> DEFINE new == NewRev(base, hash)
           op == PutDocument(db, d, new, deleted)
           edit == TRUE
<1>1. /\ Mint(d, base, new, deleted)
      /\ Begin(w, op, new, edit, base)
      /\ ValidUpdateRevision(db.docs[d], base)
  BY DEF BeginPut
<1>2. FlagsKept /\ (new \in dead'[d] <=> deleted)
  BY <1>1, MintDead DEF StoreInv, FlagsKept
<1>3. new \in Rev /\ new.gen = base.gen + 1
  BY <1>1 DEF Mint, NewRev, NextSequenceRevision
<1>4. db \in Buckets /\ db.changesSeq = db.invalSeq
  BY DEF StoreInv, TypeOK, SequencesOK
<1>5. op = PutDocument(db, d, new, deleted)
  OBVIOUS
<1>6. edit \in BOOLEAN
  OBVIOUS
<1> HIDE DEF new, op, edit
<1>7. /\ op \in OpLog /\ op.id = d
      /\ op.put \in Document /\ PutsWinner(op) /\ op.put.rev = new
      /\ op.dels = OldWinner(db, d)
      /\ OwnChange(db, op)
  BY <1>3, <1>4, <1>5, PutDocumentLog
<1>8. db.docs[d].rev.gen < new.gen
  <2>1. CASE db.docs[d] = NoDoc
    <3>1. db.docs[d].rev.gen = 0
      BY <2>1, NilDocument DEF NoRev
    <3>2. new.gen \in 1..MaxGen
      BY <1>3, RevFields
    <3> QED
      BY <3>1, <3>2
  <2>2. CASE db.docs[d] # NoDoc
    <3>1. base = db.docs[d].rev
      BY <1>1, <2>2 DEF ValidUpdateRevision
    <3>2. base.gen \in Nat
      BY <1>4, <3>1, WinnerRevType, RevNumbers
    <3> QED
      BY <1>3, <3>1, <3>2
  <2> QED
    BY <2>1, <2>2
<1>9. LogSound(op, d, new, edit, base, deleted)
  <2> SUFFICES ASSUME StoredSound(db)
               PROVE  /\ KeepsSound(db, op, d, new, deleted)
                      /\ db.docs[d] = NoDoc \/ base \in leafRevs(db, d)
    BY DEF LogSound
  <2>1. SoundAt(db, d)
    BY DEF StoredSound
  <2>2. db.docs[d] = NoDoc \/ base \in leafRevs(db, d)
    BY <1>1, <2>1 DEF ValidUpdateRevision, SoundAt, WinnerRuleAt
  <2> QED
    BY <1>3, <1>4, <1>5, <1>8, <2>1, <2>2, PutDocumentSound
<1>10. new \in Rev /\ op \in OpLog /\ op.id = d /\ OwnChange(db, op)
  BY <1>3, <1>7
<1> QED
  BY <1>1, <1>2, <1>6, <1>9, <1>10, BeginSerial

LEMMA BeginDeleteSerial ==
  ASSUME StoreInv, DeadKnown, NEW w \in Writers, NEW d \in Docs,
         NEW rev \in known[d],
         NEW hash \in Hashes, BeginDelete(w, d, rev, hash)
  PROVE  BeganSound
<1> DEFINE new == NewRev(rev, hash)
           op == DeleteDocument(db, d, rev, new)
           deleted == TRUE
           edit == TRUE
<1>1. /\ Mint(d, rev, new, deleted)
      /\ Begin(w, op, new, edit, rev)
      /\ db.docs[d] # NoDoc
      /\ rev = db.docs[d].rev \/ rev \in leafRevs(db, d)
  BY DEF BeginDelete
<1>2. deleted = TRUE
  OBVIOUS
<1>3. deleted \in BOOLEAN /\ edit \in BOOLEAN
  OBVIOUS
<1> HIDE DEF deleted, edit
<1>4. /\ FlagsKept /\ (new \in dead'[d] <=> deleted)
      /\ new \in known[d] => (new \in dead[d] <=> deleted)
  BY <1>1, <1>3, MintDead DEF StoreInv, FlagsKept
<1>5. new \in Rev /\ new.gen = rev.gen + 1
  BY <1>1 DEF Mint, NewRev, NextSequenceRevision
<1>6. db \in Buckets /\ db.changesSeq = db.invalSeq /\ rev \in Rev
  BY DEF StoreInv, TypeOK, SequencesOK
<1>7. rev.gen < new.gen
  <2>1. rev.gen \in Nat
    BY <1>6, RevNumbers
  <2> QED
    BY <1>5, <2>1
<1> HIDE DEF new
<1>8. CASE rev = db.docs[d].rev
  <2>1. op = PutDocument(db, d, new, deleted)
    BY <1>2, <1>8 DEF DeleteDocument
  <2> HIDE DEF op
  <2>2. new \in Rev /\ deleted \in BOOLEAN
    BY <1>3, <1>5
  <2>3. db \in Buckets /\ db.changesSeq = db.invalSeq
    BY <1>6
  <2>4. /\ op \in OpLog /\ op.id = d
        /\ op.put \in Document /\ PutsWinner(op) /\ op.put.rev = new
        /\ op.dels = OldWinner(db, d)
        /\ OwnChange(db, op)
    BY <2>1, <2>2, <2>3, PutDocumentLog
  <2>5. LogSound(op, d, new, edit, rev, deleted)
    <3> SUFFICES ASSUME StoredSound(db)
                 PROVE  /\ KeepsSound(db, op, d, new, deleted)
                        /\ rev \in leafRevs(db, d)
      BY DEF LogSound
    <3>1. SoundAt(db, d)
      BY DEF StoredSound
    <3>2. rev \in leafRevs(db, d)
      BY <1>1, <1>8, <3>1 DEF SoundAt, WinnerRuleAt
    <3>3. db.docs[d].rev.gen < new.gen
      BY <1>7, <1>8
    <3> QED
      BY <2>1, <2>2, <2>3, <3>1, <3>2, <3>3, PutDocumentSound
  <2> QED
    BY <1>1, <1>4, <1>3, <2>2, <2>4, <2>5, BeginSerial
<1>9. CASE rev # db.docs[d].rev
  <2>1. op = DeleteLeaf(db, d, rev, new) /\ rev \in leafRevs(db, d)
    BY <1>1, <1>9 DEF DeleteDocument
  <2>2. op \in OpLog /\ op.id = d /\ OwnChange(db, op)
    BY <1>5, <1>6, <2>1, DeleteLeafOp
  <2>3. ASSUME StoredSound(db), new = db.docs[d].rev
        PROVE  db.docs[d].deleted
    <3>1. new \in dead[d]
      BY <1>1, <1>2, <1>4, <2>3 DEF StoreInv, StoredKnown
    <3>2. SoundAt(db, d) /\ DeadAt(db, d)
      BY <2>3 DEF StoredSound
    <3>3. /\ db.docs[d].rev \in leafRevs(db, d)
          /\ db.docs[d].deleted = db.leaves[d][db.docs[d].rev].deleted
      BY <1>1, <3>2 DEF SoundAt, WinnerRuleAt
    <3> QED
      BY <2>3, <3>1, <3>2, <3>3 DEF DeadAt
  <2>4. LogSound(op, d, new, edit, rev, deleted)
    <3> SUFFICES ASSUME StoredSound(db)
                 PROVE  KeepsSound(db, op, d, new, deleted)
      BY <2>1 DEF LogSound
    <3>1. SoundAt(db, d)
      BY DEF StoredSound
    <3> QED
      BY <1>2, <1>5, <1>6, <1>7, <1>9, <2>1, <2>3, <3>1, DeleteLeafSound
  <2> HIDE DEF op
  <2> QED
    BY <1>1, <1>4, <1>5, <1>3, <2>2, <2>4, BeginSerial
<1> QED
  BY <1>8, <1>9

LEMMA BeginReplicateSerial ==
  ASSUME StoreInv, DeadKnown, NEW w \in Writers, NEW d \in Docs,
         NEW r \in known[d],
         NEW h \in PeerHistories(d, r), BeginReplicate(w, d, r, h)
  PROVE  BeganSound
<1> DEFINE deleted == r \in dead[d]
           doc == [rev |-> r, deleted |-> deleted, hist |-> h]
           op == PutDocumentForReplication(db, d, doc)
           edit == FALSE
<1>1. /\ Begin(w, op, r, edit, NoRev)
      /\ known' = known /\ anc' = anc /\ dead' = dead
      /\ r # db.docs[d].rev
  BY DEF BeginReplicate
<1>2. FlagsKept
  BY <1>1 DEF DeadKnown, FlagsKept
<1>3. /\ db \in Buckets /\ db.changesSeq = db.invalSeq
      /\ r \in Rev /\ anc[d][r] \subseteq Rev
  BY DEF StoreInv, TypeOK, SequencesOK
<1>4. deleted \in BOOLEAN /\ edit \in BOOLEAN /\ edit = FALSE
      /\ (r \in dead'[d] <=> deleted)
  BY <1>1
<1>5. /\ h \in Seq(Rev) /\ h # <<>> /\ h[1] = r
      /\ \A i \in 2..Len(h) : h[i] \in anc[d][r]
  BY PeerHistoryType DEF StoreInv
<1> HIDE DEF deleted, edit
<1>6. doc \in Document /\ doc.hist = h /\ doc.rev = r /\ doc.deleted = deleted
  BY <1>3, <1>4, <1>5 DEF Document
<1>7. ToSet(Tail(h)) \subseteq anc[d][r]
  BY <1>5 DEF ToSet
<1>8. \A a \in anc[d][r] : a.gen < r.gen
  BY DEF StoreInv, TreeOK
<1> HIDE DEF doc
<1>9. op \in OpLog /\ op.id = d /\ OwnChange(db, op)
  BY <1>3, <1>5, <1>6, ReplicationOp
<1>10. LogSound(op, d, r, edit, NoRev, deleted)
  <2> SUFFICES ASSUME StoredSound(db)
               PROVE  KeepsSound(db, op, d, r, deleted)
    BY <1>4 DEF LogSound
  <2>1. /\ Heads(doc.rev, doc.hist)
        /\ doc.rev # db.docs[d].rev
        /\ \A a \in ToSet(Tail(doc.hist)) : a.gen < doc.rev.gen
    BY <1>1, <1>5, <1>6, <1>7, <1>8 DEF Heads
  <2>2. SoundAt(db, d)
    BY DEF StoredSound
  <2> QED
    BY <1>3, <1>6, <2>1, <2>2, ReplicationSound
<1> HIDE DEF op
<1> QED
  BY <1>1, <1>2, <1>3, <1>4, <1>9, <1>10, BeginSerial

(***************************************************************************)
(* The only pending transaction commits: its document is as its first step *)
(* foresaw, the others are untouched, and nothing is pending.              *)
(***************************************************************************)
LEMMA CommitOthers ==
  ASSUME StoreInv, NEW w \in Writers, NEW p \in pend[w], ChgOwn(p),
         Commit(w, p), NEW c \in Docs, c # p.op.id, SoundAt(db, c)
  PROVE  /\ SoundAt(db', c)
         /\ db'.docs[c] = db.docs[c]
         /\ db'.leaves[c] = db.leaves[c]
<1>1. p.op \in OpLog /\ p.op.id \in Docs /\ db \in Buckets
  BY CommitType
<1>2. db' = Apply(db, p.op)
  BY DEF Commit
<1>3. \A e \in db.changes : e.seq = p.op.chg => e.id = p.op.id
  BY DEF ChgOwn
<1> QED
  BY <1>1, <1>2, <1>3, OthersStaySound

LEMMA CommitSound ==
  ASSUME StoreInv, Sound, NEW w \in Writers, NEW p \in pend[w], Commit(w, p)
  PROVE  Sound'
<1> DEFINE d == p.op.id
<1>1. p.op \in OpLog /\ d \in Docs /\ db \in Buckets /\ db' \in Buckets
  BY CommitType DEF TypeOK
<1>2. /\ db' = Apply(db, p.op) /\ pend' = [pend EXCEPT ![w] = {}]
      /\ dead' = dead
  BY DEF Commit
<1>3. \A v \in Writers : pend'[v] = {}
  BY <1>2 DEF Sound, OnePending, StoreInv, TypeOK
<1>4. OnePending' /\ PendSound'
  BY <1>3 DEF OnePending, PendSound
<1>5. SoundAt(db', d) /\ DeadAt(Apply(db, p.op), d) /\ ChgOwn(p)
  BY <1>2 DEF Sound, PendSound
<1>6. ASSUME NEW c \in Docs
      PROVE  SoundAt(db', c) /\ DeadAt(db, c)'
  <2>1. CASE c = d
    <3>1. DeadAt(db, d)'
      BY <1>2, <1>5 DEF DeadAt
    <3> QED
      BY <1>5, <2>1, <3>1
  <2>2. CASE c # d
    <3>1. SoundAt(db, c) /\ DeadAt(db, c)
      BY DEF Sound, StoredSound
    <3>2. SoundAt(db', c) /\ db'.leaves[c] = db.leaves[c]
      BY <1>5, <2>2, <3>1, CommitOthers
    <3>3. leafRevs(db', c) = leafRevs(db, c)
      BY <3>2 DEF leafRevs
    <3> QED
      BY <1>2, <3>1, <3>2, <3>3 DEF DeadAt
  <2> QED
    BY <2>1, <2>2
<1> QED
  BY <1>4, <1>6 DEF Sound, StoredSound

LEMMA CommitKeepsWinner ==
  ASSUME StoreInv, Sound, WinnerOfAccepted,
         NEW w \in Writers, NEW p \in pend[w], Commit(w, p)
  PROVE  WinnerOfAccepted'
<1> DEFINE d == p.op.id
<1>1. p.op \in OpLog /\ d \in Docs /\ db \in Buckets /\ db' \in Buckets
  BY CommitType DEF TypeOK
<1>2. /\ db' = Apply(db, p.op)
      /\ acked' = [acked EXCEPT ![d] = @ \cup {p.rev}]
  BY DEF Commit
<1>3. /\ AtLeast(db'.docs[d].rev, p.rev)
      /\ AtLeast(db'.docs[d].rev, db.docs[d].rev)
      /\ ChgOwn(p)
  BY <1>2 DEF Sound, PendSound
<1>4. ASSUME NEW c \in Docs, NEW r \in acked'[c]
      PROVE  AtLeast(db'.docs[c].rev, r)
  <2>1. acked \in [Docs -> SUBSET Rev]
    BY DEF StoreInv, TypeOK
  <2>2. CASE c = d /\ r = p.rev
    BY <1>3, <2>2
  <2>3. CASE c = d /\ r # p.rev
    <3>1. r \in acked[d] /\ r \in Rev
      BY <1>1, <1>2, <2>1, <2>3
    <3>2. r = db.docs[d].rev \/ RevLess(r, db.docs[d].rev)
      BY <1>1, <3>1 DEF WinnerOfAccepted
    <3>3. /\ db.docs[d].rev \in Rev \cup {NoRev}
          /\ db'.docs[d].rev \in Rev \cup {NoRev}
      BY <1>1, WinnerRevType
    <3> QED
      BY <1>3, <2>3, <3>1, <3>2, <3>3, RevLessTransitive DEF AtLeast
  <2>4. CASE c # d
    <3>1. r \in acked[c]
      BY <1>1, <1>2, <2>1, <2>4
    <3>2. db'.docs[c] = db.docs[c]
      BY <1>3, <2>4, CommitOthers DEF Sound, StoredSound
    <3> QED
      BY <3>1, <3>2 DEF WinnerOfAccepted, AtLeast
  <2> QED
    BY <2>2, <2>3, <2>4
<1> QED
  BY <1>4 DEF WinnerOfAccepted, AtLeast

LEMMA InitSerial == Init => SerialInv
<1> SUFFICES ASSUME Init PROVE SerialInv
  OBVIOUS
<1>1. /\ db.docs = [d \in Docs |-> NoDoc] /\ db.changes = {}
      /\ db.deleted = {} /\ acked = [d \in Docs |-> {}]
      /\ pend = [w \in Writers |-> {}] /\ dead = [d \in Docs |-> {}]
  BY DEF Init, EmptyBuckets
<1>2. \A d \in Docs : leafRevs(db, d) = {}
  BY DEF Init, EmptyBuckets, leafRevs
<1>3. \A d \in Docs : SoundAt(db, d) /\ DeadAt(db, d)
  BY <1>1, <1>2, NilDocument
     DEF SoundAt, WinnerRuleAt, IndicesExactAt, LeavesHeadHistoryAt, DeadAt
<1> QED
  BY <1>1, <1>3 DEF SerialInv, DeadKnown, Sound, StoredSound, WinnerOfAccepted,
                    OnePending, PendSound

LEMMA NextBeganSound ==
  ASSUME StoreInv, DeadKnown, BeginEdit \/ PeerNext
  PROVE  BeganSound
<1>1. ASSUME NEW d \in Docs, NEW hash \in Hashes, NEW deleted \in BOOLEAN,
             NEW base \in known[d] \cup {NoRev},
             PeerEdit(d, base, hash, deleted)
      PROVE  BeganSound
  BY <1>1, PeerEditSerial
<1>2. ASSUME NEW d \in Docs, NEW hash \in Hashes, NEW deleted \in BOOLEAN,
             NEW base \in known[d] \cup {NoRev}, NEW w \in Writers,
             BeginPut(w, d, base, hash, deleted)
      PROVE  BeganSound
  BY <1>2, BeginPutSerial
<1>3. ASSUME NEW w \in Writers, NEW d \in Docs, NEW r \in known[d],
             NEW hash \in Hashes, BeginDelete(w, d, r, hash)
      PROVE  BeganSound
  BY <1>3, BeginDeleteSerial
<1>4. ASSUME NEW w \in Writers, NEW d \in Docs, NEW r \in known[d],
             NEW h \in PeerHistories(d, r), BeginReplicate(w, d, r, h)
      PROVE  BeganSound
  BY <1>4, BeginReplicateSerial
<1> QED
  BY <1>1, <1>2, <1>3, <1>4 DEF BeginEdit, PeerNext

LEMMA NextSerial == IInv /\ SerialInv /\ [Next]_vars => SerialInv'
<1> SUFFICES ASSUME StoreInv, SerialInv, [Next]_vars PROVE SerialInv'
  BY DEF IInv
<1>1. CASE BeginEdit \/ PeerNext
  <2>1. BeganSound
    BY <1>1, NextBeganSound DEF SerialInv
  <2>2. db' = db /\ acked' = acked
    BY <1>1, NextBegan DEF Began
  <2>3. WinnerOfAccepted => WinnerOfAccepted'
    BY <2>2 DEF WinnerOfAccepted
  <2> QED
    BY <2>1, <2>3 DEF SerialInv, BeganSound, FlagsKept
<1>2. ASSUME NEW w \in Writers, NEW p \in pend[w], Commit(w, p)
      PROVE  SerialInv'
  <2>1. known' = known /\ dead' = dead /\ overlapped' = overlapped
    BY <1>2 DEF Commit
  <2>2. DeadKnown'
    BY <2>1 DEF SerialInv, DeadKnown
  <2>3. ~overlapped => Sound' /\ WinnerOfAccepted'
    BY <1>2, CommitSound, CommitKeepsWinner DEF SerialInv
  <2> QED
    BY <2>1, <2>2, <2>3 DEF SerialInv
<1>3. CASE UNCHANGED vars
  <2>1. /\ db' = db /\ pend' = pend /\ known' = known /\ anc' = anc
        /\ dead' = dead /\ acked' = acked /\ overlapped' = overlapped
    BY <1>3 DEF vars
  <2> QED
    BY <2>1 DEF SerialInv, DeadKnown, Sound, StoredSound, DeadAt,
                WinnerOfAccepted, OnePending, PendSound, ExtendsLeaf, ChgOwn
<1> QED
  BY <1>1, <1>2, <1>3 DEF Next, CommitNext

LEMMA SerialHolds == Spec => [](IInv /\ SerialInv)
<1>1. Init => IInv /\ SerialInv
  BY InitIInv, InitSerial
<1>2. (IInv /\ SerialInv) /\ [Next]_vars => (IInv /\ SerialInv)'
  BY NextIInv, NextSerial
<1> QED
  BY <1>1, <1>2, PTL DEF Spec

(***************************************************************************)
(* Until two transactions overlap, the docs bucket holds the greatest leaf *)
(* of every document, with the deleted flag of that leaf.                  *)
(***************************************************************************)
THEOREM SerialWinner == Spec => []SerialWinnerRule
<1>1. IInv /\ SerialInv => SerialWinnerRule
  BY DEF SerialInv, Sound, StoredSound, SoundAt, SerialWinnerRule, WinnerRule
<1> QED
  BY <1>1, SerialHolds, PTL

(***************************************************************************)
(* Until two transactions overlap, the changes index lists every document  *)
(* once, at its sequence, and the _deleted index the deleted documents.    *)
(***************************************************************************)
THEOREM SerialIndices == Spec => []SerialIndicesExact
<1>1. IInv /\ SerialInv => SerialIndicesExact
  BY DEF SerialInv, Sound, StoredSound, SoundAt, SerialIndicesExact, IndicesExact
<1> QED
  BY <1>1, SerialHolds, PTL

(***************************************************************************)
(* Until two transactions overlap, the winner is the greatest revision the *)
(* database accepted, in whatever order they came: databases that accepted *)
(* the same revisions agree on it.                                         *)
(***************************************************************************)
THEOREM SerialConvergence == Spec => []SerialWinnerOfAccepted
<1>1. IInv /\ SerialInv => SerialWinnerOfAccepted
  BY DEF SerialInv, SerialWinnerOfAccepted
<1> QED
  BY <1>1, SerialHolds, PTL

(***************************************************************************)
(* Until two transactions overlap, _revs_diff reports no leaf as missing:  *)
(* the history GetDocument returns names the leaves of every branch.       *)
(***************************************************************************)
THEOREM SerialRevsDiff == Spec => []SerialRevsDiffKnowsLeaves
<1>1. IInv /\ SerialInv => SerialRevsDiffKnowsLeaves
  <2> SUFFICES ASSUME IInv, SerialInv, ~overlapped,
                      NEW d \in Docs, NEW r \in leafRevs(db, d)
               PROVE  HasRevision(GetDocument(db, d), r)
    BY DEF SerialRevsDiffKnowsLeaves, RevsDiffKnowsLeaves
  <2>1. db \in Buckets /\ SoundAt(db, d)
    BY DEF IInv, StoreInv, TypeOK, SerialInv, Sound, StoredSound
  <2> QED
    BY <2>1, GetDocumentNamesLeaves
<1> QED
  BY <1>1, SerialHolds, PTL

(***************************************************************************)
(* Until two transactions overlap, an edit that commits extends a revision *)
(* that is still a leaf.                                                   *)
(***************************************************************************)
THEOREM SerialEdits == Spec => SerialEditExtendsLeaf
<1> DEFINE Extends ==
             ~overlapped =>
               \A w \in Writers : \A p \in pend[w] :
                 pend'[w] = {} => ExtendsLeaf(p)
<1>1. SerialInv => Extends
  BY DEF SerialInv, Sound, PendSound
<1>2. (IInv /\ SerialInv) => [Extends]_vars
  BY <1>1
<1> QED
  BY <1>2, SerialHolds, PTL DEF SerialEditExtendsLeaf

-----------------------------------------------------------------------------
(* Readers that page through the feed. *)

THEOREM ReadersRunTheStore == FeedSpec => Spec
<1>1. FeedInit => Init
  BY DEF FeedInit
<1>2. [FeedNext]_feedVars => [Next]_vars
  BY DEF FeedNext, Store, GetChanges, NormalFeed, Poll, feedVars
<1> QED
  BY <1>1, <1>2, PTL DEF FeedSpec, Spec

LEMMA FeedAsStored ==
  ASSUME IInv
  PROVE  /\ db \in Buckets /\ db.changesSeq \in 0..MaxSeq
         /\ \A e, f \in db.changes : e.seq = f.seq => e = f
         /\ \A e \in db.changes : e.id \in Docs /\ e.seq \in 1..MaxSeq
         /\ \A d \in Docs : /\ db.inval[d] \in 0..MaxSeq
                            /\ db.inval[d] <= db.changesSeq
                            /\ db.inval[d] = 0 <=> db.docs[d] = NoDoc
         /\ \A d \in Docs :
              db.inval[d] # 0 => [seq |-> db.inval[d], id |-> d] \in db.changes
<1>1. db \in Buckets
  BY DEF IInv, StoreInv, TypeOK
<1>2. \A e \in db.changes : e.seq <= db.changesSeq /\ e.seq \in 1..MaxSeq
  BY <1>1 DEF IInv, StoreInv, SequencesOK, Buckets, Change
<1>3. ASSUME NEW d \in Docs
      PROVE  /\ db.inval[d] \in 0..MaxSeq /\ db.inval[d] <= db.changesSeq
  <2>1. db.inval[d] \in 0..MaxSeq /\ db.changesSeq \in 0..MaxSeq
    BY <1>1 DEF Buckets
  <2>2. CASE db.inval[d] = 0
    BY <2>1, <2>2, DocTxAssumption
  <2>3. CASE db.inval[d] # 0
    <3> DEFINE e == [seq |-> db.inval[d], id |-> d]
    <3>1. e \in db.changes /\ e.seq = db.inval[d]
      BY <2>3 DEF IInv, FeedCovers
    <3> QED
      BY <1>2, <2>1, <3>1
  <2> QED
    BY <2>2, <2>3
<1> QED
  BY <1>1, <1>2, <1>3
     DEF IInv, StoreInv, SequencesOK, FeedCovers, Buckets, Change

\* While no transactions overlap, every entry is at its document's sequence.
LEMMA EntriesCurrent ==
  ASSUME SerialInv, ~overlapped, NEW e \in db.changes, e.id \in Docs
  PROVE  db.inval[e.id] = e.seq
<1>1. IndicesExactAt(db, e.id)
  BY DEF SerialInv, Sound, StoredSound, SoundAt
<1>2. e \in {f \in db.changes : f.id = e.id}
  OBVIOUS
<1>3. e = [seq |-> db.inval[e.id], id |-> e.id]
  BY <1>1, <1>2 DEF IndicesExactAt
<1> QED
  BY <1>3

LEMMA ReadersStart == FeedInit => ReadersInv
<1> SUFFICES ASSUME FeedInit
             PROVE  ReadersInv
  OBVIOUS
<1>1. IInv
  BY InitIInv DEF FeedInit
<1>2. /\ db.changesSeq = 0 /\ \A d \in Docs : db.docs[d] = NoDoc
  BY DEF FeedInit, Init, EmptyBuckets
<1>3. \A r \in Readers :
        reader[r] = [since |-> Start, adrift |-> FALSE,
                     got |-> [d \in Docs |-> NoRev]]
  BY DEF FeedInit
<1>4. FeedTypeOK
  <2>1. TypeOK /\ 0 \in 0..MaxSeq
    BY <1>1, DocTxAssumption DEF IInv, StoreInv
  <2> QED
    BY <2>1 DEF FeedInit, FeedTypeOK, ReaderState, Start
<1>5. GivenOut
  BY <1>2, <1>3 DEF GivenOut, Start
<1>6. NothingInvented /\ NoGap
  BY <1>2, <1>3 DEF NothingInvented, NoGap, NothingMissedBy, UpToDate, NoDoc
<1> QED
  BY <1>4, <1>5, <1>6 DEF ReadersInv

(***************************************************************************)
(* A page resumed from an entry that is there, or from the start, brings   *)
(* the reader up to date to its last sequence.                             *)
(***************************************************************************)
LEMMA PollKeeps ==
  ASSUME IInv, SerialInv, ReadersInv, NEW r \in Readers,
         NEW otherwise \in {Start, reader[r].since}, Poll(r, otherwise)
  PROVE  ReadersInv'
<1> DEFINE since  == reader[r].since
           answer == Changes(db, since, Limit)
           next   == LastSeq(answer, otherwise)
           got    == Received(reader[r].got, answer)
           adrift == since # Start /\ (reader[r].adrift \/ ~Anchored(since))
<1>1. UNCHANGED vars
  BY DEF Poll
<1>2. reader \in [Readers -> ReaderState]
  BY DEF ReadersInv, FeedTypeOK
<1>3. /\ since \in 0..MaxSeq /\ since <= db.changesSeq
      /\ reader[r].got \in [Docs -> Rev \cup {NoRev}]
      /\ reader[r].adrift \in BOOLEAN
  BY <1>2 DEF ReaderState, ReadersInv, GivenOut
<1>4. since \in Nat /\ otherwise \in Nat /\ otherwise <= since
  BY <1>3 DEF Start
<1>5. reader' = [reader EXCEPT ![r] =
                   [since |-> next, got |-> got, adrift |-> adrift]]
  BY DEF Poll
<1> HIDE DEF since, answer, next, got, adrift
<1>6. /\ reader'[r] = [since |-> next, got |-> got, adrift |-> adrift]
      /\ \A q \in Readers : q # r => reader'[q] = reader[q]
  BY <1>2, <1>5
<1>7. next \in 0..MaxSeq /\ next <= db.changesSeq
  <2>1. db.changesSeq \in 0..MaxSeq /\ MaxSeq \in Nat
    BY FeedAsStored, DocTxAssumption
  <2>2. next \in Nat /\ next <= db.changesSeq
    <3>1. answer = Changes(db, since, Limit) /\ next = LastSeq(answer, otherwise)
      BY DEF answer, next
    <3>2. otherwise <= db.changesSeq /\ db.changesSeq \in Nat
      BY <1>3, <1>4, <2>1
    <3>3. \A d \in Docs : db.inval[d] <= db.changesSeq
      BY FeedAsStored
    <3>4. LastSeq(answer, otherwise) \in Nat
          /\ LastSeq(answer, otherwise) <= db.changesSeq
      BY <1>4, <3>1, <3>2, <3>3, FeedAsStored, PageTyped
    <3> QED
      BY <3>1, <3>4
  <2> QED
    BY <2>1, <2>2
<1>8. ASSUME NEW d \in Docs
      PROVE  /\ DOMAIN got = Docs
             /\ (\E i \in DOMAIN answer.docs : answer.docs[i].id = d) =>
                  got[d] = db.docs[d].rev
             /\ (\A i \in DOMAIN answer.docs : answer.docs[i].id # d) =>
                  got[d] = reader[r].got[d]
  <2>1. answer = Changes(db, since, Limit) /\ DOMAIN reader[r].got = Docs
    BY <1>3 DEF answer
  <2> QED
    BY <1>4, <2>1, FeedAsStored, PageReceived DEF got
<1>9. \A d \in Docs : got[d] \in {db.docs[d].rev, reader[r].got[d]}
  BY <1>8
<1>10. \A d \in Docs : db.docs[d].rev \in Rev \cup {NoRev}
  <2>1. \A d \in Docs : db.docs[d] \in Document \cup {NoDoc}
    BY FeedAsStored DEF Buckets
  <2> QED
    BY <2>1 DEF Document, NoDoc
<1>11. got \in [Docs -> Rev \cup {NoRev}]
  <2>1. got = [d \in DOMAIN reader[r].got |-> got[d]]
    BY DEF got, Received
  <2>2. \A d \in Docs : got[d] \in Rev \cup {NoRev}
    BY <1>3, <1>9, <1>10
  <2> QED
    BY <1>3, <2>1, <2>2
<1>12. FeedTypeOK'
  <2>1. adrift \in BOOLEAN
    BY DEF adrift
  <2>2. [since |-> next, got |-> got, adrift |-> adrift] \in ReaderState
    BY <1>7, <1>11, <2>1 DEF ReaderState
  <2>3. TypeOK'
    BY <1>1 DEF ReadersInv, FeedTypeOK, TypeOK, vars
  <2> QED
    BY <1>2, <1>5, <2>2, <2>3 DEF FeedTypeOK
<1>13. GivenOut'
  BY <1>1, <1>6, <1>7 DEF GivenOut, ReadersInv, vars
<1>14. ASSUME ~overlapped
       PROVE  NothingInvented' /\ NoGap'
  <2>1. NothingInvented /\ NoGap
    BY <1>14 DEF ReadersInv
  <2>2. \A e \in db.changes : db.inval[e.id] = e.seq
    BY <1>14, EntriesCurrent, FeedAsStored
  <2>3. ASSUME NEW d \in Docs, db.docs[d] = NoDoc
        PROVE  got[d] = NoRev
    BY <1>9, <2>1, <2>3 DEF NothingInvented, NoDoc
  <2>4. NothingInvented'
    BY <1>1, <1>6, <2>1, <2>3 DEF NothingInvented, vars
  <2>5. ASSUME ~adrift, NEW d \in Docs, db.inval[d] <= next
        PROVE  got[d] = db.docs[d].rev
    <3>1. CASE db.inval[d] = 0
      <4>1. db.docs[d] = NoDoc
        BY <3>1, FeedAsStored
      <4> QED
        BY <2>3, <4>1 DEF NoDoc
    <3>2. CASE db.inval[d] # 0 /\ db.inval[d] <= since
      <4>1. db.inval[d] \in 0..MaxSeq
        BY FeedAsStored
      <4>2. since # Start
        BY <1>3, <3>2, <4>1, DocTxAssumption DEF Start
      <4>3. ~reader[r].adrift
        BY <1>3, <2>5, <4>2 DEF adrift
      <4>4. reader[r].got[d] = db.docs[d].rev
        BY <2>1, <3>2, <4>3 DEF NoGap, NothingMissedBy, UpToDate, since
      <4> QED
        BY <1>9, <4>4
    <3>3. CASE db.inval[d] > since
      <4> DEFINE e == [seq |-> db.inval[d], id |-> d]
      <4>1. db.inval[d] \in 0..MaxSeq /\ db.inval[d] # 0
        BY <1>3, <3>3, FeedAsStored
      <4>2. e \in db.changes /\ e.seq = db.inval[d] /\ e.id = d
        BY <4>1, FeedAsStored
      <4>3. since = Start \/ \E f \in db.changes : f.seq = since
        BY <2>5 DEF adrift, Anchored
      <4>4. answer = Changes(db, since, Limit)
        BY DEF answer
      <4>5. since < e.seq /\ e.seq <= LastSeq(answer, otherwise)
        BY <1>3, <2>5, <3>3, <4>1, <4>2 DEF next
      <4> HIDE DEF e
      <4>6. \E i \in DOMAIN answer.docs : answer.docs[i].id = e.id
        BY <1>4, <2>2, <4>2, <4>3, <4>4, <4>5, FeedAsStored, PageLeavesNoGap
      <4> QED
        BY <1>8, <4>2, <4>6
    <3>4. db.inval[d] \in 0..MaxSeq
      BY FeedAsStored
    <3> QED
      BY <1>3, <3>1, <3>2, <3>3, <3>4, DocTxAssumption
  <2>6. NoGap'
    <3> SUFFICES ASSUME NEW q \in Readers, ~reader'[q].adrift
                 PROVE  NothingMissedBy(q)'
      BY DEF NoGap
    <3>1. CASE q = r
      BY <1>1, <1>6, <2>5, <3>1 DEF NothingMissedBy, UpToDate, vars
    <3>2. CASE q # r
      BY <1>1, <1>6, <2>1, <3>2 DEF NoGap, NothingMissedBy, UpToDate, vars
    <3> QED
      BY <3>1, <3>2
  <2> QED
    BY <2>4, <2>6
<1> QED
  BY <1>1, <1>12, <1>13, <1>14 DEF ReadersInv, vars

(***************************************************************************)
(* A write moves its document behind every sequence a reader may be at.    *)
(***************************************************************************)
LEMMA StoreKeeps ==
  ASSUME IInv, IInv', ReadersInv, Store
  PROVE  ReadersInv'
<1>1. /\ UNCHANGED reader
      /\ reader \in [Readers -> ReaderState]
      /\ TypeOK'
  BY DEF Store, ReadersInv, FeedTypeOK, IInv, StoreInv
<1>2. FeedTypeOK'
  BY <1>1 DEF FeedTypeOK
<1>3. /\ db'.changesSeq >= db.changesSeq
      /\ ~overlapped' => ~overlapped
      /\ \A d \in Docs :
           \/ db'.docs[d] = db.docs[d] /\ db'.inval[d] = db.inval[d]
           \/ db'.inval[d] > db.changesSeq /\ db'.docs[d] # NoDoc
  <2>0. db \in Buckets /\ db.changesSeq \in Nat /\ db.changesSeq = db.invalSeq
    BY DocTxAssumption, FeedAsStored DEF IInv, StoreInv, SequencesOK
  <2>1. ASSUME NEW w \in Writers, NEW p \in pend[w], Commit(w, p)
        PROVE  <1>3
    <3>1. p.op \in OpLog /\ p.op.id \in Docs
      BY <2>1, CommitType DEF IInv
    <3>2. UNCHANGED overlapped
      BY <2>1 DEF Commit
    <3>3. CASE p.op.put = NoDoc
      <4>1. /\ db'.docs = db.docs /\ db'.inval = db.inval
            /\ db'.changesSeq = db.changesSeq
        BY <2>0, <2>1, <3>1, <3>3, CommitFields
      <4> QED
        BY <2>0, <3>2, <4>1
    <3>4. CASE p.op.put # NoDoc
      <4>1. /\ db'.docs = [db.docs EXCEPT ![p.op.id] = p.op.put]
            /\ db'.inval = [db.inval EXCEPT ![p.op.id] = db.invalSeq + 1]
            /\ db'.changesSeq = db.changesSeq + 1
        BY <2>0, <2>1, <3>1, <3>4, CommitFields
      <4>2. /\ db.docs \in [Docs -> Document \cup {NoDoc}]
            /\ db.inval \in [Docs -> 0..MaxSeq]
        BY <2>0 DEF Buckets
      <4>3. ASSUME NEW d \in Docs
            PROVE  \/ db'.docs[d] = db.docs[d] /\ db'.inval[d] = db.inval[d]
                   \/ db'.inval[d] > db.changesSeq /\ db'.docs[d] # NoDoc
        BY <2>0, <3>4, <4>1, <4>2
      <4> QED
        BY <2>0, <3>2, <4>1, <4>3
    <3> QED
      BY <3>3, <3>4
  <2>2. CASE db' = db /\ (overlapped => overlapped')
    BY <2>0, <2>2
  <2>3. BeginEdit \/ PeerNext => db' = db /\ (overlapped => overlapped')
    <3>1. ASSUME NEW d \in Docs, NEW hash, NEW deleted, NEW base,
                 PeerEdit(d, base, hash, deleted)
          PROVE  db' = db /\ (overlapped => overlapped')
      BY <3>1 DEF PeerEdit
    <3>2. ASSUME NEW w, NEW op, NEW rev, NEW edit, NEW base,
                 Begin(w, op, rev, edit, base)
          PROVE  db' = db /\ (overlapped => overlapped')
      <4>1. overlapped' = (overlapped \/ \E v \in Writers : pend[v] # {})
        BY <3>2 DEF Begin
      <4>2. overlapped => (overlapped \/ \E v \in Writers : pend[v] # {}) = TRUE
        OBVIOUS
      <4>3. overlapped => overlapped' = TRUE
        BY <4>1, <4>2
      <4> QED
        BY <3>2, <4>3 DEF Begin
    <3> QED
      BY <3>1, <3>2
         DEF BeginEdit, PeerNext, BeginPut, BeginDelete, BeginReplicate
  <2> QED
    BY <2>1, <2>2, <2>3 DEF Store, Next, CommitNext
<1>4. db.changesSeq \in 0..MaxSeq /\ db'.changesSeq \in 0..MaxSeq
  <2>1. db' \in Buckets
    BY DEF IInv, StoreInv, TypeOK
  <2> QED
    BY <2>1, FeedAsStored DEF Buckets
<1>5. \A r \in Readers : reader[r].since \in 0..MaxSeq
  BY <1>1 DEF ReaderState
<1>6. GivenOut'
  BY <1>1, <1>3, <1>4, <1>5 DEF GivenOut, ReadersInv
<1>7. ASSUME ~overlapped'
      PROVE  NothingInvented' /\ NoGap'
  <2>1. NothingInvented /\ NoGap
    BY <1>3, <1>7 DEF ReadersInv
  <2>2. NothingInvented'
    BY <1>1, <1>3, <2>1 DEF NothingInvented
  <2>3. ASSUME NEW r \in Readers, ~reader[r].adrift, NEW d \in Docs,
               db'.inval[d] <= reader[r].since
        PROVE  reader[r].got[d] = db'.docs[d].rev
    <3>1. reader[r].since <= db.changesSeq
      BY DEF ReadersInv, GivenOut
    <3>2. db'.inval[d] \in 0..MaxSeq
      <4>1. db' \in Buckets
        BY DEF IInv, StoreInv, TypeOK
      <4> QED
        BY <4>1 DEF Buckets
    <3>3. ~(db'.inval[d] > db.changesSeq)
      BY <1>4, <1>5, <2>3, <3>1, <3>2
    <3>4. db'.docs[d] = db.docs[d] /\ db'.inval[d] = db.inval[d]
      BY <1>3, <3>3
    <3> QED
      BY <2>1, <2>3, <3>4 DEF NoGap, NothingMissedBy, UpToDate
  <2>4. NoGap'
    BY <1>1, <2>3 DEF NoGap, NothingMissedBy, UpToDate
  <2> QED
    BY <2>2, <2>4
<1> QED
  BY <1>2, <1>6, <1>7 DEF ReadersInv

LEMMA ReadersHold == FeedSpec => [](IInv /\ SerialInv /\ ReadersInv)
<1> DEFINE S == IInv /\ SerialInv
<1>1. FeedSpec => []S
  BY ReadersRunTheStore, SerialHolds, PTL
<1>2. FeedInit => ReadersInv
  BY ReadersStart
<1>3. S /\ S' /\ ReadersInv /\ [FeedNext]_feedVars => ReadersInv'
  <2> SUFFICES ASSUME S, S', ReadersInv, [FeedNext]_feedVars
               PROVE  ReadersInv'
    OBVIOUS
  <2>1. CASE Store
    BY <2>1, StoreKeeps
  <2>2. ASSUME NEW r \in Replicators, GetChanges(r)
        PROVE  ReadersInv'
    BY <2>2, PollKeeps DEF GetChanges, Readers
  <2>3. ASSUME NEW r \in Clients, NormalFeed(r)
        PROVE  ReadersInv'
    BY <2>3, PollKeeps DEF NormalFeed, Readers
  <2>4. CASE UNCHANGED feedVars
    BY <2>4 DEF ReadersInv, FeedTypeOK, TypeOK, GivenOut, NothingInvented,
                NoGap, NothingMissedBy, UpToDate, feedVars, vars
  <2> QED
    BY <2>1, <2>2, <2>3, <2>4 DEF FeedNext
<1> HIDE DEF S
<1>4. FeedSpec => []ReadersInv
  BY <1>1, <1>2, <1>3, PTL DEF FeedSpec
<1> QED
  BY <1>1, <1>4, PTL DEF S

(***************************************************************************)
(* For any readers, page size and writers: as long as no two transactions  *)
(* overlapped, a reader that always resumed from an entry still there has  *)
(* the current revision of every document it is past.                      *)
(***************************************************************************)
THEOREM PagesLeaveNoGap == FeedSpec => []NoGapWhileAnchored
<1>1. ReadersInv => NoGapWhileAnchored
  BY DEF ReadersInv, NoGapWhileAnchored
<1> QED
  BY <1>1, ReadersHold, PTL

-----------------------------------------------------------------------------
(* Listeners and polls. *)

\* Writes are steps of the document store, and nothing else touches it.

LEMMA WriteIsStoreStep == Write => Next
<1> SUFFICES ASSUME Write PROVE Next
  OBVIOUS
<1>1. CASE BeginEdit
  BY <1>1 DEF Next
<1>2. CASE \E w \in Writers : \E p \in pend[w] : CommitAndNotify(w, p)
  BY <1>2 DEF Next, CommitNext, CommitAndNotify
<1> QED
  BY <1>1, <1>2 DEF Write

LEMMA OthersLeaveStore == Notify \/ StreamNext \/ PollNext => UNCHANGED vars
<1>1. Notify => UNCHANGED vars
  BY DEF Notify, RangeBegins, CallStream, CallPoll, PollListenerSends, RangeEnds
<1>2. StreamNext => UNCHANGED vars
  BY DEF StreamNext, StreamRegisters, StreamReads, StreamTakes, StreamCloses
<1>3. PollNext => UNCHANGED vars
  BY DEF PollNext, PollAsks, PollRuns, TimerExpires, TimerSends, PollWakes,
         PollReads
<1> QED
  BY <1>1, <1>2, <1>3

(***************************************************************************)
(* Every behaviour of the push feed is one of the document store: what is  *)
(* proved of the store's writes holds while listeners are notified.        *)
(***************************************************************************)
THEOREM FeedRunsTheStore == LiveSpec => Spec
<1>1. LiveInit => Init
  BY DEF LiveInit
<1>2. [LiveNext]_liveVars => [Next]_vars
  BY WriteIsStoreStep, OthersLeaveStore DEF LiveNext, liveVars
<1> QED
  BY <1>1, <1>2, PTL DEF LiveSpec, Spec

-----------------------------------------------------------------------------
(* The notification goroutines. *)

LEMMA RemoveOne ==
  ASSUME NEW S, NEW s \in Seq(S), NEW i \in DOMAIN s
  PROVE  /\ RemoveAt(s, i) \in Seq(S)
         /\ \A k \in DOMAIN RemoveAt(s, i) :
              \E j \in DOMAIN s : RemoveAt(s, i)[k] = s[j]
         /\ \A j \in DOMAIN s :
              j # i => \E k \in DOMAIN RemoveAt(s, i) : RemoveAt(s, i)[k] = s[j]
<1> DEFINE n == Len(s)
           a == SubSeq(s, 1, i - 1)
           b == SubSeq(s, i + 1, n)
<1>1. i \in 1..n /\ n \in Nat /\ DOMAIN s = 1..n
  OBVIOUS
<1>2. /\ a \in Seq(S) /\ Len(a) = i - 1
      /\ \A k \in 1..(i - 1) : a[k] = s[k]
  BY <1>1
<1>3. /\ b \in Seq(S) /\ Len(b) = n - i
      /\ \A k \in 1..(n - i) : b[k] = s[i + k]
  BY <1>1
<1>4. RemoveAt(s, i) = a \o b
  BY DEF RemoveAt
<1> HIDE DEF n, a, b
<1>5. /\ a \o b \in Seq(S) /\ DOMAIN (a \o b) = 1..(n - 1)
      /\ \A k \in 1..(n - 1) : (a \o b)[k] = IF k < i THEN s[k] ELSE s[k + 1]
  <2>1. a \o b \in Seq(S) /\ Len(a \o b) = n - 1
    <3>1. Len(a) + Len(b) = n - 1
      BY <1>1, <1>2, <1>3
    <3>2. a \in Seq(S) /\ b \in Seq(S)
      BY <1>2, <1>3
    <3>3. a \o b \in Seq(S) /\ Len(a \o b) = Len(a) + Len(b)
      BY <3>2, ConcatProperties
    <3> QED
      BY <3>1, <3>3
  <2>2. ASSUME NEW k \in 1..(n - 1)
        PROVE  (a \o b)[k] = IF k < i THEN s[k] ELSE s[k + 1]
    <3>1. CASE k < i
      BY <1>1, <1>2, <1>3, <3>1
    <3>2. CASE ~(k < i)
      <4>1. k - (i - 1) \in 1..(n - i) /\ i + (k - (i - 1)) = k + 1
        BY <1>1, <3>2
      <4>2. (a \o b)[k] = b[k - (i - 1)]
        BY <1>1, <1>2, <1>3, <3>2
      <4> QED
        BY <1>3, <3>2, <4>1, <4>2
    <3> QED
      BY <3>1, <3>2
  <2> QED
    BY <2>1, <2>2
<1>6. ASSUME NEW k \in 1..(n - 1)
      PROVE  \E j \in DOMAIN s : (a \o b)[k] = s[j]
  <2>1. k \in DOMAIN s /\ k + 1 \in DOMAIN s
    BY <1>1
  <2> QED
    BY <1>5, <2>1
<1>7. ASSUME NEW j \in DOMAIN s, j # i
      PROVE  \E k \in 1..(n - 1) : (a \o b)[k] = s[j]
  <2>1. CASE j < i
    <3>1. j \in 1..(n - 1)
      BY <1>1, <2>1
    <3> QED
      BY <1>5, <2>1, <3>1
  <2>2. CASE j > i
    <3>1. j - 1 \in 1..(n - 1) /\ ~(j - 1 < i) /\ (j - 1) + 1 = j
      BY <1>1, <2>2
    <3> QED
      BY <1>5, <3>1
  <2>3. j \in Nat /\ i \in Nat
    BY <1>1
  <2>4. j < i \/ j > i
    BY <1>7, <2>3
  <2> QED
    BY <2>1, <2>2, <2>4
<1> QED
  BY <1>4, <1>5, <1>6, <1>7

-----------------------------------------------------------------------------
(* One lemma for each way a step changes the notes or the polls. *)

LEMMA NoteMoves ==
  ASSUME ListenInv, NEW i \in DOMAIN notes, NEW n \in NoteState,
         notes' = [notes EXCEPT ![i] = n]
  PROVE  /\ notes' \in Seq(NoteState)
         /\ DOMAIN notes' = DOMAIN notes
         /\ notes'[i] = n
         /\ \A j \in DOMAIN notes : j # i => notes'[j] = notes[j]
<1>1. notes \in Seq(NoteState)
  BY DEF ListenInv, ListenTypeOK
<1> QED
  BY <1>1

LEMMA NoteTyped ==
  ASSUME ListenInv, NEW i \in DOMAIN notes
  PROVE  notes[i] \in NoteState
BY DEF ListenInv, ListenTypeOK

LEMMA NoneAheadStays ==
  ASSUME ListenInv, listener' \subseteq listener \cup Streams,
         \A k \in DOMAIN notes' : \E j \in DOMAIN notes :
           Held(notes'[k]) \subseteq Held(notes[j]) \cup listener \cup Streams,
         \A q \in Polls : poll'[q].attempt = poll[q].attempt
  PROVE  NoneAhead'
<1> SUFFICES ASSUME NEW p \in Polls, NEW a \in Attempts, poll[p].attempt < a
             PROVE  /\ <<p, a>> \notin listener'
                    /\ \A k \in DOMAIN notes' : <<p, a>> \notin Held(notes'[k])
  BY DEF NoneAhead
<1>1. <<p, a>> \notin listener
      /\ \A j \in DOMAIN notes : <<p, a>> \notin Held(notes[j])
  BY DEF ListenInv, NoneAhead
<1>2. <<p, a>> \notin Streams
  BY LiveFeedAssumption DEF Attempts
<1>3. ASSUME NEW k \in DOMAIN notes' PROVE <<p, a>> \notin Held(notes'[k])
  <2>1. PICK j \in DOMAIN notes :
          Held(notes'[k]) \subseteq Held(notes[j]) \cup listener \cup Streams
    OBVIOUS
  <2> QED
    BY <1>1, <1>2, <2>1
<1> QED
  BY <1>1, <1>2, <1>3

LEMMA NothingMoves ==
  ASSUME ListenInv, UNCHANGED <<listener, notes, poll>>
  PROVE  ListenInv'
BY DEF ListenInv, ListenTypeOK, OneSend, NoneAhead, GoneHasSent,
       WaitingIsListening

\* A poll that keeps its phase and attempt, and has no channel emptied.
LEMMA PollStays ==
  ASSUME ListenInv, NEW p \in Polls, UNCHANGED <<listener, notes>>,
         DOMAIN poll' = Polls,
         \A q \in Polls : q # p => poll'[q] = poll[q],
         DOMAIN poll'[p] = DOMAIN poll[p],
         poll'[p].phase = poll[p].phase, poll'[p].attempt = poll[p].attempt,
         poll'[p].ch \in [Attempts -> 0..1],
         \A a \in Attempts : poll[p].ch[a] = 1 => poll'[p].ch[a] = 1
  PROVE  ListenInv'
<1>1. ListenTypeOK'
  <2> SUFFICES ASSUME NEW q \in Polls
               PROVE  ListenTypeOK!4!(q)'
    BY DEF ListenInv, ListenTypeOK
  <2> QED
    BY DEF ListenInv, ListenTypeOK
<1>2. OneSend' /\ NoneAhead'
  BY DEF ListenInv, OneSend, NoneAhead
<1>3. GoneHasSent'
  BY DEF ListenInv, ListenTypeOK, GoneHasSent
<1>4. WaitingIsListening'
  BY DEF ListenInv, ListenTypeOK, WaitingIsListening
<1> QED
  BY <1>1, <1>2, <1>3, <1>4 DEF ListenInv

\* A poll that goes on without waiting.
LEMMA PollGoesOn ==
  ASSUME ListenInv, NEW p \in Polls, UNCHANGED <<listener, notes>>,
         DOMAIN poll' = Polls,
         \A q \in Polls : q # p => poll'[q] = poll[q],
         DOMAIN poll'[p] = DOMAIN poll[p],
         poll'[p].phase \in {"reading", "answered"},
         poll'[p].attempt = poll[p].attempt,
         poll'[p].ch \in [Attempts -> 0..1]
  PROVE  ListenInv'
<1>1. ListenTypeOK'
  BY DEF ListenInv, ListenTypeOK
<1>2. OneSend' /\ NoneAhead'
  BY DEF ListenInv, OneSend, NoneAhead
<1>3. GoneHasSent'
  BY DEF ListenInv, ListenTypeOK, GoneHasSent
<1>4. WaitingIsListening'
  BY DEF ListenInv, ListenTypeOK, WaitingIsListening
<1> QED
  BY <1>1, <1>2, <1>3, <1>4 DEF ListenInv

\* A poll that begins to wait, with a listener of its own.
LEMMA PollWaits ==
  ASSUME ListenInv, NEW p \in Polls, NEW a \in Attempts, UNCHANGED notes,
         poll[p].attempt < a,
         listener' = listener \cup {<<p, a>>},
         DOMAIN poll' = Polls,
         \A q \in Polls : q # p => poll'[q] = poll[q],
         DOMAIN poll'[p] = DOMAIN poll[p],
         poll'[p].phase = "waiting", poll'[p].attempt = a,
         poll'[p].ch = poll[p].ch
  PROVE  ListenInv'
<1>0. a \in 1..2 /\ a \in 0..2 /\ poll[p].attempt \in 0..2
  BY DEF Attempts, ListenInv, ListenTypeOK
<1>1. ListenTypeOK'
  BY <1>0 DEF ListenInv, ListenTypeOK, Listeners
<1>2. OneSend'
  BY DEF ListenInv, OneSend
<1>3. NoneAhead'
  <2> SUFFICES ASSUME NEW q \in Polls, NEW b \in Attempts,
                      poll'[q].attempt < b
               PROVE  /\ <<q, b>> \notin listener'
                      /\ \A i \in DOMAIN notes : <<q, b>> \notin Held(notes[i])
    BY DEF NoneAhead
  <2>0. b \in 1..2
    BY DEF Attempts
  <2>1. poll[q].attempt < b /\ <<q, b>> # <<p, a>>
    BY <1>0, <2>0
  <2> QED
    BY <2>1 DEF ListenInv, NoneAhead
<1>4. GoneHasSent'
  <2> SUFFICES ASSUME NEW q \in Polls, NEW i \in DOMAIN notes,
                      poll'[q].phase = "waiting",
                      <<q, poll'[q].attempt>> \in notes[i].gone
               PROVE  poll'[q].ch[poll'[q].attempt] = 1
    BY DEF GoneHasSent
  <2>1. q # p
    BY DEF ListenInv, NoneAhead, Held
  <2> QED
    BY <2>1 DEF ListenInv, GoneHasSent
<1>5. WaitingIsListening'
  BY DEF ListenInv, WaitingIsListening
<1> QED
  BY <1>1, <1>2, <1>3, <1>4, <1>5 DEF ListenInv

-----------------------------------------------------------------------------
(* Each action keeps the invariant. *)

LEMMA WriteKeeps ==
  ASSUME TypeOK, ListenInv, Write
  PROVE  ListenInv'
<1>1. CASE BeginEdit /\ UNCHANGED notes
  BY <1>1, NothingMoves DEF Write
<1>2. ASSUME NEW w \in Writers, NEW p \in pend[w], CommitAndNotify(w, p)
      PROVE  ListenInv'
  <2> DEFINE n == [id |-> p.op.id, ranging |-> FALSE, all |-> {},
                   seen |-> {}, sending |-> {}, gone |-> {}]
  <2>1. p \in Pending
    BY DEF TypeOK
  <2>2. p.op.id \in Docs
    BY <2>1 DEF Pending, OpLog
  <2>3. n \in NoteState
    BY <2>2 DEF NoteState
  <2>4. /\ n.all = {} /\ n.sending = {} /\ n.gone = {}
        /\ notes' = Append(notes, n)
    BY <1>2 DEF CommitAndNotify, NotifyDocumentUpdate
  <2>5. UNCHANGED <<listener, poll>>
    BY DEF Write
  <2> HIDE DEF n
  <2>6. notes \in Seq(NoteState)
    BY DEF ListenInv, ListenTypeOK
  <2>7. /\ notes' \in Seq(NoteState)
        /\ DOMAIN notes \subseteq DOMAIN notes'
        /\ \A j \in DOMAIN notes : notes'[j] = notes[j]
        /\ \A j \in DOMAIN notes' : j \in DOMAIN notes \/ notes'[j] = n
    BY <2>3, <2>4, <2>6
  <2>8. ListenTypeOK'
    BY <2>5, <2>7 DEF ListenInv, ListenTypeOK
  <2>9. OneSend'
    BY <2>4, <2>7 DEF ListenInv, OneSend
  <2>10. NoneAhead'
    BY <2>4, <2>5, <2>7 DEF ListenInv, NoneAhead, Held
  <2>11. GoneHasSent'
    BY <2>4, <2>5, <2>7 DEF ListenInv, GoneHasSent
  <2>12. WaitingIsListening'
    BY <2>5, <2>7 DEF ListenInv, WaitingIsListening
  <2> QED
    BY <2>8, <2>9, <2>10, <2>11, <2>12 DEF ListenInv
<1> QED
  BY <1>1, <1>2 DEF Write

LEMMA RangeBeginsKeeps ==
  ASSUME ListenInv, NEW i \in DOMAIN notes, RangeBegins(i)
  PROVE  ListenInv'
<1> DEFINE n == [notes[i] EXCEPT !.ranging = TRUE, !.all = listener]
<1>1. /\ n \in NoteState
      /\ n.all = listener /\ n.sending = notes[i].sending
      /\ n.gone = notes[i].gone
  BY NoteTyped DEF NoteState, ListenInv, ListenTypeOK
<1>2. notes' = [notes EXCEPT ![i] = n] /\ UNCHANGED <<listener, poll>>
  BY DEF RangeBegins
<1> HIDE DEF n
<1>3. /\ notes' \in Seq(NoteState) /\ DOMAIN notes' = DOMAIN notes
      /\ notes'[i] = n
      /\ \A j \in DOMAIN notes : j # i => notes'[j] = notes[j]
  BY <1>1, <1>2, NoteMoves
<1>4. ListenTypeOK'
  BY <1>2, <1>3 DEF ListenInv, ListenTypeOK
<1>5. OneSend'
  BY <1>1, <1>3 DEF ListenInv, OneSend
<1>6. NoneAhead'
  BY <1>1, <1>2, <1>3 DEF ListenInv, NoneAhead, Held
<1>7. GoneHasSent'
  BY <1>1, <1>2, <1>3 DEF ListenInv, GoneHasSent
<1>8. WaitingIsListening'
  BY <1>1, <1>2, <1>3 DEF ListenInv, WaitingIsListening
<1> QED
  BY <1>4, <1>5, <1>6, <1>7, <1>8 DEF ListenInv

\* A stream's listener is no poll's: deleting it concerns no poll.
LEMMA CallStreamKeeps ==
  ASSUME ListenInv, NEW i \in DOMAIN notes, NEW s \in Streams, CallStream(i, s)
  PROVE  ListenInv'
<1>1. PICK gone \in {{}, {s}} :
        notes' = [notes EXCEPT ![i].seen = @ \cup {s},
                               ![i].gone = @ \cup gone]
  <2>1. CASE notes' = [notes EXCEPT ![i].seen = @ \cup {s}]
    <3>1. notes[i].gone = notes[i].gone \cup {} /\ notes[i] \in NoteState
      BY NoteTyped
    <3>2. notes' = [notes EXCEPT ![i].seen = @ \cup {s},
                                 ![i].gone = @ \cup {}]
      <4>1. [notes[i] EXCEPT !.seen = @ \cup {s}]
              = [notes[i] EXCEPT !.seen = @ \cup {s}, !.gone = @ \cup {}]
        BY <3>1 DEF NoteState
      <4>2. notes \in Seq(NoteState)
        BY DEF ListenInv, ListenTypeOK
      <4> QED
        BY <2>1, <4>1, <4>2
    <3> QED
      BY <3>2
  <2> QED
    BY <2>1 DEF CallStream
<1> DEFINE n == [notes[i] EXCEPT !.seen = @ \cup {s}, !.gone = @ \cup gone]
<1>2. /\ n \in NoteState
      /\ n.all = notes[i].all /\ n.sending = notes[i].sending
      /\ n.gone \subseteq notes[i].gone \cup {s}
  BY NoteTyped DEF NoteState, Listeners
<1>3. notes' = [notes EXCEPT ![i] = n] /\ UNCHANGED <<listener, poll>>
  BY <1>1 DEF CallStream
<1> HIDE DEF n
<1>4. /\ notes' \in Seq(NoteState) /\ DOMAIN notes' = DOMAIN notes
      /\ notes'[i] = n
      /\ \A j \in DOMAIN notes : j # i => notes'[j] = notes[j]
  BY <1>2, <1>3, NoteMoves
<1>5. \A p \in Polls, a \in Attempts : <<p, a>> # s
  BY LiveFeedAssumption DEF Attempts
<1>6. ListenTypeOK'
  BY <1>3, <1>4 DEF ListenInv, ListenTypeOK
<1>7. OneSend'
  BY <1>2, <1>4 DEF ListenInv, OneSend
<1>8. NoneAhead'
  <2>1. Held(n) \subseteq Held(notes[i]) \cup {s}
    BY <1>2 DEF Held
  <2> QED
    BY <1>3, <1>4, <2>1, NoneAheadStays
<1>9. GoneHasSent'
  BY <1>2, <1>3, <1>4, <1>5 DEF ListenInv, ListenTypeOK, GoneHasSent
<1>10. WaitingIsListening'
  BY <1>2, <1>3, <1>4 DEF ListenInv, WaitingIsListening
<1> QED
  BY <1>6, <1>7, <1>8, <1>9, <1>10 DEF ListenInv

LEMMA CallPollKeeps ==
  ASSUME ListenInv, NEW i \in DOMAIN notes, NEW l \in Polls \X Attempts,
         CallPoll(i, l)
  PROVE  ListenInv'
<1> DEFINE n == [notes[i] EXCEPT !.seen = @ \cup {l}, !.sending = {l}]
<1>1. PICK p \in Polls, a \in Attempts : l = <<p, a>>
  OBVIOUS
<1>2. /\ n \in NoteState
      /\ n.all = notes[i].all /\ n.sending = {l} /\ n.gone = notes[i].gone
  BY NoteTyped DEF NoteState, Listeners
<1>3. notes' = [notes EXCEPT ![i] = n] /\ UNCHANGED listener
  BY DEF CallPoll
<1> HIDE DEF n
<1>4. /\ notes' \in Seq(NoteState) /\ DOMAIN notes' = DOMAIN notes
      /\ notes'[i] = n
      /\ \A j \in DOMAIN notes : j # i => notes'[j] = notes[j]
  BY <1>2, <1>3, NoteMoves
<1>5. /\ DOMAIN poll' = Polls
      /\ \A q \in Polls :
           /\ DOMAIN poll'[q] = DOMAIN poll[q]
           /\ poll'[q].phase = poll[q].phase
           /\ poll'[q].attempt = poll[q].attempt
           /\ poll'[q].ch = poll[q].ch
  BY <1>1 DEF CallPoll, ListenInv, ListenTypeOK
<1>6. notes[i].sending = {} /\ l \in listener \cup notes[i].all
  BY DEF CallPoll, Meets
<1>7. ListenTypeOK'
  BY <1>3, <1>4, <1>5 DEF ListenInv, ListenTypeOK
<1>8. OneSend'
  BY <1>2, <1>4 DEF ListenInv, OneSend
<1>9. NoneAhead'
  <2>1. Held(n) \subseteq Held(notes[i]) \cup listener
    BY <1>2, <1>6 DEF Held
  <2> QED
    BY <1>3, <1>4, <1>5, <2>1, NoneAheadStays
<1>10. GoneHasSent'
  BY <1>2, <1>4, <1>5 DEF ListenInv, GoneHasSent
<1>11. WaitingIsListening'
  BY <1>2, <1>3, <1>4, <1>5, <1>6 DEF ListenInv, WaitingIsListening
<1> QED
  BY <1>7, <1>8, <1>9, <1>10, <1>11 DEF ListenInv

LEMMA PollListenerSendsKeeps ==
  ASSUME ListenInv, NEW i \in DOMAIN notes, NEW l \in Polls \X Attempts,
         PollListenerSends(i, l)
  PROVE  ListenInv'
<1> DEFINE n == [notes[i] EXCEPT !.sending = {}, !.gone = @ \cup {l}]
<1>1. PICK p \in Polls, a \in Attempts : l = <<p, a>>
  OBVIOUS
<1>2. /\ n \in NoteState
      /\ n.all = notes[i].all /\ n.sending = {}
      /\ n.gone = notes[i].gone \cup {l}
  BY NoteTyped DEF NoteState, Listeners
<1>3. notes' = [notes EXCEPT ![i] = n] /\ UNCHANGED listener
  BY DEF PollListenerSends
<1> HIDE DEF n
<1>4. /\ notes' \in Seq(NoteState) /\ DOMAIN notes' = DOMAIN notes
      /\ notes'[i] = n
      /\ \A j \in DOMAIN notes : j # i => notes'[j] = notes[j]
  BY <1>2, <1>3, NoteMoves
<1>5. poll' = [poll EXCEPT ![p].ch[a] = 1]
  BY <1>1 DEF PollListenerSends
<1>6. /\ DOMAIN poll' = Polls
      /\ \A q \in Polls :
           /\ DOMAIN poll'[q] = DOMAIN poll[q]
           /\ poll'[q].phase = poll[q].phase
           /\ poll'[q].attempt = poll[q].attempt
           /\ poll'[q].ch \in [Attempts -> 0..1]
           /\ \A b \in Attempts :
                poll'[q].ch[b] = IF <<q, b>> = <<p, a>> THEN 1 ELSE poll[q].ch[b]
  BY <1>5 DEF ListenInv, ListenTypeOK
<1>7. notes[i].sending \subseteq {l} /\ l \in notes[i].sending
  BY DEF PollListenerSends, ListenInv, OneSend
<1>8. ListenTypeOK'
  BY <1>3, <1>4, <1>6 DEF ListenInv, ListenTypeOK
<1>9. OneSend'
  BY <1>2, <1>4 DEF ListenInv, OneSend
<1>10. NoneAhead'
  <2>1. Held(n) \subseteq Held(notes[i]) \cup listener
    BY <1>2, <1>7 DEF Held
  <2> QED
    BY <1>3, <1>4, <1>6, <2>1, NoneAheadStays
<1>11. GoneHasSent'
  <2> SUFFICES ASSUME NEW q \in Polls, NEW j \in DOMAIN notes,
                      poll[q].phase = "waiting",
                      <<q, poll[q].attempt>> \in notes'[j].gone
               PROVE  poll'[q].ch[poll[q].attempt] = 1
    BY <1>4, <1>6 DEF GoneHasSent
  <2>1. poll[q].attempt \in Attempts
    BY DEF ListenInv, ListenTypeOK
  <2>2. CASE <<q, poll[q].attempt>> = <<p, a>>
    BY <1>6, <2>1, <2>2
  <2>3. CASE <<q, poll[q].attempt>> # <<p, a>>
    <3>1. <<q, poll[q].attempt>> \in notes[j].gone
      BY <1>1, <1>2, <1>4, <2>3
    <3>2. poll[q].ch[poll[q].attempt] = 1
      BY <3>1 DEF ListenInv, GoneHasSent
    <3> QED
      BY <1>6, <2>1, <2>3, <3>2
  <2> QED
    BY <2>2, <2>3
<1>12. WaitingIsListening'
  <2> SUFFICES ASSUME NEW q \in Polls, poll[q].phase = "waiting"
               PROVE  LET m == <<q, poll[q].attempt>>
                      IN  \/ m \in listener
                          \/ poll'[q].ch[m[2]] = 1
                          \/ \E j \in DOMAIN notes : m \in notes'[j].sending
    BY <1>3, <1>4, <1>6 DEF WaitingIsListening
  <2> DEFINE m == <<q, poll[q].attempt>>
  <2>1. poll[q].attempt \in Attempts /\ m[2] = poll[q].attempt
    BY DEF ListenInv, ListenTypeOK
  <2>2. CASE m = <<p, a>>
    BY <1>6, <2>1, <2>2
  <2>3. CASE m # <<p, a>>
    <3>1. m \notin notes[i].sending
      BY <1>1, <1>7, <2>3
    <3> QED
      BY <1>4, <1>6, <2>1, <2>3, <3>1 DEF ListenInv, WaitingIsListening
  <2> QED
    BY <2>2, <2>3
<1> QED
  BY <1>8, <1>9, <1>10, <1>11, <1>12 DEF ListenInv

\* The goroutine that ends was sending to nobody, and has sent to the channel
\* of the listener it deletes, if a poll waits for that one.
LEMMA RangeEndsKeeps ==
  ASSUME ListenInv, NEW i \in DOMAIN notes, RangeEnds(i)
  PROVE  ListenInv'
<1>1. notes \in Seq(NoteState)
  BY DEF ListenInv, ListenTypeOK
<1>2. /\ notes[i].sending = {} /\ listener' = listener \ notes[i].gone
      /\ notes' = RemoveAt(notes, i) /\ poll' = poll
  BY DEF RangeEnds
<1>3. /\ notes' \in Seq(NoteState)
      /\ \A k \in DOMAIN notes' : \E j \in DOMAIN notes : notes'[k] = notes[j]
      /\ \A j \in DOMAIN notes :
           j # i => \E k \in DOMAIN notes' : notes'[k] = notes[j]
  BY <1>1, <1>2, RemoveOne
<1>4. ListenTypeOK'
  BY <1>2, <1>3 DEF ListenInv, ListenTypeOK
<1>5. OneSend'
  BY <1>3 DEF ListenInv, OneSend
<1>6. NoneAhead'
  BY <1>2, <1>3, NoneAheadStays
<1>7. GoneHasSent'
  BY <1>2, <1>3 DEF ListenInv, GoneHasSent
<1>8. WaitingIsListening'
  <2> SUFFICES ASSUME NEW p \in Polls, poll[p].phase = "waiting"
               PROVE  LET l == <<p, poll[p].attempt>>
                      IN  \/ l \in listener'
                          \/ poll[p].ch[l[2]] = 1
                          \/ \E k \in DOMAIN notes' : l \in notes'[k].sending
    BY <1>2 DEF WaitingIsListening
  <2> DEFINE l == <<p, poll[p].attempt>>
  <2>1. CASE l \in listener /\ l \in notes[i].gone
    BY <2>1 DEF ListenInv, GoneHasSent
  <2>2. CASE l \in listener /\ l \notin notes[i].gone
    BY <1>2, <2>2
  <2>3. CASE poll[p].ch[l[2]] = 1
    BY <2>3
  <2>4. CASE \E j \in DOMAIN notes : l \in notes[j].sending
    BY <1>2, <1>3, <2>4
  <2> QED
    BY <2>1, <2>2, <2>3, <2>4 DEF ListenInv, WaitingIsListening
<1> QED
  BY <1>4, <1>5, <1>6, <1>7, <1>8 DEF ListenInv

LEMMA StreamsKeep ==
  ASSUME ListenInv, StreamNext
  PROVE  ListenInv'
<1>1. ASSUME NEW s \in Streams, StreamRegisters(s)
      PROVE  ListenInv'
  <2>1. /\ listener' = listener \cup {s} /\ UNCHANGED <<notes, poll>>
    BY <1>1 DEF StreamRegisters
  <2>2. ListenTypeOK'
    BY <2>1 DEF ListenInv, ListenTypeOK, Listeners
  <2>3. NoneAhead'
    BY <2>1, NoneAheadStays
  <2> QED
    BY <2>1, <2>2, <2>3
       DEF ListenInv, OneSend, GoneHasSent, WaitingIsListening
<1>2. ASSUME NEW s \in Streams,
             StreamReads(s) \/ StreamTakes(s) \/ StreamCloses(s)
      PROVE  ListenInv'
  BY <1>2, NothingMoves DEF StreamReads, StreamTakes, StreamCloses
<1> QED
  BY <1>1, <1>2 DEF StreamNext

LEMMA PollTyped ==
  ASSUME ListenInv, NEW p \in Polls
  PROVE  /\ DOMAIN poll = Polls
         /\ DOMAIN poll[p] = {"phase", "asked", "since", "attempt", "ch",
                              "timer", "woken", "answer"}
         /\ poll[p].attempt \in 0..2
         /\ poll[p].ch \in [Attempts -> 0..1]
BY DEF ListenInv, ListenTypeOK

LEMMA PollAsksKeeps ==
  ASSUME ListenInv, NEW p \in Polls, PollAsks(p)
  PROVE  ListenInv'
<1>1. poll[p].attempt = 0 /\ UNCHANGED notes
  BY DEF PollAsks, ListenInv, ListenTypeOK
<1>2. PICK since \in {Now} \cup 0..db.changesSeq :
        IF since = Now
        THEN /\ poll' = [poll EXCEPT ![p].phase = "waiting", ![p].attempt = 1,
                                     ![p].timer[1] = "armed"]
             /\ listener' = listener \cup {<<p, 1>>}
        ELSE /\ poll' = [poll EXCEPT ![p].phase = "reading", ![p].asked = since,
                                     ![p].since = since]
             /\ UNCHANGED listener
  BY DEF PollAsks
<1>3. CASE since = Now
  <2>1. /\ DOMAIN poll' = Polls
        /\ \A q \in Polls : q # p => poll'[q] = poll[q]
        /\ DOMAIN poll'[p] = DOMAIN poll[p]
        /\ poll'[p].phase = "waiting" /\ poll'[p].attempt = 1
        /\ poll'[p].ch = poll[p].ch
    BY <1>2, <1>3, PollTyped
  <2>2. 1 \in Attempts
    BY DEF Attempts
  <2> QED
    BY <1>1, <1>2, <1>3, <2>1, <2>2, PollWaits
<1>4. CASE since # Now
  <2>1. /\ DOMAIN poll' = Polls
        /\ \A q \in Polls : q # p => poll'[q] = poll[q]
        /\ DOMAIN poll'[p] = DOMAIN poll[p]
        /\ poll'[p].phase = "reading" /\ poll'[p].attempt = poll[p].attempt
        /\ poll'[p].ch = poll[p].ch
    BY <1>2, <1>4, PollTyped
  <2> QED
    BY <1>1, <1>2, <1>4, <2>1, PollTyped, PollGoesOn
<1> QED
  BY <1>3, <1>4

LEMMA TimerKeeps ==
  ASSUME ListenInv, NEW p \in Polls, TimerExpires(p) \/ TimerSends(p)
  PROVE  ListenInv'
<1>1. UNCHANGED <<listener, notes>>
  BY DEF TimerExpires, TimerSends
<1>2. ASSUME NEW a \in Attempts,
             poll' = [poll EXCEPT ![p].timer[a] = "sending"]
      PROVE  ListenInv'
  <2>1. /\ DOMAIN poll' = Polls
        /\ \A q \in Polls : q # p => poll'[q] = poll[q]
        /\ DOMAIN poll'[p] = DOMAIN poll[p]
        /\ poll'[p].phase = poll[p].phase
        /\ poll'[p].attempt = poll[p].attempt
        /\ poll'[p].ch = poll[p].ch
    BY <1>2, PollTyped
  <2> QED
    BY <1>1, <2>1, PollTyped, PollStays
<1>3. ASSUME NEW a \in Attempts,
             poll' = [poll EXCEPT ![p].timer[a] = "off", ![p].ch[a] = 1]
      PROVE  ListenInv'
  <2>1. /\ DOMAIN poll' = Polls
        /\ \A q \in Polls : q # p => poll'[q] = poll[q]
        /\ DOMAIN poll'[p] = DOMAIN poll[p]
        /\ poll'[p].phase = poll[p].phase
        /\ poll'[p].attempt = poll[p].attempt
        /\ poll'[p].ch = [poll[p].ch EXCEPT ![a] = 1]
    BY <1>3, PollTyped
  <2>2. /\ poll'[p].ch \in [Attempts -> 0..1]
        /\ \A b \in Attempts : poll[p].ch[b] = 1 => poll'[p].ch[b] = 1
    BY <2>1, PollTyped
  <2> QED
    BY <1>1, <2>1, <2>2, PollStays
<1> QED
  BY <1>2, <1>3 DEF TimerExpires, TimerSends

LEMMA PollWakesKeeps ==
  ASSUME ListenInv, NEW p \in Polls, PollWakes(p)
  PROVE  ListenInv'
<1> DEFINE a == poll[p].attempt
<1>1. /\ DOMAIN poll' = Polls
      /\ \A q \in Polls : q # p => poll'[q] = poll[q]
      /\ DOMAIN poll'[p] = DOMAIN poll[p]
      /\ poll'[p].phase = "reading"
      /\ poll'[p].attempt = poll[p].attempt
      /\ poll'[p].ch = [poll[p].ch EXCEPT ![a] = 0]
  BY PollTyped DEF PollWakes
<1> HIDE DEF a
<1>2. poll'[p].ch \in [Attempts -> 0..1]
  <2>1. poll[p].ch \in [Attempts -> 0..1] /\ 0 \in 0..1
    BY PollTyped
  <2> QED
    BY <1>1, <2>1
<1>3. UNCHANGED <<listener, notes>>
  BY DEF PollWakes
<1> QED
  BY <1>1, <1>2, <1>3, PollGoesOn

LEMMA PollReadsKeeps ==
  ASSUME ListenInv, NEW p \in Polls, PollReads(p)
  PROVE  ListenInv'
<1> DEFINE answer == Changes(db, poll[p].since, Limit)
<1>1. UNCHANGED notes
  BY DEF PollReads
<1>2. CASE poll[p].attempt < 2 /\ Retry(p)
  <2>1. /\ DOMAIN poll' = Polls
        /\ \A q \in Polls : q # p => poll'[q] = poll[q]
        /\ DOMAIN poll'[p] = DOMAIN poll[p]
        /\ poll'[p].phase = "waiting" /\ poll'[p].attempt = 2
        /\ poll'[p].ch = poll[p].ch
    BY <1>2, PollTyped DEF Retry
  <2>2. 2 \in Attempts /\ listener' = listener \cup {<<p, 2>>}
    BY <1>2 DEF Attempts, Retry
  <2> QED
    BY <1>1, <1>2, <2>1, <2>2, PollWaits
<1>3. CASE Answer(p, answer)
  <2>1. /\ DOMAIN poll' = Polls
        /\ \A q \in Polls : q # p => poll'[q] = poll[q]
        /\ DOMAIN poll'[p] = DOMAIN poll[p]
        /\ poll'[p].phase = "answered"
        /\ poll'[p].attempt = poll[p].attempt
        /\ poll'[p].ch = poll[p].ch
    BY <1>3, PollTyped DEF Answer
  <2>2. UNCHANGED listener
    BY <1>3 DEF Answer
  <2> QED
    BY <1>1, <2>1, <2>2, PollTyped, PollGoesOn
<1> QED
  BY <1>2, <1>3 DEF PollReads

-----------------------------------------------------------------------------
(* The theorem. *)

LEMMA InitListenInv == LiveInit => ListenInv
BY DEF LiveInit, ListenInv, ListenTypeOK, Attempts, OneSend, NoneAhead,
       GoneHasSent, WaitingIsListening

LEMMA NextListenInv == TypeOK /\ ListenInv /\ [LiveNext]_liveVars => ListenInv'
<1> SUFFICES ASSUME TypeOK, ListenInv, [LiveNext]_liveVars
             PROVE  ListenInv'
  OBVIOUS
<1>1. CASE Write
  BY <1>1, WriteKeeps
<1>2. CASE Notify
  BY <1>2, RangeBeginsKeeps, CallStreamKeeps, CallPollKeeps,
     PollListenerSendsKeeps, RangeEndsKeeps DEF Notify
<1>3. CASE StreamNext
  BY <1>3, StreamsKeep
<1>4. CASE PollNext
  BY <1>4, PollAsksKeeps, TimerKeeps, PollWakesKeeps, PollReadsKeeps
     DEF PollNext, PollRuns
<1>5. CASE UNCHANGED liveVars
  BY <1>5, NothingMoves DEF liveVars
<1> QED
  BY <1>1, <1>2, <1>3, <1>4, <1>5 DEF LiveNext

(***************************************************************************)
(* Whatever notification goroutines, timers and polls interleave, a        *)
(* longpoll request that waits is woken by the next change: its listener   *)
(* is registered, or was called, by a goroutine that has sent to its       *)
(* channel or is about to.                                                 *)
(***************************************************************************)
THEOREM WaitingPollsListen == LiveSpec => []WaitingIsListening
<1>1. LiveSpec => []TypeOK
  BY FeedRunsTheStore, TypeCorrect, PTL
<1>2. LiveSpec => []ListenInv
  BY <1>1, InitListenInv, NextListenInv, PTL DEF LiveSpec
<1>3. ListenInv => WaitingIsListening
  BY DEF ListenInv
<1> QED
  BY <1>2, <1>3, PTL

-----------------------------------------------------------------------------
(* Compaction, next to writers and crashes, for any _revs_limit.           *)
(* CompactionInv contains StoreInv, the part of the store's invariant that *)
(* survives the return to an older file.                                   *)

\* Facts about the buckets that every kind of step needs.

LEMMA NoneOpen ==
  ASSUME StoreInv, NEW bs \in Buckets, StoredKnown(bs), SequencesOK(bs),
         db' = bs, \A w \in Writers : pend'[w] \subseteq pend[w],
         pend' \in [Writers -> SUBSET Pending],
         UNCHANGED <<known, anc, dead, acked, overlapped>>
  PROVE  StoreInv'
<1>1. TypeOK'
  BY DEF StoreInv, TypeOK
<1>2. TreeOK' /\ \A d \in Docs : acked'[d] \subseteq known'[d]
  BY DEF StoreInv, TreeOK
<1>3. StoredKnown(db)' /\ SequencesOK(db)'
  BY DEF StoredKnown, SequencesOK
<1>4. PendOK'
  BY DEF StoreInv, PendOK
<1> QED
  BY <1>1, <1>2, <1>3, <1>4 DEF StoreInv

(***************************************************************************)
(* With nothing pending, transactions are sound if the buckets are.        *)
(***************************************************************************)
LEMMA QuietIsSound ==
  ASSUME NEW bs, StoredSound(bs), db' = bs, dead' = dead,
         \A w \in Writers : pend'[w] = {}
  PROVE  Sound'
<1>1. StoredSound(db)'
  BY DEF StoredSound, DeadAt
<1>2. OnePending' /\ PendSound'
  BY DEF OnePending, PendSound
<1> QED
  BY <1>1, <1>2 DEF Sound

LEMMA FewerPendingSound ==
  ASSUME Sound, UNCHANGED <<db, dead>>,
         \A w \in Writers : pend'[w] \subseteq pend[w]
  PROVE  Sound'
<1>1. StoredSound(db)'
  BY DEF Sound, StoredSound, DeadAt
<1>2. OnePending'
  BY DEF Sound, OnePending
<1>3. PendSound'
  <2>1. \A w \in Writers : \A p \in pend'[w] : p \in pend[w]
    OBVIOUS
  <2> QED
    BY <2>1 DEF Sound, PendSound, DeadAt, ExtendsLeaf, ChgOwn
<1> QED
  BY <1>1, <1>2, <1>3 DEF Sound

LEMMA StoredSoundStays ==
  ASSUME NEW bs, StoredSound(bs), dead' = dead
  PROVE  \A d \in Docs : \A r \in leafRevs(bs, d) :
           bs.leaves[d][r].deleted <=> r \in dead'[d]
  BY DEF StoredSound, DeadAt

-----------------------------------------------------------------------------
(* Cutting the histories. *)

\* doc with its history cut.
Cut(doc) == [doc EXCEPT !.hist = SubSeq(@, 1, RevsLimit)]

LEMMA CutDocument ==
  ASSUME NEW doc \in Document, Long(doc)
  PROVE  /\ Cut(doc) \in Document
         /\ Cut(doc).rev = doc.rev /\ Cut(doc).deleted = doc.deleted
         /\ Cut(doc).hist = SubSeq(doc.hist, 1, RevsLimit)
<1> DEFINE h == doc.hist
           c == SubSeq(h, 1, RevsLimit)
<1>1. h \in Seq(Rev) /\ Len(h) > RevsLimit
  BY DocIsNotNil DEF Long
<1>2. Cut(doc) = [doc EXCEPT !.hist = c]
  BY DEF Cut
<1> HIDE DEF h
<1>3. c \in Seq(Rev)
  BY <1>1, CompactionAssumption
<1> HIDE DEF c
<1>4. /\ Cut(doc) \in Document
      /\ Cut(doc).rev = doc.rev /\ Cut(doc).deleted = doc.deleted
      /\ Cut(doc).hist = c
  BY <1>2, <1>3 DEF Document
<1> QED
  BY <1>4 DEF c, h

LEMMA LongIsDocument ==
  ASSUME NEW doc \in Document \cup {NoDoc}, Long(doc)
  PROVE  doc \in Document
<1>1. NoDoc.hist = <<>>
  BY DEF NoDoc
<1>2. Len(NoDoc.hist) = 0
  BY <1>1
<1> QED
  BY <1>2, CompactionAssumption DEF Long

LEMMA CutHeads ==
  ASSUME NEW r, NEW doc \in Document, Long(doc), Heads(r, doc.hist)
  PROVE  Heads(r, Cut(doc).hist)
<1> DEFINE h == doc.hist
           c == SubSeq(h, 1, RevsLimit)
<1>1. h \in Seq(Rev) /\ Len(h) > RevsLimit /\ h[1] = r
  BY DocIsNotNil DEF Heads, Long
<1>2. Cut(doc).hist = c
  BY CutDocument
<1> HIDE DEF h
<1>3. Len(c) = RevsLimit /\ c[1] = h[1] /\ c \in Seq(Rev)
  BY <1>1, CompactionAssumption
<1> HIDE DEF c
<1>4. c # <<>>
  BY <1>3, CompactionAssumption
<1> QED
  BY <1>1, <1>2, <1>3, <1>4 DEF Heads

(***************************************************************************)
(* What the log of the trim holds: documents of the buckets, cut.          *)
(***************************************************************************)
LEMMA TrimLog ==
  ASSUME NEW bs \in Buckets, NEW p \in compactDocuments(bs)
  PROVE  /\ p.id \in Docs
         /\ \/ /\ p.bucket = "docs" /\ Long(bs.docs[p.id])
               /\ p.doc = Cut(bs.docs[p.id])
            \/ /\ p.bucket = "doc_leaves"
               /\ \E r \in leafRevs(bs, p.id) :
                    /\ Long(bs.leaves[p.id][r])
                    /\ p.doc = Cut(bs.leaves[p.id][r])
<1>1. CASE \E d \in Docs : Long(bs.docs[d]) /\ p = Trim("docs", d, bs.docs[d])
  BY <1>1 DEF Trim, Cut
<1>2. ASSUME NEW d \in Docs, NEW r \in leafRevs(bs, d), Long(bs.leaves[d][r]),
             p = Trim("doc_leaves", d, bs.leaves[d][r])
      PROVE  /\ p.id = d /\ p.bucket = "doc_leaves"
             /\ p.doc = Cut(bs.leaves[d][r])
  BY <1>2 DEF Trim, Cut
<1>3. \/ \E d \in Docs : Long(bs.docs[d]) /\ p = Trim("docs", d, bs.docs[d])
      \/ \E d \in Docs : \E r \in leafRevs(bs, d) :
           Long(bs.leaves[d][r]) /\ p = Trim("doc_leaves", d, bs.leaves[d][r])
  BY DEF compactDocuments
<1> QED
  BY <1>1, <1>2, <1>3

LEMMA TrimLogType ==
  ASSUME NEW bs \in Buckets, StoredKnown(bs), NEW p \in compactDocuments(bs)
  PROVE  /\ p.doc \in Document
         /\ p.doc.rev \in known[p.id]
<1>1. p.id \in Docs
  BY TrimLog
<1>2. CASE Long(bs.docs[p.id]) /\ p.doc = Cut(bs.docs[p.id])
  <2>1. bs.docs[p.id] \in Document
    BY <1>1, <1>2, LongIsDocument DEF Buckets
  <2>2. bs.docs[p.id].rev \in known[p.id]
    BY <1>1, <2>1, DocIsNotNil DEF StoredKnown
  <2> QED
    BY <1>2, <2>1, <2>2, CutDocument
<1>3. ASSUME NEW r \in leafRevs(bs, p.id), Long(bs.leaves[p.id][r]),
             p.doc = Cut(bs.leaves[p.id][r])
      PROVE  p.doc \in Document /\ p.doc.rev \in known[p.id]
  <2>1. bs.leaves[p.id][r] \in Document
    BY <1>1, LeafIsDocument
  <2>2. bs.leaves[p.id][r].rev \in known[p.id]
    BY <1>1 DEF StoredKnown
  <2> QED
    BY <1>3, <2>1, <2>2, CutDocument
<1> QED
  BY <1>2, <1>3, TrimLog

(* The parts of ApplyTrim. *)
TrimPut(puts, old) == IF puts = {} THEN old ELSE (CHOOSE p \in puts : TRUE).doc

DocPuts(log, d) == {p \in log : p.bucket = "docs" /\ p.id = d}

LeafPuts(log, d, r) ==
  {p \in log : p.bucket = "doc_leaves" /\ p.id = d /\ p.doc.rev = r}

TrimmedDocs(bs, log) == [d \in Docs |-> TrimPut(DocPuts(log, d), bs.docs[d])]

TrimmedLeaves(bs, log) ==
  [d \in Docs |-> [r \in Rev |-> TrimPut(LeafPuts(log, d, r), bs.leaves[d][r])]]

LEMMA TrimPutIs ==
  ASSUME NEW puts, NEW old
  PROVE  TrimPut(puts, old) = old \/ \E p \in puts : TrimPut(puts, old) = p.doc
  BY DEF TrimPut

LEMMA TrimFields ==
  ASSUME NEW bs \in Buckets, NEW log
  PROVE  LET c == ApplyTrim(bs, log)
         IN  /\ c = [bs EXCEPT !.docs = TrimmedDocs(bs, log),
                               !.leaves = TrimmedLeaves(bs, log)]
             /\ c.docs = TrimmedDocs(bs, log)
             /\ c.leaves = TrimmedLeaves(bs, log)
             /\ c.changes = bs.changes /\ c.changesSeq = bs.changesSeq
             /\ c.inval = bs.inval /\ c.invalSeq = bs.invalSeq
             /\ c.deleted = bs.deleted
<1> DEFINE c == ApplyTrim(bs, log)
<1>1. c = [bs EXCEPT !.docs = TrimmedDocs(bs, log),
                     !.leaves = TrimmedLeaves(bs, log)]
  BY DEF ApplyTrim, TrimmedDocs, TrimmedLeaves, DocPuts, LeafPuts, TrimPut
<1> HIDE DEF c
<1> QED
  BY <1>1 DEF Buckets, c

(***************************************************************************)
(* Applying the trim's log changes nothing but what it holds.              *)
(***************************************************************************)
LEMMA TrimApplied ==
  ASSUME NEW bs \in Buckets, NEW log
  PROVE  LET c == ApplyTrim(bs, log)
         IN  /\ \A d \in Docs :
                  \/ c.docs[d] = bs.docs[d]
                  \/ \E p \in log : /\ p.bucket = "docs" /\ p.id = d
                                    /\ c.docs[d] = p.doc
             /\ \A d \in Docs : \A r \in Rev :
                  \/ c.leaves[d][r] = bs.leaves[d][r]
                  \/ \E p \in log : /\ p.bucket = "doc_leaves" /\ p.id = d
                                    /\ p.doc.rev = r /\ c.leaves[d][r] = p.doc
<1> DEFINE c == ApplyTrim(bs, log)
<1>1. c.docs = TrimmedDocs(bs, log) /\ c.leaves = TrimmedLeaves(bs, log)
  BY TrimFields
<1> HIDE DEF c
<1>2. ASSUME NEW d \in Docs
      PROVE  \/ c.docs[d] = bs.docs[d]
             \/ \E p \in log : /\ p.bucket = "docs" /\ p.id = d
                               /\ c.docs[d] = p.doc
  <2>1. c.docs[d] = TrimPut(DocPuts(log, d), bs.docs[d])
    BY <1>1 DEF TrimmedDocs
  <2>2. \/ c.docs[d] = bs.docs[d]
        \/ \E p \in DocPuts(log, d) : c.docs[d] = p.doc
    BY <2>1, TrimPutIs
  <2> QED
    BY <2>2 DEF DocPuts
<1>3. ASSUME NEW d \in Docs, NEW r \in Rev
      PROVE  \/ c.leaves[d][r] = bs.leaves[d][r]
             \/ \E p \in log : /\ p.bucket = "doc_leaves" /\ p.id = d
                               /\ p.doc.rev = r /\ c.leaves[d][r] = p.doc
  <2>1. c.leaves[d][r] = TrimPut(LeafPuts(log, d, r), bs.leaves[d][r])
    BY <1>1 DEF TrimmedLeaves
  <2>2. \/ c.leaves[d][r] = bs.leaves[d][r]
        \/ \E p \in LeafPuts(log, d, r) : c.leaves[d][r] = p.doc
    BY <2>1, TrimPutIs
  <2> QED
    BY <2>2 DEF LeafPuts
<1> QED
  BY <1>2, <1>3 DEF c

LEMMA TrimType ==
  ASSUME NEW bs \in Buckets, NEW log, \A p \in log : p.doc \in Document
  PROVE  ApplyTrim(bs, log) \in Buckets
<1> DEFINE c == ApplyTrim(bs, log)
           docs == TrimmedDocs(bs, log)
           leaves == TrimmedLeaves(bs, log)
<1>1. c = [bs EXCEPT !.docs = docs, !.leaves = leaves]
      /\ c.docs = docs /\ c.leaves = leaves
  BY TrimFields
<1>2. \A d \in Docs : \/ c.docs[d] = bs.docs[d]
                      \/ \E p \in log : c.docs[d] = p.doc
  BY TrimApplied
<1>3. \A d \in Docs : \A r \in Rev : \/ c.leaves[d][r] = bs.leaves[d][r]
                                     \/ \E p \in log : c.leaves[d][r] = p.doc
  BY TrimApplied
<1> HIDE DEF c
<1>4. docs \in [Docs -> Document \cup {NoDoc}]
  <2>1. \A d \in Docs : docs[d] \in Document \cup {NoDoc}
    BY <1>1, <1>2 DEF Buckets
  <2> QED
    BY <2>1 DEF TrimmedDocs
<1>5. leaves \in [Docs -> [Rev -> Document \cup {NoDoc}]]
  <2>1. \A d \in Docs : \A r \in Rev : leaves[d][r] \in Document \cup {NoDoc}
    BY <1>1, <1>3 DEF Buckets
  <2> QED
    BY <2>1 DEF TrimmedLeaves
<1> HIDE DEF docs, leaves
<1>6. c \in Buckets
  BY <1>1, <1>4, <1>5 DEF Buckets
<1> QED
  BY <1>6 DEF c

(***************************************************************************)
(* When nothing was written since its log was made, the trim cuts          *)
(* histories and nothing else.                                             *)
(***************************************************************************)
LEMMA TrimOnlyCuts ==
  ASSUME NEW bs \in Buckets, StoredKnown(bs)
  PROVE  LET c == ApplyTrim(bs, compactDocuments(bs))
         IN  \A d \in Docs :
               /\ \/ c.docs[d] = bs.docs[d]
                  \/ Long(bs.docs[d]) /\ c.docs[d] = Cut(bs.docs[d])
               /\ \A r \in Rev :
                    \/ c.leaves[d][r] = bs.leaves[d][r]
                    \/ /\ r \in leafRevs(bs, d) /\ Long(bs.leaves[d][r])
                       /\ c.leaves[d][r] = Cut(bs.leaves[d][r])
<1> DEFINE log == compactDocuments(bs)
           c == ApplyTrim(bs, log)
<1> HIDE DEF log
<1>1. ASSUME NEW d \in Docs
      PROVE  \/ c.docs[d] = bs.docs[d]
             \/ Long(bs.docs[d]) /\ c.docs[d] = Cut(bs.docs[d])
  <2>1. ASSUME NEW p \in log, p.bucket = "docs", p.id = d
        PROVE  Long(bs.docs[d]) /\ p.doc = Cut(bs.docs[d])
    BY <2>1, TrimLog DEF log
  <2> QED
    BY <2>1, TrimApplied
<1>2. ASSUME NEW d \in Docs, NEW r \in Rev
      PROVE  \/ c.leaves[d][r] = bs.leaves[d][r]
             \/ /\ r \in leafRevs(bs, d) /\ Long(bs.leaves[d][r])
                /\ c.leaves[d][r] = Cut(bs.leaves[d][r])
  <2>1. ASSUME NEW p \in log, p.bucket = "doc_leaves", p.id = d, p.doc.rev = r
        PROVE  /\ r \in leafRevs(bs, d) /\ Long(bs.leaves[d][r])
               /\ p.doc = Cut(bs.leaves[d][r])
    <3>1. PICK s \in leafRevs(bs, d) : /\ Long(bs.leaves[d][s])
                                       /\ p.doc = Cut(bs.leaves[d][s])
      BY <2>1, TrimLog DEF log
    <3>2. bs.leaves[d][s] \in Document /\ bs.leaves[d][s].rev = s
      BY LeafIsDocument DEF StoredKnown
    <3>3. p.doc.rev = s
      BY <3>1, <3>2, CutDocument
    <3> QED
      BY <2>1, <3>1, <3>3
  <2> QED
    BY <2>1, TrimApplied
<1> QED
  BY <1>1, <1>2 DEF log


(***************************************************************************)
(* Cutting histories keeps what holds of the buckets.                      *)
(***************************************************************************)
LEMMA CutsKeepSound ==
  ASSUME NEW bs \in Buckets, NEW c \in Buckets, NEW d \in Docs,
         SoundAt(bs, d), DeadAt(bs, d),
         c.changes = bs.changes, c.inval = bs.inval, c.deleted = bs.deleted,
         \/ c.docs[d] = bs.docs[d]
         \/ Long(bs.docs[d]) /\ c.docs[d] = Cut(bs.docs[d]),
         \A r \in Rev :
           \/ c.leaves[d][r] = bs.leaves[d][r]
           \/ /\ r \in leafRevs(bs, d) /\ Long(bs.leaves[d][r])
              /\ c.leaves[d][r] = Cut(bs.leaves[d][r])
  PROVE  SoundAt(c, d) /\ DeadAt(c, d)
<1>1. /\ c.docs[d] = NoDoc <=> bs.docs[d] = NoDoc
      /\ c.docs[d].rev = bs.docs[d].rev
      /\ c.docs[d].deleted = bs.docs[d].deleted
  <2>1. CASE c.docs[d] = bs.docs[d]
    BY <2>1
  <2>2. CASE Long(bs.docs[d]) /\ c.docs[d] = Cut(bs.docs[d])
    <3>1. bs.docs[d] \in Document
      BY <2>2, LongIsDocument DEF Buckets
    <3> QED
      BY <2>2, <3>1, CutDocument, DocIsNotNil
  <2> QED
    BY <2>1, <2>2
<1>2. ASSUME NEW r \in Rev
      PROVE  /\ c.leaves[d][r] = NoDoc <=> bs.leaves[d][r] = NoDoc
             /\ c.leaves[d][r].deleted = bs.leaves[d][r].deleted
  <2>1. CASE c.leaves[d][r] = bs.leaves[d][r]
    BY <2>1
  <2>2. CASE /\ r \in leafRevs(bs, d) /\ Long(bs.leaves[d][r])
             /\ c.leaves[d][r] = Cut(bs.leaves[d][r])
    BY <2>2, LeafIsDocument, CutDocument, DocIsNotNil
  <2> QED
    BY <2>1, <2>2
<1>3. leafRevs(c, d) = leafRevs(bs, d)
  BY <1>2 DEF leafRevs
<1>4. \A r \in leafRevs(c, d) : Heads(r, c.leaves[d][r].hist)
  <2> SUFFICES ASSUME NEW r \in leafRevs(c, d)
               PROVE  Heads(r, c.leaves[d][r].hist)
    OBVIOUS
  <2>1. /\ r \in Rev /\ r \in leafRevs(bs, d)
        /\ bs.leaves[d][r] \in Document
    BY <1>3, LeafIsDocument
  <2>2. Heads(r, bs.leaves[d][r].hist)
    BY <2>1 DEF SoundAt, LeavesHeadHistoryAt
  <2>3. CASE c.leaves[d][r] = bs.leaves[d][r]
    BY <2>2, <2>3
  <2>4. CASE Long(bs.leaves[d][r]) /\ c.leaves[d][r] = Cut(bs.leaves[d][r])
    BY <2>1, <2>2, <2>4, CutHeads
  <2> QED
    BY <2>1, <2>3, <2>4
<1>5. WinnerRuleAt(c, d)
  <2>1. bs.docs[d] # NoDoc => bs.docs[d].rev \in leafRevs(bs, d)
    BY DEF SoundAt, WinnerRuleAt
  <2>2. \A r \in leafRevs(bs, d) : r \in Rev
    BY DEF leafRevs
  <2> QED
    BY <1>1, <1>2, <1>3, <2>1, <2>2 DEF SoundAt, WinnerRuleAt
<1>6. IndicesExactAt(c, d)
  BY <1>1 DEF SoundAt, IndicesExactAt
<1>7. DeadAt(c, d)
  <2>1. \A r \in leafRevs(bs, d) : r \in Rev
    BY DEF leafRevs
  <2> QED
    BY <1>2, <1>3, <2>1 DEF DeadAt
<1> QED
  BY <1>4, <1>5, <1>6, <1>7 DEF SoundAt, LeavesHeadHistoryAt

LEMMA TrimSound ==
  ASSUME NEW bs \in Buckets, StoredKnown(bs), StoredSound(bs)
  PROVE  StoredSound(ApplyTrim(bs, compactDocuments(bs)))
<1> DEFINE log == compactDocuments(bs)
           c == ApplyTrim(bs, log)
<1>1. c \in Buckets
  BY TrimLogType, TrimType
<1>2. c.changes = bs.changes /\ c.inval = bs.inval /\ c.deleted = bs.deleted
  BY TrimFields
<1>3. \A d \in Docs :
        /\ \/ c.docs[d] = bs.docs[d]
           \/ Long(bs.docs[d]) /\ c.docs[d] = Cut(bs.docs[d])
        /\ \A r \in Rev :
             \/ c.leaves[d][r] = bs.leaves[d][r]
             \/ /\ r \in leafRevs(bs, d) /\ Long(bs.leaves[d][r])
                /\ c.leaves[d][r] = Cut(bs.leaves[d][r])
  BY TrimOnlyCuts
<1> HIDE DEF c
<1>4. ASSUME NEW d \in Docs
      PROVE  SoundAt(c, d) /\ DeadAt(c, d)
  <2>1. SoundAt(bs, d) /\ DeadAt(bs, d)
    BY DEF StoredSound
  <2> QED
    BY <1>1, <1>2, <1>3, <2>1, CutsKeepSound
<1>5. StoredSound(c)
  BY <1>4 DEF StoredSound
<1> QED
  BY <1>5 DEF c

(***************************************************************************)
(* Even when the log is older than the buckets, the trim stores nothing    *)
(* that was not minted and removes no leaf.                                *)
(***************************************************************************)
LEMMA TrimKnown ==
  ASSUME NEW bs \in Buckets, StoredKnown(bs), SequencesOK(bs), NEW log,
         \A p \in log : p.id \in Docs /\ p.doc \in Document
                        /\ p.doc.rev \in known[p.id]
  PROVE  LET c == ApplyTrim(bs, log)
         IN  /\ c \in Buckets /\ StoredKnown(c) /\ SequencesOK(c)
             /\ \A d \in Docs : leafRevs(bs, d) \subseteq leafRevs(c, d)
<1> DEFINE c == ApplyTrim(bs, log)
<1>1. c \in Buckets
  BY TrimType
<1>2. /\ c.changes = bs.changes /\ c.changesSeq = bs.changesSeq
      /\ c.invalSeq = bs.invalSeq
  BY TrimFields
<1>3. \A d \in Docs :
        \/ c.docs[d] = bs.docs[d]
        \/ \E p \in log : p.bucket = "docs" /\ p.id = d /\ c.docs[d] = p.doc
  BY TrimApplied
<1>4. \A d \in Docs : \A r \in Rev :
        \/ c.leaves[d][r] = bs.leaves[d][r]
        \/ \E p \in log : /\ p.bucket = "doc_leaves" /\ p.id = d
                          /\ p.doc.rev = r /\ c.leaves[d][r] = p.doc
  BY TrimApplied
<1> HIDE DEF c
<1>5. SequencesOK(c)
  BY <1>2 DEF SequencesOK
<1>6. ASSUME NEW d \in Docs, c.docs[d] # NoDoc
      PROVE  c.docs[d].rev \in known[d]
  BY <1>3, <1>6 DEF StoredKnown
<1>7. ASSUME NEW d \in Docs, NEW r \in leafRevs(c, d)
      PROVE  r \in known[d] /\ c.leaves[d][r].rev = r
  <2>1. r \in Rev /\ c.leaves[d][r] # NoDoc
    BY DEF leafRevs
  <2>2. CASE c.leaves[d][r] = bs.leaves[d][r]
    BY <2>1, <2>2 DEF leafRevs, StoredKnown
  <2>3. ASSUME NEW p \in log, p.id = d, p.doc.rev = r, c.leaves[d][r] = p.doc
        PROVE  r \in known[d] /\ c.leaves[d][r].rev = r
    BY <2>3
  <2> QED
    BY <1>4, <2>1, <2>2, <2>3
<1>8. ASSUME NEW d \in Docs, NEW r \in leafRevs(bs, d)
      PROVE  r \in leafRevs(c, d)
  <2>1. r \in Rev /\ bs.leaves[d][r] # NoDoc
    BY DEF leafRevs
  <2>2. c.leaves[d][r] # NoDoc
    BY <1>4, <2>1, DocIsNotNil
  <2> QED
    BY <2>1, <2>2 DEF leafRevs
<1>9. /\ c \in Buckets /\ StoredKnown(c) /\ SequencesOK(c)
      /\ \A d \in Docs : leafRevs(bs, d) \subseteq leafRevs(c, d)
  BY <1>1, <1>5, <1>6, <1>7, <1>8 DEF StoredKnown
<1> QED
  BY <1>9 DEF c

LEMMA TrimLogRecords ==
  ASSUME NEW bs \in Buckets
  PROVE  compactDocuments(bs)
           \subseteq [bucket : {"docs", "doc_leaves"}, id : Docs, doc : Document]
<1>1. ASSUME NEW d \in Docs, NEW doc \in Document \cup {NoDoc}, Long(doc),
             NEW bucket \in {"docs", "doc_leaves"}
      PROVE  Trim(bucket, d, doc)
               \in [bucket : {"docs", "doc_leaves"}, id : Docs, doc : Document]
  <2>1. Cut(doc) \in Document
    BY <1>1, LongIsDocument, CutDocument
  <2>2. Trim(bucket, d, doc) = [bucket |-> bucket, id |-> d, doc |-> Cut(doc)]
    BY DEF Trim, Cut
  <2> QED
    BY <2>1, <2>2
<1>2. \A d \in Docs : bs.docs[d] \in Document \cup {NoDoc}
  BY DEF Buckets
<1>3. \A d \in Docs : \A r \in leafRevs(bs, d) :
        bs.leaves[d][r] \in Document \cup {NoDoc}
  BY LeafIsDocument
<1>4. \A p \in compactDocuments(bs) :
        \/ \E d \in Docs : Long(bs.docs[d]) /\ p = Trim("docs", d, bs.docs[d])
        \/ \E d \in Docs : \E r \in leafRevs(bs, d) :
             Long(bs.leaves[d][r]) /\ p = Trim("doc_leaves", d, bs.leaves[d][r])
  BY DEF compactDocuments
<1> QED
  BY <1>1, <1>2, <1>3, <1>4


-----------------------------------------------------------------------------
(* The steps. *)

LEMMA EmptyBucketsType == EmptyBuckets \in Buckets
<1>1. 0 \in 0..MaxSeq
  BY DocTxAssumption
<1> QED
  BY <1>1 DEF EmptyBuckets, Buckets

LEMMA CompactionStarts == CompactionInit => CompactionInv
<1> SUFFICES ASSUME CompactionInit PROVE CompactionInv
  OBVIOUS
<1>1. IInv /\ SerialInv
  BY InitIInv, InitSerial DEF CompactionInit
<1>2. EmptyBuckets \in Buckets
  BY EmptyBucketsType
<1>3. compaction = Idle /\ Idle \in CompactionState
  BY <1>2 DEF CompactionInit, Idle, CompactionState
<1>4. compaction.phase = "idle" /\ compaction.log = {}
  BY <1>3 DEF Idle
<1>5. CompactionTypeOK
  BY <1>1, <1>3 DEF CompactionInit, CompactionTypeOK, IInv, StoreInv
<1>6. CopyOK /\ CopyCovers
  BY <1>4 DEF CopyOK, CopyCovers, HasCopy
<1>7. LossOnlyWhileCopying
  BY <1>1 DEF IInv, AckedNotLost, LossOnlyWhileCopying
<1>8. QuietSound
  BY <1>1, <1>4 DEF QuietSound, SerialInv, HasCopy
<1> QED
  BY <1>1, <1>5, <1>6, <1>7, <1>8 DEF CompactionInv, IInv, SerialInv

(***************************************************************************)
(* A write reads its snapshot, or a peer mints a revision.                 *)
(***************************************************************************)
LEMMA BeginKeepsCompaction ==
  ASSUME CompactionInv, BeginWhileOpen
  PROVE  CompactionInv'
<1>1. /\ compaction' = compaction /\ leftover' = leftover
      /\ window' = window /\ lost' = lost /\ mixed' = mixed
      /\ BeginEdit \/ PeerNext
  BY DEF BeginWhileOpen
<1>2. StoreInv' /\ Grown /\ db' = db /\ acked' = acked
  BY <1>1, NextBegan DEF CompactionInv, Began
<1>3. /\ FlagsKept /\ (overlapped => overlapped')
      /\ (Sound /\ ~overlapped' => Sound')
  BY <1>1, NextBeganSound DEF CompactionInv, BeganSound
<1>4. CompactionTypeOK'
  BY <1>1, <1>2 DEF CompactionInv, CompactionTypeOK, StoreInv
<1>5. CopyOK'
  <2>1. ASSUME HasCopy
        PROVE  StoredKnown(compaction.copy)' /\ SequencesOK(compaction.copy)'
    <3>1. StoredKnown(compaction.copy) /\ SequencesOK(compaction.copy)
      BY <2>1 DEF CompactionInv, CopyOK
    <3>2. StoredKnown(compaction.copy)'
      BY <1>1, <1>2, <3>1, StoredKnownGrown DEF StoredKnown
    <3> QED
      BY <1>1, <3>1, <3>2 DEF SequencesOK
  <2>2. \A p \in compaction.log : p.id \in Docs
    BY DEF CompactionInv, CompactionTypeOK, CompactionState
  <2>3. \A p \in compaction'.log : p.doc.rev \in known'[p.id]
    BY <1>1, <1>2, <2>2 DEF Grown, CompactionInv, CopyOK
  <2> QED
    BY <1>1, <2>1, <2>3 DEF CopyOK, HasCopy
<1>6. LossOnlyWhileCopying'
  <2>1. ASSUME NEW d \in Docs, NEW r \in acked[d] \ lost[d]
        PROVE  Covered(db, d, r)'
    <3>1. Covered(db, d, r) /\ StoredKnown(db)
      BY DEF CompactionInv, StoreInv, LossOnlyWhileCopying
    <3> QED
      BY <1>2, <3>1, CoveredGrown DEF Covered
  <2> QED
    BY <1>1, <1>2, <2>1 DEF LossOnlyWhileCopying
<1>7. CopyCovers'
  <2>1. ASSUME HasCopy, NEW d \in Docs,
               NEW r \in acked[d] \ (lost[d] \cup window[d])
        PROVE  Covered(compaction.copy, d, r)'
    <3>1. Covered(compaction.copy, d, r) /\ StoredKnown(compaction.copy)
      BY <2>1 DEF CompactionInv, CopyOK, CopyCovers
    <3>2. \E l \in leafRevs(compaction.copy, d) : r = l \/ r \in anc'[d][l]
      BY <1>2, <3>1, CoveredGrown
    <3> QED
      BY <1>1, <3>2 DEF Covered
  <2> QED
    BY <1>1, <1>2, <2>1 DEF CopyCovers, HasCopy
<1>8. QuietSound'
  <2> SUFFICES ASSUME ~mixed', ~overlapped'
               PROVE  /\ Sound'
                      /\ HasCopy' => StoredSound(compaction.copy)'
                      /\ compaction'.phase = "trimming" =>
                           compaction'.log = compactDocuments(db')
    BY DEF QuietSound
  <2>1. /\ Sound
        /\ HasCopy => StoredSound(compaction.copy)
        /\ compaction.phase = "trimming" => compaction.log = compactDocuments(db)
    BY <1>1, <1>3 DEF CompactionInv, QuietSound
  <2>2. ASSUME HasCopy
        PROVE  StoredSound(compaction.copy)'
    <3>1. StoredSound(compaction.copy) /\ StoredKnown(compaction.copy)
      BY <2>1, <2>2 DEF CompactionInv, CopyOK
    <3>2. \A d \in Docs : \A r \in leafRevs(compaction.copy, d) :
            compaction.copy.leaves[d][r].deleted <=> r \in dead'[d]
      BY <1>3, <3>1, StaysSound
    <3> QED
      BY <1>1, <3>1, <3>2 DEF StoredSound, DeadAt
  <2> QED
    BY <1>1, <1>2, <1>3, <2>1, <2>2 DEF HasCopy
<1> QED
  BY <1>2, <1>3, <1>4, <1>5, <1>6, <1>7, <1>8 DEF CompactionInv, FlagsKept

(***************************************************************************)
(* A write commits.  What commits while there is a copy is in the window.  *)
(***************************************************************************)
LEMMA CommitKeepsCompaction ==
  ASSUME CompactionInv, NEW w \in Writers, NEW p \in pend[w],
         CommitWhileOpen(w, p)
  PROVE  CompactionInv'
<1>1. /\ Open /\ Commit(w, p)
      /\ compaction' = compaction /\ leftover' = leftover /\ lost' = lost
      /\ window' = [window EXCEPT ![p.op.id] =
                      IF compaction.phase = "copied" THEN @ \cup {p.rev} ELSE @]
      /\ mixed' = (mixed \/ compaction.phase = "trimming")
  BY DEF CommitWhileOpen
<1>2. /\ known' = known /\ anc' = anc /\ dead' = dead
      /\ overlapped' = overlapped
  BY <1>1 DEF Commit
<1>3. StoreInv' /\ StoreInv
  BY <1>1, CommitKeepsStore DEF CompactionInv
<1>4. p \in Pending /\ p.op.id \in Docs /\ p.rev \in Rev
  BY <1>1, <1>3, CommitType DEF Pending
<1>5. window' \in [Docs -> SUBSET Rev]
      /\ \A d \in Docs : window[d] \subseteq window'[d]
      /\ compaction.phase = "copied" => p.rev \in window'[p.op.id]
  BY <1>1, <1>4 DEF CompactionInv, CompactionTypeOK
<1>6. CompactionTypeOK'
  <2>1. mixed' \in BOOLEAN
    BY <1>1 DEF CompactionInv, CompactionTypeOK
  <2> QED
    BY <1>1, <1>3, <1>5, <2>1 DEF CompactionInv, CompactionTypeOK, StoreInv
<1>7. DeadKnown' /\ CopyOK'
  BY <1>1, <1>2 DEF CompactionInv, DeadKnown, CopyOK, HasCopy, StoredKnown,
                    SequencesOK
<1>8. LossOnlyWhileCopying'
  <2>1. ASSUME NEW d \in Docs, NEW r \in acked'[d], r \notin lost[d]
        PROVE  Covered(db, d, r)'
    <3>1. r \in acked[d] \/ (d = p.op.id /\ r = p.rev)
      BY <1>1, <1>3, CommitAcks
    <3>2. Covered(db, d, r) \/ (d = p.op.id /\ r = p.rev)
      BY <2>1, <3>1 DEF CompactionInv, LossOnlyWhileCopying
    <3> QED
      BY <1>1, <1>3, <3>2, CommitCovers
  <2> QED
    BY <1>1, <2>1 DEF LossOnlyWhileCopying
<1>9. CopyCovers'
  <2> SUFFICES ASSUME HasCopy', NEW d \in Docs, NEW r \in acked'[d],
                      r \notin lost'[d] \cup window'[d]
               PROVE  Covered(compaction.copy, d, r)'
    BY DEF CopyCovers
  <2>1. HasCopy /\ compaction.phase = "copied"
    BY <1>1 DEF HasCopy, Open
  <2>2. r \in acked[d]
    BY <1>1, <1>3, <1>5, <2>1, CommitAcks
  <2>3. Covered(compaction.copy, d, r)
    BY <1>1, <1>5, <2>1, <2>2 DEF CompactionInv, CopyCovers
  <2> QED
    BY <1>1, <1>2, <2>3 DEF Covered
<1>10. QuietSound'
  <2> SUFFICES ASSUME ~mixed', ~overlapped'
               PROVE  /\ Sound'
                      /\ HasCopy' => StoredSound(compaction.copy)'
                      /\ compaction'.phase # "trimming"
    BY DEF QuietSound
  <2>1. ~mixed /\ ~overlapped /\ compaction.phase # "trimming"
    BY <1>1, <1>2
  <2>2. Sound /\ (HasCopy => StoredSound(compaction.copy))
    BY <2>1 DEF CompactionInv, QuietSound
  <2>3. Sound'
    BY <1>1, <1>3, <2>2, CommitSound
  <2>4. HasCopy' => StoredSound(compaction.copy)'
    BY <1>1, <1>2, <2>2 DEF HasCopy, StoredSound, DeadAt
  <2> QED
    BY <1>1, <2>1, <2>3, <2>4
<1> QED
  BY <1>3, <1>6, <1>7, <1>8, <1>9, <1>10 DEF CompactionInv

(***************************************************************************)
(* What the steps have in common that leave the buckets alone and at most  *)
(* abandon transactions.                                                   *)
(***************************************************************************)
LEMMA BucketsStay ==
  ASSUME CompactionInv, UNCHANGED <<db, known, anc, dead, acked, overlapped>>,
         lost' = lost, mixed' = mixed,
         pend' \in [Writers -> SUBSET Pending],
         \A w \in Writers : pend'[w] \subseteq pend[w]
  PROVE  /\ StoreInv' /\ DeadKnown' /\ LossOnlyWhileCopying'
         /\ ~mixed' /\ ~overlapped' => Sound'
<1>1. StoreInv /\ db \in Buckets /\ StoredKnown(db) /\ SequencesOK(db)
  BY DEF CompactionInv, StoreInv, TypeOK
<1>2. StoreInv'
  BY <1>1, NoneOpen
<1>3. DeadKnown' /\ LossOnlyWhileCopying'
  BY DEF CompactionInv, DeadKnown, LossOnlyWhileCopying, Covered
<1>4. ASSUME ~mixed', ~overlapped' PROVE Sound'
  BY <1>4, FewerPendingSound DEF CompactionInv, QuietSound
<1> QED
  BY <1>2, <1>3, <1>4

(***************************************************************************)
(* A step after which there is no copy and no log.                         *)
(***************************************************************************)
LEMMA BecomesIdle ==
  ASSUME StoreInv', DeadKnown', LossOnlyWhileCopying',
         ~mixed' /\ ~overlapped' => Sound',
         compaction' = Idle, leftover' \in BOOLEAN, mixed' \in BOOLEAN,
         window' \in [Docs -> SUBSET Rev], lost' \in [Docs -> SUBSET Rev]
  PROVE  CompactionInv'
<1>1. compaction'.phase = "idle" /\ compaction'.log = {}
  BY DEF Idle
<1>2. Idle \in CompactionState
  <2>1. EmptyBuckets \in Buckets
    BY EmptyBucketsType
  <2> QED
    BY <2>1 DEF Idle, CompactionState
<1>3. CompactionTypeOK'
  BY <1>2 DEF CompactionTypeOK, StoreInv
<1>4. CopyOK' /\ CopyCovers' /\ QuietSound'
  BY <1>1 DEF CopyOK, CopyCovers, QuietSound, HasCopy
<1> QED
  BY <1>3, <1>4 DEF CompactionInv


(***************************************************************************)
(* A step that neither begins nor commits a write, nor changes the file,   *)
(* and moves to a phase with the same copy and no log.                     *)
(***************************************************************************)
LEMMA CopyStays ==
  ASSUME CompactionInv, StoreInv', DeadKnown', LossOnlyWhileCopying',
         ~mixed' /\ ~overlapped' => Sound',
         UNCHANGED <<known, anc, dead, acked, overlapped, leftover, window, lost,
                     mixed>>,
         NEW phase \in {"copied", "closed"}, HasCopy,
         compaction' = [compaction EXCEPT !.phase = phase]
  PROVE  CompactionInv'
<1>1. /\ compaction' \in CompactionState
      /\ compaction'.phase = phase
      /\ compaction'.log = compaction.log
      /\ compaction'.copy = compaction.copy
  BY DEF CompactionInv, CompactionTypeOK, CompactionState
<1>2. CompactionTypeOK'
  BY <1>1 DEF CompactionInv, CompactionTypeOK, StoreInv
<1>3. CopyOK' /\ CopyCovers'
  BY <1>1 DEF CompactionInv, CopyOK, CopyCovers, HasCopy, StoredKnown,
              SequencesOK, Covered
<1>4. QuietSound'
  BY <1>1 DEF CompactionInv, QuietSound, HasCopy, StoredSound, DeadAt
<1> QED
  BY <1>2, <1>3, <1>4 DEF CompactionInv

LEMMA CommitFailsKeepsCompaction ==
  ASSUME CompactionInv, NEW w \in Writers, NEW p \in pend[w], CommitFails(w, p)
  PROVE  CompactionInv'
<1>1. /\ pend' = [pend EXCEPT ![w] = {}] /\ pend \in [Writers -> SUBSET Pending]
      /\ UNCHANGED <<db, known, anc, dead, acked, overlapped>>
      /\ UNCHANGED <<compaction, leftover, window, lost, mixed>>
      /\ compaction.phase = "closed"
  BY DEF CommitFails, Open, CompactionInv, StoreInv, TypeOK
<1>2. /\ pend' \in [Writers -> SUBSET Pending]
      /\ \A v \in Writers : pend'[v] \subseteq pend[v]
  BY <1>1
<1>3. /\ StoreInv' /\ DeadKnown' /\ LossOnlyWhileCopying'
      /\ ~mixed' /\ ~overlapped' => Sound'
  BY <1>1, <1>2, BucketsStay
<1>4. compaction' = [compaction EXCEPT !.phase = "closed"] /\ HasCopy
  BY <1>1 DEF CompactionInv, CompactionTypeOK, CompactionState, HasCopy
<1> DEFINE phase == "closed"
<1>5. phase \in {"copied", "closed"} /\ compaction' = [compaction EXCEPT !.phase = phase]
  BY <1>4
<1> HIDE DEF phase
<1> QED
  BY <1>1, <1>3, <1>4, <1>5, CopyStays

LEMMA TrimBeginsKeepsCompaction ==
  ASSUME CompactionInv, TrimBegins
  PROVE  CompactionInv'
<1> DEFINE log == compactDocuments(db)
<1>1. /\ UNCHANGED <<db, pend, known, anc, dead, acked, overlapped>>
      /\ UNCHANGED <<leftover, window, lost, mixed>>
      /\ compaction' = [compaction EXCEPT !.phase = "trimming", !.log = log]
  BY DEF TrimBegins, vars
<1>2. db \in Buckets /\ StoredKnown(db) /\ pend \in [Writers -> SUBSET Pending]
  BY DEF CompactionInv, StoreInv, TypeOK
<1>3. /\ StoreInv' /\ DeadKnown' /\ LossOnlyWhileCopying'
      /\ ~mixed' /\ ~overlapped' => Sound'
  BY <1>1, <1>2, BucketsStay
<1>4. /\ log \subseteq [bucket : {"docs", "doc_leaves"}, id : Docs, doc : Document]
      /\ \A p \in log : p.doc.rev \in known[p.id]
  BY <1>2, TrimLogRecords, TrimLogType
<1>5. log' = log
  BY <1>1 DEF compactDocuments, Trim, Long, leafRevs
<1> HIDE DEF log
<1>6. /\ compaction' \in CompactionState
      /\ compaction'.phase = "trimming" /\ compaction'.log = log
  BY <1>1, <1>4 DEF CompactionInv, CompactionTypeOK, CompactionState
<1>7. CompactionTypeOK'
  BY <1>1, <1>3, <1>6 DEF CompactionInv, CompactionTypeOK, StoreInv
<1>8. CopyOK' /\ CopyCovers'
  BY <1>1, <1>4, <1>6 DEF CopyOK, CopyCovers, HasCopy
<1>9. QuietSound'
  <2>1. compaction'.log = compactDocuments(db')
    BY <1>5, <1>6 DEF log
  <2> QED
    BY <1>3, <1>6, <2>1 DEF QuietSound, HasCopy
<1> QED
  BY <1>3, <1>7, <1>8, <1>9 DEF CompactionInv

(***************************************************************************)
(* The log is applied to whatever the database is by now.                  *)
(***************************************************************************)
LEMMA TrimCommitsKeepsCompaction ==
  ASSUME CompactionInv, TrimCommits
  PROVE  CompactionInv'
<1> DEFINE bs == ApplyTrim(db, compaction.log)
<1>1. /\ UNCHANGED <<pend, known, anc, dead, acked, overlapped>>
      /\ UNCHANGED <<leftover, window, lost>>
      /\ compaction' = [compaction EXCEPT !.phase = "trimmed", !.log = {}]
      /\ compaction.phase = "trimming"
      /\ db' = bs
      /\ mixed' = (mixed \/ WriterPending)
  BY DEF TrimCommits
<1>2. /\ StoreInv /\ db \in Buckets /\ StoredKnown(db) /\ SequencesOK(db)
      /\ pend \in [Writers -> SUBSET Pending]
  BY DEF CompactionInv, StoreInv, TypeOK
<1>3. \A p \in compaction.log : /\ p.id \in Docs /\ p.doc \in Document
                                /\ p.doc.rev \in known[p.id]
  BY DEF CompactionInv, CompactionTypeOK, CompactionState, CopyOK
<1>4. /\ bs \in Buckets /\ StoredKnown(bs) /\ SequencesOK(bs)
      /\ \A d \in Docs : leafRevs(db, d) \subseteq leafRevs(bs, d)
  BY <1>2, <1>3, TrimKnown
<1>5. ASSUME ~mixed', ~overlapped'
      PROVE  Sound'
  <2>1. ~mixed /\ ~overlapped /\ \A w \in Writers : pend'[w] = {}
    BY <1>1, <1>5 DEF WriterPending
  <2>2. Sound /\ compaction.log = compactDocuments(db)
    BY <1>1, <2>1 DEF CompactionInv, QuietSound
  <2>3. StoredSound(bs)
    BY <1>2, <2>2, TrimSound DEF Sound
  <2> HIDE DEF bs
  <2> QED
    BY <1>1, <2>1, <2>3, QuietIsSound
<1> HIDE DEF bs
<1>6. StoreInv'
  BY <1>1, <1>2, <1>4, NoneOpen
<1>7. DeadKnown'
  BY <1>1 DEF CompactionInv, DeadKnown
<1>8. LossOnlyWhileCopying'
  BY <1>1, <1>4 DEF CompactionInv, LossOnlyWhileCopying, Covered
<1>9. /\ compaction' \in CompactionState
      /\ compaction'.phase = "trimmed" /\ compaction'.log = {}
  BY <1>1 DEF CompactionInv, CompactionTypeOK, CompactionState
<1>10. CompactionTypeOK'
  <2>1. mixed' \in BOOLEAN
    BY <1>1 DEF CompactionInv, CompactionTypeOK
  <2> QED
    BY <1>1, <1>6, <1>9, <2>1 DEF CompactionInv, CompactionTypeOK, StoreInv
<1>11. CopyOK' /\ CopyCovers'
  BY <1>9 DEF CopyOK, CopyCovers, HasCopy
<1>12. QuietSound'
  BY <1>5, <1>9 DEF QuietSound, HasCopy
<1> QED
  BY <1>6, <1>7, <1>8, <1>10, <1>11, <1>12 DEF CompactionInv

LEMMA CopiesKeepsCompaction ==
  ASSUME CompactionInv, Copies
  PROVE  CompactionInv'
<1>1. /\ UNCHANGED <<db, pend, known, anc, dead, acked, overlapped>>
      /\ UNCHANGED <<window, lost, mixed>>
      /\ leftover' = FALSE
      /\ \/ compaction' = Idle
         \/ compaction' = [compaction EXCEPT !.phase = "copied", !.copy = db]
  BY DEF Copies, vars
<1>2. /\ db \in Buckets /\ StoredKnown(db) /\ SequencesOK(db)
      /\ pend \in [Writers -> SUBSET Pending]
  BY DEF CompactionInv, StoreInv, TypeOK
<1>3. /\ StoreInv' /\ DeadKnown' /\ LossOnlyWhileCopying'
      /\ ~mixed' /\ ~overlapped' => Sound'
  BY <1>1, <1>2, BucketsStay
<1>4. CASE compaction' = Idle
  BY <1>1, <1>3, <1>4, BecomesIdle DEF CompactionInv, CompactionTypeOK
<1>5. CASE compaction' = [compaction EXCEPT !.phase = "copied", !.copy = db]
  <2>1. /\ compaction' \in CompactionState
        /\ compaction'.phase = "copied" /\ compaction'.log = compaction.log
        /\ compaction'.copy = db
    BY <1>2, <1>5 DEF CompactionInv, CompactionTypeOK, CompactionState
  <2>2. CompactionTypeOK'
    BY <1>1, <1>3, <2>1 DEF CompactionInv, CompactionTypeOK, StoreInv
  <2>3. CopyOK'
    BY <1>1, <1>2, <2>1
       DEF CompactionInv, CopyOK, HasCopy, StoredKnown, SequencesOK
  <2>4. CopyCovers'
    BY <1>1, <2>1 DEF CompactionInv, LossOnlyWhileCopying, CopyCovers, Covered
  <2>5. QuietSound'
    <3>1. Sound' => StoredSound(compaction.copy)'
      BY <1>1, <2>1 DEF Sound, StoredSound, DeadAt
    <3> QED
      BY <1>3, <2>1, <3>1 DEF QuietSound
  <2> QED
    BY <1>3, <2>2, <2>3, <2>4, <2>5 DEF CompactionInv
<1> QED
  BY <1>1, <1>4, <1>5

LEMMA ClosesKeepsCompaction ==
  ASSUME CompactionInv, Closes
  PROVE  CompactionInv'
<1> DEFINE phase == "closed"
<1>1. /\ UNCHANGED <<db, pend, known, anc, dead, acked, overlapped>>
      /\ UNCHANGED <<leftover, window, lost, mixed>>
      /\ compaction' = [compaction EXCEPT !.phase = phase]
      /\ HasCopy
  BY DEF Closes, vars, HasCopy
<1>2. phase \in {"copied", "closed"}
  OBVIOUS
<1> HIDE DEF phase
<1>3. pend \in [Writers -> SUBSET Pending]
  BY DEF CompactionInv, StoreInv, TypeOK
<1>4. /\ StoreInv' /\ DeadKnown' /\ LossOnlyWhileCopying'
      /\ ~mixed' /\ ~overlapped' => Sound'
  BY <1>1, <1>3, BucketsStay
<1> QED
  BY <1>1, <1>2, <1>4, CopyStays


(***************************************************************************)
(* The copy takes the place of the file: what was accepted since it was    *)
(* made is lost, and nothing else.                                         *)
(***************************************************************************)
LEMMA CopyInPlace ==
  ASSUME CompactionInv, HasCopy, PutInPlace,
         UNCHANGED <<known, anc, dead, acked, overlapped>>,
         compaction' = Idle, window' = [d \in Docs |-> {}],
         pend' \in [Writers -> SUBSET Pending],
         \A w \in Writers : pend'[w] \subseteq pend[w],
         mixed' \in BOOLEAN,
         ~mixed' => ~mixed /\ \A w \in Writers : pend'[w] = {}
  PROVE  CompactionInv'
<1> DEFINE copy == compaction.copy
<1>1. /\ db' = copy /\ leftover' = leftover
      /\ lost' = [d \in Docs |-> lost[d] \cup window[d]]
  BY DEF PutInPlace
<1>2. /\ StoreInv /\ copy \in Buckets
      /\ window \in [Docs -> SUBSET Rev] /\ lost \in [Docs -> SUBSET Rev]
      /\ leftover \in BOOLEAN
  BY DEF CompactionInv, CompactionTypeOK, CompactionState
<1>3. StoredKnown(copy) /\ SequencesOK(copy)
  BY DEF CompactionInv, CopyOK
<1>4. \A d \in Docs : \A r \in acked[d] \ (lost[d] \cup window[d]) :
        Covered(copy, d, r)
  BY DEF CompactionInv, CopyCovers
<1>5. ~mixed /\ ~overlapped => StoredSound(copy)
  BY DEF CompactionInv, QuietSound
<1> HIDE DEF copy
<1>6. StoreInv'
  BY <1>1, <1>2, <1>3, NoneOpen
<1>7. DeadKnown'
  BY DEF CompactionInv, DeadKnown
<1>8. LossOnlyWhileCopying'
  BY <1>1, <1>4 DEF LossOnlyWhileCopying, Covered
<1>9. ASSUME ~mixed', ~overlapped' PROVE Sound'
  BY <1>1, <1>5, <1>9, QuietIsSound
<1>10. /\ window' \in [Docs -> SUBSET Rev] /\ lost' \in [Docs -> SUBSET Rev]
       /\ leftover' \in BOOLEAN
  BY <1>1, <1>2
<1> QED
  BY <1>6, <1>7, <1>8, <1>9, <1>10, BecomesIdle

LEMMA SwapsKeepsCompaction ==
  ASSUME CompactionInv, Swaps
  PROVE  CompactionInv'
<1>1. /\ UNCHANGED <<pend, known, anc, dead, acked, overlapped>>
      /\ compaction' = Idle /\ window' = [d \in Docs |-> {}]
      /\ \/ PutInPlace /\ mixed' = (mixed \/ WriterPending)
         \/ RenameFails /\ mixed' = mixed
      /\ HasCopy
  BY DEF Swaps, HasCopy
<1>2. /\ pend \in [Writers -> SUBSET Pending]
      /\ mixed \in BOOLEAN /\ lost \in [Docs -> SUBSET Rev]
      /\ window' \in [Docs -> SUBSET Rev]
  BY <1>1 DEF CompactionInv, CompactionTypeOK, StoreInv, TypeOK
<1>3. CASE PutInPlace /\ mixed' = (mixed \/ WriterPending)
  <2>1. mixed' \in BOOLEAN
    BY <1>2, <1>3
  <2>2. ~mixed' => ~mixed /\ \A w \in Writers : pend'[w] = {}
    BY <1>1, <1>3 DEF WriterPending
  <2> QED
    BY <1>1, <1>2, <1>3, <2>1, <2>2, CopyInPlace
<1>4. CASE RenameFails /\ mixed' = mixed
  <2>1. leftover' = TRUE /\ db' = db /\ lost' = lost
    BY <1>4 DEF RenameFails
  <2>2. /\ StoreInv' /\ DeadKnown' /\ LossOnlyWhileCopying'
        /\ ~mixed' /\ ~overlapped' => Sound'
    BY <1>1, <1>2, <1>4, <2>1, BucketsStay
  <2> QED
    BY <1>1, <1>2, <1>4, <2>1, <2>2, BecomesIdle
<1> QED
  BY <1>1, <1>3, <1>4

LEMMA CrashKeepsCompaction ==
  ASSUME CompactionInv, Crash
  PROVE  CompactionInv'
<1>1. /\ UNCHANGED <<known, anc, dead, acked, overlapped>>
      /\ mixed' = mixed
      /\ pend' = [w \in Writers |-> {}]
      /\ compaction' = Idle /\ window' = [d \in Docs |-> {}]
      /\ \/ HasCopy /\ PutInPlace
         \/ RenameFails
         \/ UNCHANGED <<db, leftover, lost>>
  BY DEF Crash, HasCopy
<1>2. /\ pend' \in [Writers -> SUBSET Pending]
      /\ \A w \in Writers : pend'[w] = {} /\ pend'[w] \subseteq pend[w]
      /\ mixed' \in BOOLEAN /\ lost \in [Docs -> SUBSET Rev]
      /\ leftover \in BOOLEAN
      /\ window' \in [Docs -> SUBSET Rev]
  BY <1>1 DEF CompactionInv, CompactionTypeOK, StoreInv, TypeOK
<1>3. CASE HasCopy /\ PutInPlace
  BY <1>1, <1>2, <1>3, CopyInPlace
<1>4. CASE RenameFails \/ UNCHANGED <<db, leftover, lost>>
  <2>1. leftover' \in BOOLEAN /\ db' = db /\ lost' = lost
    BY <1>2, <1>4 DEF RenameFails
  <2>2. /\ StoreInv' /\ DeadKnown' /\ LossOnlyWhileCopying'
        /\ ~mixed' /\ ~overlapped' => Sound'
    BY <1>1, <1>2, <2>1, BucketsStay
  <2> QED
    BY <1>1, <1>2, <2>1, <2>2, BecomesIdle
<1> QED
  BY <1>1, <1>3, <1>4

LEMMA CompactionStutters ==
  ASSUME CompactionInv, UNCHANGED compactionVars
  PROVE  CompactionInv'
<1>1. /\ UNCHANGED <<db, pend, known, anc, dead, acked, overlapped>>
      /\ UNCHANGED <<compaction, leftover, window, lost, mixed>>
      /\ pend \in [Writers -> SUBSET Pending]
  BY DEF compactionVars, vars, CompactionInv, StoreInv, TypeOK
<1>2. /\ StoreInv' /\ DeadKnown' /\ LossOnlyWhileCopying'
      /\ ~mixed' /\ ~overlapped' => Sound'
  BY <1>1, BucketsStay
<1>3. CompactionTypeOK'
  BY <1>1, <1>2 DEF CompactionInv, CompactionTypeOK, StoreInv
<1>4. CopyOK' /\ CopyCovers'
  BY <1>1 DEF CompactionInv, CopyOK, CopyCovers, HasCopy, StoredKnown,
              SequencesOK, Covered
<1>5. QuietSound'
  <2>1. compactDocuments(db)' = compactDocuments(db)
    BY <1>1 DEF compactDocuments, Trim, Long, leafRevs
  <2> QED
    BY <1>1, <1>2, <2>1
       DEF CompactionInv, QuietSound, HasCopy, StoredSound, DeadAt
<1> QED
  BY <1>2, <1>3, <1>4, <1>5 DEF CompactionInv

-----------------------------------------------------------------------------
(* The theorems. *)

(***************************************************************************)
(* The inductive invariant: the file and its copy hold only what was       *)
(* minted, the copy holds what was accepted before the window, and while   *)
(* nothing came between the steps of writers and compaction, everything    *)
(* there is is sound.                                                      *)
(***************************************************************************)
THEOREM CompactionInductive == CompactionSpec => []CompactionInv
<1>1. CompactionInit => CompactionInv
  BY CompactionStarts
<1>2. CompactionInv /\ [CompactionNext]_compactionVars => CompactionInv'
  <2> SUFFICES ASSUME CompactionInv, [CompactionNext]_compactionVars
               PROVE  CompactionInv'
    OBVIOUS
  <2>1. ASSUME NEW w \in Writers, NEW p \in pend[w],
               CommitWhileOpen(w, p) \/ CommitFails(w, p)
        PROVE  CompactionInv'
    BY <2>1, CommitKeepsCompaction, CommitFailsKeepsCompaction
  <2>2. CASE BeginWhileOpen
    BY <2>2, BeginKeepsCompaction
  <2>3. CASE TrimBegins \/ TrimCommits
    BY <2>3, TrimBeginsKeepsCompaction, TrimCommitsKeepsCompaction
  <2>4. CASE Copies \/ Closes
    BY <2>4, CopiesKeepsCompaction, ClosesKeepsCompaction
  <2>5. CASE Swaps \/ Crash
    BY <2>5, SwapsKeepsCompaction, CrashKeepsCompaction
  <2>6. CASE UNCHANGED compactionVars
    BY <2>6, CompactionStutters
  <2> QED
    BY <2>1, <2>2, <2>3, <2>4, <2>5, <2>6 DEF CompactionNext
<1> QED
  BY <1>1, <1>2, PTL DEF CompactionSpec

(***************************************************************************)
(* Database.Compact loses an accepted revision only if it was accepted     *)
(* between the copy of the file and its closing, and the copy was put in   *)
(* place: whatever the trim, failed renames, leftovers and crashes do.     *)
(***************************************************************************)
THEOREM LossOnlyInWindow == CompactionSpec => []LossOnlyWhileCopying
<1>1. CompactionInv => LossOnlyWhileCopying
  BY DEF CompactionInv
<1> QED
  BY <1>1, CompactionInductive, PTL

(***************************************************************************)
(* A compaction that comes between no two steps of a writer leaves the     *)
(* winners, the indices and the answers of _revs_diff as they should be,   *)
(* for every _revs_limit and wherever a crash hits.                        *)
(***************************************************************************)
THEOREM QuietCompactionHarmless ==
  CompactionSpec => []CompactionBetweenWritesHarmless
<1>1. CompactionInv => CompactionBetweenWritesHarmless
  <2> SUFFICES ASSUME CompactionInv, ~mixed, ~overlapped
               PROVE  WinnerRule /\ IndicesExact /\ RevsDiffKnowsLeaves
    BY DEF CompactionBetweenWritesHarmless
  <2>1. db \in Buckets /\ \A d \in Docs : SoundAt(db, d)
    BY DEF CompactionInv, CompactionTypeOK, TypeOK, QuietSound, Sound, StoredSound
  <2>2. WinnerRule /\ IndicesExact
    BY <2>1 DEF WinnerRule, IndicesExact, SoundAt
  <2>3. RevsDiffKnowsLeaves
    BY <2>1, GetDocumentNamesLeaves DEF RevsDiffKnowsLeaves
  <2> QED
    BY <2>2, <2>3
<1> QED
  BY <1>1, CompactionInductive, PTL

=============================================================================
