------------------------------ MODULE DocStore ------------------------------
(***************************************************************************)
(* The document store of one goydb database: writers that run document     *)
(* transactions (Database.PutDocument, PutDocumentForReplication and       *)
(* DeleteDocument), each in two steps as the engine runs them.  The first  *)
(* step reads everything at one snapshot and collects an operation log;    *)
(* the second applies the log atomically.  Nothing compares the snapshot   *)
(* with the database the log is applied to, so with two writers the steps  *)
(* of two transactions interleave.                                         *)
(*                                                                         *)
(* The environment is a set of peers that edit documents too and deliver   *)
(* any revision, in any order and any number of times, with its true       *)
(* history cut anywhere (replication, _bulk_docs with new_edits=false).    *)
(***************************************************************************)
EXTENDS DocTx

CONSTANTS Writers,  \* goroutines that run document transactions
          MaxRevs   \* bound: revisions minted per document

VARIABLES db,       \* the buckets of the database
          pend,     \* pend[w]: {} or the transaction w has yet to commit
          known,    \* history: known[d], the revisions minted anywhere
          anc,      \* history: anc[d][r], the true ancestors of r
          dead,     \* history: dead[d], the minted revisions that are deletions
          acked,    \* history: acked[d], the revisions this database accepted
          overlapped  \* history: a transaction began while another was
                      \* pending

vars == <<db, pend, known, anc, dead, acked, overlapped>>

\* rev: the revision the caller was given or handed in; edit: a local edit of
\* revision base, rather than a delivery by a peer.
Pending == [op : OpLog, rev : Rev, edit : BOOLEAN, base : Rev \cup {NoRev}]

TypeOK ==
  /\ db \in Buckets
  /\ pend \in [Writers -> SUBSET Pending]
  /\ known \in [Docs -> SUBSET Rev]
  /\ anc \in [Docs -> [Rev -> SUBSET Rev]]
  /\ dead \in [Docs -> SUBSET Rev]
  /\ acked \in [Docs -> SUBSET Rev]
  /\ overlapped \in BOOLEAN

Init ==
  /\ db = EmptyBuckets
  /\ pend = [w \in Writers |-> {}]
  /\ known = [d \in Docs |-> {}]
  /\ anc = [d \in Docs |-> [r \in Rev |-> {}]]
  /\ dead = [d \in Docs |-> {}]
  /\ acked = [d \in Docs |-> {}]
  /\ overlapped = FALSE

-----------------------------------------------------------------------------
(* Minting revisions.  The hash of a revision covers the content and the   *)
(* revision edited, so a revision has one parent and one deleted flag      *)
(* wherever it is minted.                                                  *)

Lineage(d, base) == IF base = NoRev THEN {} ELSE {base} \cup anc[d][base]

Mint(d, base, new, deleted) ==
  /\ new \in Rev
  /\ Cardinality(known[d] \cup {new}) <= MaxRevs
  /\ new \in known[d] => /\ anc[d][new] = Lineage(d, base)
                         /\ deleted = (new \in dead[d])
  /\ known' = [known EXCEPT ![d] = @ \cup {new}]
  /\ anc' = [anc EXCEPT ![d][new] = Lineage(d, base)]
  /\ dead' = [dead EXCEPT ![d] = IF deleted THEN @ \cup {new} ELSE @]

\* The histories a peer may send with r: r and its nearest ancestors.
PeerHistories(d, r) ==
  {h \in BoundedSeq({r} \cup anc[d][r], HistCap) :
     /\ h # <<>> /\ h[1] = r
     /\ \A i \in 2..Len(h) :
          /\ h[i] \in anc[d][r]
          /\ anc[d][h[i-1]] = {h[i]} \cup anc[d][h[i]]}

\* A peer edits revision base, or creates the document.
PeerEdit(d, base, hash, deleted) ==
  /\ Mint(d, base, NewRev(base, hash), deleted)
  /\ UNCHANGED <<db, pend, acked, overlapped>>

-----------------------------------------------------------------------------
(* The first step of each transaction. *)

Begin(w, op, rev, edit, base) ==
  /\ pend[w] = {}
  /\ pend' = [pend EXCEPT ![w] =
                {[op |-> op, rev |-> rev, edit |-> edit, base |-> base]}]
  /\ overlapped' = (overlapped \/ \E v \in Writers : pend[v] # {})
  /\ UNCHANGED <<db, acked>>

\* A client puts a document; base is the _rev it sends.
BeginPut(w, d, base, hash, deleted) ==
  LET new == NewRev(base, hash)
  IN  /\ ValidUpdateRevision(db.docs[d], base)
      /\ Mint(d, base, new, deleted)
      /\ Begin(w, PutDocument(db, d, new, deleted), new, TRUE, base)

\* A client deletes the winner or a conflicting leaf.
BeginDelete(w, d, rev, hash) ==
  LET new == NewRev(rev, hash)
  IN  /\ db.docs[d] # NoDoc
      /\ rev = db.docs[d].rev \/ rev \in leafRevs(db, d)
      /\ Mint(d, rev, new, TRUE)
      /\ Begin(w, DeleteDocument(db, d, rev, new), new, TRUE, rev)

\* A peer delivers revision r with history h.
BeginReplicate(w, d, r, h) ==
  /\ r # db.docs[d].rev
  /\ LET doc == [rev |-> r, deleted |-> r \in dead[d], hist |-> h]
     IN  Begin(w, PutDocumentForReplication(db, d, doc), r, FALSE, NoRev)
  /\ UNCHANGED <<known, anc, dead>>

\* The second step: the log is applied to whatever the database is now.
Commit(w, p) ==
  /\ db.changesSeq < MaxSeq
  /\ db' = Apply(db, p.op)
  /\ pend' = [pend EXCEPT ![w] = {}]
  /\ acked' = [acked EXCEPT ![p.op.id] = @ \cup {p.rev}]
  /\ UNCHANGED <<known, anc, dead, overlapped>>

\* A client edits or deletes a document.
BeginEdit ==
  \E w \in Writers, d \in Docs, hash \in Hashes :
    \/ \E base \in known[d] \cup {NoRev}, deleted \in BOOLEAN :
         BeginPut(w, d, base, hash, deleted)
    \/ \E r \in known[d] : BeginDelete(w, d, r, hash)

CommitNext == \E w \in Writers : \E p \in pend[w] : Commit(w, p)

PeerNext ==
  \E d \in Docs :
    \/ \E base \in known[d] \cup {NoRev}, hash \in Hashes, deleted \in BOOLEAN :
         PeerEdit(d, base, hash, deleted)
    \/ \E w \in Writers, r \in known[d] :
         \E h \in PeerHistories(d, r) : BeginReplicate(w, d, r, h)

Next == BeginEdit \/ PeerNext \/ CommitNext

Spec == Init /\ [][Next]_vars

-----------------------------------------------------------------------------
(* What holds of the buckets when transactions do not overlap. *)

\* Every document is served from the docs bucket by its winning revision:
\* the greatest leaf of doc_leaves, by generation and then by hash
\* (PutDocumentForReplication and DeleteDocument recompute it, PutDocument
\* relies on the edited revision being it).
WinnerRule == \A d \in Docs : WinnerRuleAt(db, d)

\* WinnerRule, as long as no two transactions overlapped.
SerialWinnerRule == ~overlapped => WinnerRule

\* The synchronous indices agree with the docs bucket: the changes feed lists
\* each document exactly once, at its local sequence, and the _deleted index
\* (from which the document counts are computed) holds exactly the deleted
\* documents.
IndicesExact == \A d \in Docs : IndicesExactAt(db, d)

\* IndicesExact, as long as no two transactions overlapped.
SerialIndicesExact == ~overlapped => IndicesExact

\* The winner depends on the set of accepted revisions only, not on the order
\* in which edits and deliveries arrived: it is the greatest of them.  Two
\* databases that accepted the same revisions serve the same one.
WinnerOfAccepted ==
  \A d \in Docs : \A r \in acked[d] :
    r = db.docs[d].rev \/ RevLess(r, db.docs[d].rev)

\* WinnerOfAccepted, as long as no two transactions overlapped.
SerialWinnerOfAccepted == ~overlapped => WinnerOfAccepted

\* _revs_diff, which asks HasRevision of the document GetDocument returns,
\* reports no leaf as missing, so a peer sends no branch this database has.
RevsDiffKnowsLeaves ==
  \A d \in Docs : \A r \in leafRevs(db, d) :
    HasRevision(GetDocument(db, d), r)

\* RevsDiffKnowsLeaves, as long as no two transactions overlapped.
SerialRevsDiffKnowsLeaves == ~overlapped => RevsDiffKnowsLeaves

ExtendsLeaf(p) ==
  p.edit => \/ db.docs[p.op.id] = NoDoc
            \/ p.base \in leafRevs(db, p.op.id)

\* A local edit extends a revision that is still a leaf: when its log is
\* applied, nobody has replaced the revision it was checked against, so no
\* two edits of the same revision are both accepted.
EditExtendsLeaf ==
  [][\A w \in Writers : \A p \in pend[w] : pend'[w] = {} => ExtendsLeaf(p)]_vars

\* EditExtendsLeaf, as long as no two transactions overlapped.
SerialEditExtendsLeaf ==
  [][~overlapped =>
       \A w \in Writers : \A p \in pend[w] : pend'[w] = {} => ExtendsLeaf(p)]_vars

-----------------------------------------------------------------------------
(* What holds however transactions overlap. *)

\* A stored document is always reachable in the changes feed: its
\* invalidation record exists and names an entry of the feed that is its own.
FeedCovers ==
  \A d \in Docs :
    /\ db.inval[d] = 0 <=> db.docs[d] = NoDoc
    /\ db.inval[d] # 0 => [seq |-> db.inval[d], id |-> d] \in db.changes

\* Whenever the served document changes it moves behind every sequence given
\* out before, where a reader that already consumed those will meet it.
FeedMovesOn ==
  [][\A d \in Docs :
       db'.docs[d] # db.docs[d] => db'.inval[d] > db.changesSeq]_vars

Covered(b, d, r) == \E l \in leafRevs(b, d) : r = l \/ r \in anc[d][l]

\* An accepted revision is never lost from the revision tree: it stays a
\* leaf, or an ancestor of a leaf, whatever writes raced with it.
AckedNotLost == \A d \in Docs : \A r \in acked[d] : Covered(db, d, r)

-----------------------------------------------------------------------------
(* What the code's comments say and its transactions do not keep. *)

\* GetLeaves returns leaves: no revision in doc_leaves has a descendant there
\* (db_trx.go: ancestors "now have a child, so they're no longer leaves").
LeavesAreLeaves ==
  \A d \in Docs : \A r, l \in leafRevs(db, d) : r \notin anc[d][l]

\* RevHistory is a revision chain, newest first (doc.go: "Full revision
\* chain, newest-first"): each entry is an ancestor of the one before it.
HistoryIsChain ==
  \A d \in Docs : \A i \in 2..Len(db.docs[d].hist) :
    db.docs[d].hist[i] \in anc[d][db.docs[d].hist[i-1]]

-----------------------------------------------------------------------------
(* The inductive invariants behind the properties; DatabaseProofs shows    *)
(* that they are inductive.                                                *)

\* The minted revisions form trees: ancestors are older and closed.
TreeOK ==
  \A d \in Docs : \A r \in known[d] : \A a \in anc[d][r] :
    a \in known[d] /\ anc[d][a] \subseteq anc[d][r] /\ a.gen < r.gen

\* Everything stored was minted, and leaves sit at their key.
StoredKnown(b) ==
  \A d \in Docs :
    /\ b.docs[d] # NoDoc => b.docs[d].rev \in known[d]
    /\ \A r \in leafRevs(b, d) : r \in known[d] /\ b.leaves[d][r].rev = r

\* The two counters agree and no sequence is used twice or ahead of time.
SequencesOK(b) ==
  /\ b.changesSeq = b.invalSeq
  /\ \A e \in b.changes : e.seq <= b.changesSeq
  /\ \A e, f \in b.changes : e.seq = f.seq => e = f

\* What stays true of a log while others commit: it writes the accepted
\* revision as a leaf and removes only that revision's ancestors.
PendOK ==
  \A w \in Writers : \A p \in pend[w] :
    LET d == p.op.id
    IN  /\ p.rev \in known[d]
        /\ p.op.put # NoDoc => p.op.put.rev \in known[d]
        /\ \A l \in p.op.puts : l.rev \in known[d]
        /\ \E l \in p.op.puts : l.rev = p.rev
        /\ p.op.dels \subseteq anc[d][p.rev]

\* What holds even if the buckets are put back to what they were.
StoreInv ==
  /\ TypeOK
  /\ TreeOK
  /\ \A d \in Docs : acked[d] \subseteq known[d]
  /\ StoredKnown(db)
  /\ SequencesOK(db)
  /\ PendOK

\* The changes entry a log deletes is the document's own, if it is there.
ChgOwn(p) == \A e \in db.changes : e.seq = p.op.chg => e.id = p.op.id

PendChgOK ==
  \A w \in Writers : \A p \in pend[w] : p.op.chg <= db.changesSeq /\ ChgOwn(p)

IInv == StoreInv /\ PendChgOK /\ FeedCovers /\ AckedNotLost

-----------------------------------------------------------------------------
(* The inductive invariant behind the properties of transactions that do   *)
(* not overlap.                                                            *)

DeadKnown == \A d \in Docs : dead[d] \subseteq known[d]

\* The leaves of d that are deletions are the revisions minted as deletions.
DeadAt(b, d) ==
  \A r \in leafRevs(b, d) : b.leaves[d][r].deleted <=> r \in dead[d]

StoredSound(b) == \A d \in Docs : SoundAt(b, d) /\ DeadAt(b, d)

\* What a pending transaction leaves when it commits: its log was made for
\* the database as it is.
PendSound ==
  \A w \in Writers : \A p \in pend[w] :
    LET d == p.op.id
        b == Apply(db, p.op)
    IN  /\ SoundAt(b, d)
        /\ DeadAt(b, d)
        /\ AtLeast(b.docs[d].rev, p.rev)
        /\ AtLeast(b.docs[d].rev, db.docs[d].rev)
        /\ ExtendsLeaf(p)
        /\ ChgOwn(p)

OnePending == \A v, w \in Writers : pend[v] # {} /\ pend[w] # {} => v = w

Sound == StoredSound(db) /\ OnePending /\ PendSound

SerialInv == DeadKnown /\ (~overlapped => Sound /\ WinnerOfAccepted)

=============================================================================
