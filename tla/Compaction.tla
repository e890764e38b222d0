----------------------------- MODULE Compaction -----------------------------
(***************************************************************************)
(* POST /{db}/_compact next to the writers of the document store.          *)
(* Database.Compact first cuts every revision history to _revs_limit, in a *)
(* transaction of its own that like the writers' reads at a snapshot and   *)
(* applies its log later.  DB.Compact then copies the database file, and   *)
(* closes it, puts the copy in its place and opens that.  The process may  *)
(* crash at any time; what bbolt committed is on disk.                     *)
(***************************************************************************)
EXTENDS DocStore

CONSTANT RevsLimit  \* _revs_limit of the database

ASSUME CompactionAssumption == RevsLimit \in Nat \ {0}

VARIABLES compaction,  \* how far the compaction is
          leftover,    \* a crash or failed rename left a full .compact.tmp
          window,      \* history: revisions accepted since the copy was made,
                       \* as long as there is one
          lost,        \* history: the windows of the copies put in place
          mixed        \* history: the trim or the swap changed the database
                       \* between the two steps of a writer, or the other
                       \* way round

compactionVars == <<vars, compaction, leftover, window, lost, mixed>>

\* The engine's bbolt handle is open; a transaction fails otherwise.
Open == compaction.phase # "closed"

\* log: the documents to rewrite, in docs and in doc_leaves; copy: the file
\* written to .compact.tmp.
CompactionState ==
  [phase : {"idle", "trimming", "trimmed", "copied", "closed"},
   log : SUBSET [bucket : {"docs", "doc_leaves"}, id : Docs, doc : Document],
   copy : Buckets]

CompactionTypeOK ==
  /\ TypeOK
  /\ compaction \in CompactionState
  /\ leftover \in BOOLEAN
  /\ window \in [Docs -> SUBSET Rev]
  /\ lost \in [Docs -> SUBSET Rev]
  /\ mixed \in BOOLEAN

Idle == [phase |-> "idle", log |-> {}, copy |-> EmptyBuckets]

CompactionInit ==
  /\ Init
  /\ compaction = Idle
  /\ leftover = FALSE
  /\ window = [d \in Docs |-> {}]
  /\ lost = [d \in Docs |-> {}]
  /\ mixed = FALSE

-----------------------------------------------------------------------------
(* Cutting the histories. *)

\* Mutant: the cut is one too deep.
TrimOneMore(bucket, d, doc) ==
  [bucket |-> bucket, id |-> d,
   doc |-> [doc EXCEPT !.hist = SubSeq(@, 1, RevsLimit - 1)]]

Trim(bucket, d, doc) ==
  [bucket |-> bucket, id |-> d,
   doc |-> [doc EXCEPT !.hist = SubSeq(@, 1, RevsLimit)]]

Long(doc) == Len(doc.hist) > RevsLimit

compactDocuments(b) ==
  {Trim("docs", d, b.docs[d]) : d \in {d \in Docs : Long(b.docs[d])}}
    \cup UNION {{Trim("doc_leaves", d, b.leaves[d][r]) :
                   r \in {r \in leafRevs(b, d) : Long(b.leaves[d][r])}} : d \in Docs}

ApplyTrim(b, log) ==
  LET docPuts(d)  == {p \in log : p.bucket = "docs" /\ p.id = d}
      leafPuts(d, r) ==
        {p \in log : p.bucket = "doc_leaves" /\ p.id = d /\ p.doc.rev = r}
      Put(puts, old) == IF puts = {} THEN old ELSE (CHOOSE p \in puts : TRUE).doc
  IN  [b EXCEPT
         !.docs = [d \in Docs |-> Put(docPuts(d), b.docs[d])],
         !.leaves = [d \in Docs |->
                       [r \in Rev |-> Put(leafPuts(d, r), b.leaves[d][r])]]]

\* A writer has read its snapshot and not committed.
WriterPending == \E w \in Writers : pend[w] # {}

TrimBegins ==
  /\ compaction.phase = "idle"
  /\ compaction' = [compaction EXCEPT !.phase = "trimming",
                                      !.log = compactDocuments(db)]
  /\ UNCHANGED <<vars, leftover, window, lost, mixed>>

TrimCommits ==
  /\ compaction.phase = "trimming"
  /\ db' = ApplyTrim(db, compaction.log)
  /\ compaction' = [compaction EXCEPT !.phase = "trimmed", !.log = {}]
  /\ mixed' = (mixed \/ WriterPending)
  /\ UNCHANGED <<pend, known, anc, dead, acked, overlapped, leftover, window, lost>>

-----------------------------------------------------------------------------
(* Replacing the file. *)

\* bbolt.Compact creates every bucket in the destination, which fails when a
\* leftover holds them; the leftover is removed then.
Copies ==
  /\ compaction.phase = "trimmed"
  /\ compaction' = IF leftover THEN Idle
                   ELSE [compaction EXCEPT !.phase = "copied", !.copy = db]
  /\ leftover' = FALSE
  /\ UNCHANGED <<vars, window, lost, mixed>>

Closes ==
  /\ compaction.phase = "copied"
  /\ compaction' = [compaction EXCEPT !.phase = "closed"]
  /\ UNCHANGED <<vars, leftover, window, lost, mixed>>

PutInPlace ==
  /\ db' = compaction.copy
  /\ lost' = [d \in Docs |-> lost[d] \cup window[d]]
  /\ UNCHANGED leftover

\* The original file is opened again; the copy stays where it is.
RenameFails ==
  /\ leftover' = TRUE
  /\ UNCHANGED <<db, lost>>

Swaps ==
  /\ compaction.phase = "closed"
  /\ \/ PutInPlace /\ mixed' = (mixed \/ WriterPending)
     \/ RenameFails /\ UNCHANGED mixed
  /\ compaction' = Idle
  /\ window' = [d \in Docs |-> {}]
  /\ UNCHANGED <<pend, known, anc, dead, acked, overlapped>>

-----------------------------------------------------------------------------
(* Writers, and crashes. *)

\* Mutant: the client is told that its write was done.
CommitFailsSilently(w, p) ==
  /\ ~Open
  /\ pend' = [pend EXCEPT ![w] = {}]
  /\ acked' = [acked EXCEPT ![p.op.id] = @ \cup {p.rev}]
  /\ UNCHANGED <<db, known, anc, dead, overlapped, compaction, leftover,
                 window, lost, mixed>>

\* A writer that read its snapshot before the file was closed and comes to
\* commit before it is open again gets an error.
CommitFails(w, p) ==
  /\ ~Open
  /\ pend' = [pend EXCEPT ![w] = {}]
  /\ UNCHANGED <<db, known, anc, dead, acked, overlapped, compaction, leftover,
                 window, lost, mixed>>

CommitWhileOpen(w, p) ==
  /\ Open
  /\ Commit(w, p)
  /\ window' = [window EXCEPT ![p.op.id] =
                  IF compaction.phase = "copied" THEN @ \cup {p.rev} ELSE @]
  /\ mixed' = (mixed \/ compaction.phase = "trimming")
  /\ UNCHANGED <<compaction, leftover, lost>>

BeginWhileOpen ==
  /\ Open
  /\ BeginEdit \/ PeerNext
  /\ UNCHANGED <<compaction, leftover, window, lost, mixed>>

\* Open transactions are gone.  While the file was closed it may or may not
\* have been replaced already.
Crash ==
  /\ pend' = [w \in Writers |-> {}]
  /\ compaction' = Idle
  /\ window' = [d \in Docs |-> {}]
  /\ \/ compaction.phase = "closed" /\ PutInPlace
     \/ compaction.phase \in {"copied", "closed"} /\ RenameFails
     \/ /\ compaction.phase \notin {"copied", "closed"}
        /\ UNCHANGED <<db, leftover, lost>>
  /\ UNCHANGED <<known, anc, dead, acked, overlapped, mixed>>

CompactionNext ==
  \/ BeginWhileOpen
  \/ \E w \in Writers : \E p \in pend[w] :
       CommitWhileOpen(w, p) \/ CommitFails(w, p)
  \/ TrimBegins \/ TrimCommits \/ Copies \/ Closes \/ Swaps
  \/ Crash

CompactionSpec == CompactionInit /\ [][CompactionNext]_compactionVars

-----------------------------------------------------------------------------

\* Whatever a compaction and a crash do, an accepted revision is a leaf or an
\* ancestor of one, unless it was accepted between the copy of the file and
\* its closing and the copy was put in place.
LossOnlyWhileCopying ==
  \A d \in Docs : \A r \in acked[d] \ lost[d] : Covered(db, d, r)

\* As long as no two transactions overlapped, no trim or swap came between the
\* two steps of a transaction and no transaction between the two steps of a
\* trim, the database serves its
\* winners, its indices are exact and _revs_diff knows every leaf, however
\* short _revs_limit cuts the histories and wherever a crash hits.
CompactionBetweenWritesHarmless ==
  ~mixed /\ ~overlapped => WinnerRule /\ IndicesExact /\ RevsDiffKnowsLeaves

\* What the database serves does not depend on what a compaction does: no
\* document loses its entry in the changes feed (db.go: "src stays open,
\* concurrent access is fine").
CompactionKeepsFeed == FeedCovers

\* compactDocuments trims histories and nothing else (db_meta.go: "Only entries
\* that actually change are rewritten"): no document changes its revision.
TrimKeepsRevisions ==
  [][compaction.phase = "trimming" /\ compaction'.phase = "trimmed" =>
       \A d \in Docs : db'.docs[d].rev = db.docs[d].rev]_compactionVars

-----------------------------------------------------------------------------
(* The inductive invariant; DatabaseProofs shows that it is one.           *)

HasCopy == compaction.phase \in {"copied", "closed"}

\* The copy and the log of the trim hold nothing that was not minted.
CopyOK ==
  /\ HasCopy => StoredKnown(compaction.copy) /\ SequencesOK(compaction.copy)
  /\ \A p \in compaction.log : p.doc.rev \in known[p.id]

\* The copy holds what was accepted before it was made.
CopyCovers ==
  HasCopy => \A d \in Docs : \A r \in acked[d] \ (lost[d] \cup window[d]) :
               Covered(compaction.copy, d, r)

\* Nothing overlapped: the transactions are sound, the copy is what they left,
\* and the trim is for the database as it is.
QuietSound ==
  ~mixed /\ ~overlapped =>
    /\ Sound
    /\ HasCopy => StoredSound(compaction.copy)
    /\ compaction.phase = "trimming" => compaction.log = compactDocuments(db)

CompactionInv ==
  /\ CompactionTypeOK
  /\ StoreInv
  /\ DeadKnown
  /\ CopyOK
  /\ LossOnlyWhileCopying
  /\ CopyCovers
  /\ QuietSound

=============================================================================
