---------------------------- MODULE ChangesFeed ----------------------------
(***************************************************************************)
(* Readers that follow the changes feed of a database by polling it, each  *)
(* resuming from the last sequence of the answer before, while writers     *)
(* edit the documents.  A replicator reads its local source through        *)
(* LocalDB.GetChanges; a client reads GET /{db}/_changes.  They differ in  *)
(* the sequence an empty answer leaves them at.                            *)
(***************************************************************************)
EXTENDS DocStore, Changes

CONSTANTS Replicators,  \* readers through LocalDB.GetChanges
          Clients       \* readers of the normal feed over HTTP

ASSUME ChangesFeedAssumption == Replicators \cap Clients = {}

VARIABLE reader  \* where each reader is in the feed and what it received

Readers == Replicators \cup Clients

feedVars == <<vars, reader>>

\* since: where the reader resumes; got: the revision it last received of each
\* document; adrift: history, whether it resumed from a sequence whose entry
\* had been replaced since it read it.
ReaderState ==
  [since : 0..MaxSeq, got : [Docs -> Rev \cup {NoRev}], adrift : BOOLEAN]

FeedTypeOK == TypeOK /\ reader \in [Readers -> ReaderState]

FeedInit ==
  /\ Init
  /\ reader = [r \in Readers |-> [since |-> Start, adrift |-> FALSE,
                                  got |-> [d \in Docs |-> NoRev]]]

-----------------------------------------------------------------------------

Store == Next /\ UNCHANGED reader

Anchored(since) == since = Start \/ \E e \in db.changes : e.seq = since

Poll(r, otherwise) ==
  \E answer \in {Changes(db, reader[r].since, Limit)} :
     LET since == reader[r].since
     IN  /\ reader' = [reader EXCEPT ![r] =
               [since  |-> LastSeq(answer, otherwise),
                got    |-> Received(@.got, answer),
                adrift |-> since # Start /\ (@.adrift \/ ~Anchored(since))]]
         /\ UNCHANGED vars

\* An empty answer leaves the replicator where it was.
GetChanges(r) == Poll(r, reader[r].since)

\* Mutant: an empty answer leaves the client where it was.
NormalFeedStays(r) == Poll(r, reader[r].since)

\* An empty answer has "last_seq": "0", so the client starts over.
NormalFeed(r) == Poll(r, Start)

FeedNext ==
  \/ Store
  \/ \E r \in Replicators : GetChanges(r)
  \/ \E r \in Clients : NormalFeed(r)

\* Every client goes on polling; writers may stop at any time.
FeedFairness == \A r \in Clients : WF_feedVars(NormalFeed(r))

FeedSpec == FeedInit /\ [][FeedNext]_feedVars /\ FeedFairness

-----------------------------------------------------------------------------

UpToDate(r, d) == reader[r].got[d] = db.docs[d].rev

NothingMissedBy(r) ==
  \A d \in Docs : db.inval[d] <= reader[r].since => UpToDate(r, d)

\* A reader that always resumed from an entry that was still there has
\* received the current revision of every document up to where it is: pages
\* leave no gap, whatever is written between two of them.
NoGap == \A r \in Readers : ~reader[r].adrift => NothingMissedBy(r)

\* NoGap, as long as no two transactions overlapped: those leave stale entries,
\* which answer with a later sequence.
NoGapWhileAnchored == ~overlapped => NoGap

\* A reader has the current revision of every document it is past: GetChanges
\* "returns changes AFTER that sequence" (local_db.go).
NothingMissed == \A r \in Readers : NothingMissedBy(r)

CaughtUp(r) == \A d \in Docs : UpToDate(r, d)

\* Unless two transactions overlap, a client of the normal feed that goes on
\* polling comes to have the current revision of every document once writing
\* stops: what the cursor skipped is read again, because the empty answer at
\* the end sends the client back to the start.
ClientsCatchUp == []~overlapped => \A r \in Clients : <>[]CaughtUp(r)

\* The same, whatever overlaps: the stale entry that two overlapping
\* transactions leave can send a client from the start to the end of the feed,
\* past the documents between.
ClientsAlwaysCatchUp == \A r \in Clients : <>[]CaughtUp(r)

-----------------------------------------------------------------------------
(* The inductive invariant behind NoGapWhileAnchored, next to those of the *)
(* store.                                                                  *)

\* No reader is past the end of the feed.
GivenOut == \A r \in Readers : reader[r].since <= db.changesSeq

\* No reader has a revision of a document that was never stored.
NothingInvented ==
  \A r \in Readers, d \in Docs :
    db.docs[d] = NoDoc => reader[r].got[d] = NoRev

ReadersInv ==
  /\ FeedTypeOK
  /\ GivenOut
  /\ ~overlapped => NothingInvented /\ NoGap

=============================================================================
