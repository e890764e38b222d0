---------------------------- MODULE Replicator ----------------------------
(***************************************************************************)
(* One replication job: runs that copy the changes of a source database to *)
(* a target one page at a time (controller.Replicator), through peers that *)
(* are either databases of this process (LocalDB) or a goydb behind HTTP   *)
(* (RemoteClient), while clients write to both databases, runs break off   *)
(* at any call and the target is removed.  Whoever writes documents, the   *)
(* run included, does so in the two steps of a transaction.                *)
(*                                                                         *)
(* Abstractions.  Any other call is one step, a call that breaks off was   *)
(* executed or was not, and style=all_docs reads the leaves with the       *)
(* entries (the handler reads them a moment later).  The job is the only   *)
(* writer of its checkpoint, whose transactions touch no index: they are   *)
(* one step, the checkpoint's own revision is left out, and its history is *)
(* kept as the sequence each session recorded first, which is all          *)
(* loadCheckpoint can return.                                              *)
(***************************************************************************)
EXTENDS Changes

CONSTANTS Jobs,         \* the replication documents a behaviour may be about
          Bounds,       \* of each job: the writes of clients at each end, and
                        \* the broken runs, lost saves, removals and reruns
          ClientHashes, \* what clients make of a document
          PeerHashes,   \* the first revisions other peers deliver
          MaxSessions   \* bound on the number of runs

Peer == {"local", "http"}

JobSettings ==
  [source : Peer, target : Peer, continuous : BOOLEAN, createTarget : BOOLEAN]

ASSUME ReplicatorAssumption ==
  /\ Jobs \subseteq JobSettings
  /\ ClientHashes \cup PeerHashes \subseteq Hashes
  /\ MaxSessions \in Nat \ {0}
  /\ Bounds \in [Jobs -> [source : 0..MaxSeq, target : Nat, faults : Nat]]

VARIABLES job,        \* the settings of the job
          src,        \* the buckets of the source
          tgt,        \* the buckets of the target
          cp,         \* the checkpoint document at each end
          run,        \* the run in progress
          batch,      \* the operation log of the run's delivery
          srcLogs,    \* the logs clients have yet to apply at the source
          tgtLogs,    \* the logs clients have yet to apply at the target
          env,        \* whether the target exists, and the bounded counters
          gap,        \* history: a page was read from a replaced entry
          overlapped  \* history: two transactions on one database overlapped

\* What clients have under way.
clientVars == <<srcLogs, tgtLogs, overlapped>>

replVars == <<job, src, tgt, cp, run, batch, env, gap, clientVars>>

-----------------------------------------------------------------------------
(* Checkpoints. *)

Empty == -3   \* the empty since, which is read as Start

FeedPosition == {Empty} \cup 0..MaxSeq

Sessions == 1..MaxSessions

\* session and seq: session_id and source_last_seq; recorded: the history.
Checkpoint ==
  [session : Sessions, seq : 0..MaxSeq, recorded : [Sessions -> FeedPosition]]

NoCheckpoint ==
  [session |-> 0, seq |-> Empty, recorded |-> [s \in Sessions |-> Empty]]

Common(s, t) ==
  {i \in Sessions : s.recorded[i] # Empty /\ t.recorded[i] # Empty}

\* Mutant: the source's checkpoint alone.
LoadSourceOnly(checkpoints) == checkpoints.source.seq

\* Where a run resumes.  Histories grow at the end and are searched from the
\* start, so of the sessions both ends have it is the oldest that counts.
LoadCheckpoint(checkpoints) ==
  LET s == checkpoints.source
      t == checkpoints.target
  IN  IF s = NoCheckpoint \/ t = NoCheckpoint THEN Empty
      ELSE IF s.session = t.session THEN s.seq
      ELSE IF Common(s, t) = {} THEN Empty
      ELSE s.recorded[Min(Common(s, t))]

\* The checkpoint saved over old.
Recorded(old, session, since) ==
  [session |-> session, seq |-> since,
   recorded |-> [old.recorded EXCEPT
                   ![session] = IF @ = Empty THEN since ELSE @]]

-----------------------------------------------------------------------------
(* What goes over the wire. *)

\* The revisions the source offers of a document: its leaves over HTTP.
Offered(d) ==
  IF job.source = "http" THEN leafRevs(src, d) \cup {src.docs[d].rev}
  ELSE {src.docs[d].rev}

\* The revisions a peer asks for are not looked at: every one of them is
\* answered with the stored document and the histories of all branches, and
\* LocalDB answers a document once.
Fetched(d, revs) ==
  [i \in 1..(IF job.source = "http" THEN Cardinality(revs) ELSE 1) |->
     [id |-> d, doc |-> GetDocument(src, d)]]

\* _revisions numbers a history down from its first generation.
Renumbered(hist) ==
  [i \in DOMAIN hist |->
     [gen |-> Head(hist).gen - i + 1, hash |-> hist[i].hash]]

\* A document as the target reads it.
Arriving(doc) ==
  IF "http" \in {job.source, job.target}
  THEN [doc EXCEPT !.hist = Renumbered(@)] ELSE doc

\* The documents of a batch go in one transaction, whose reads are all of the
\* buckets before it; what is stored already is left alone.
Delivery(b, docs) ==
  [i \in DOMAIN docs |->
     IF docs[i].doc.rev = b.docs[docs[i].id].rev
     THEN KeepWinner(docs[i].id, {}, {})
     ELSE PutDocumentForReplication(b, docs[i].id, Arriving(docs[i].doc))]

\* The logs are applied in order.
Applied(b, logs) ==
  LET after[i \in 0..Len(logs)] ==
        IF i = 0 THEN b ELSE Apply(after[i - 1], logs[i])
  IN  after[Len(logs)]

Missing(d, revs) ==
  LET doc == GetDocument(tgt, d)
  IN  {r \in revs : doc = NoDoc \/ ~HasRevision(doc, r)}

-----------------------------------------------------------------------------
(* State. *)

Steps == {"idle", "verify", "load", "read", "diff", "fetch", "write", "commit",
          "save_source", "save_target", "completed"}

\* since and session: of the run; page: the documents of the page and their
\* revisions, then those missing at the target; docs: what was fetched;
\* last and pending: of the page; quiet: history, whether the source is as it
\* was when the page was read.
NoPage == [d \in Docs |-> {}]

Run ==
  [at : Steps, session : 0..MaxSessions, since : FeedPosition,
   page : [Docs -> SUBSET Rev], last : FeedPosition, pending : Nat,
   docs : Seq([id : Docs, doc : Document]), quiet : BOOLEAN]

Env ==
  [exists : BOOLEAN, writes : 0..Bounds[job].target, faults : 0..Bounds[job].faults]

\* The target's buckets and the logs have no type of their own: over HTTP a
\* history may name revisions that no database has.
ReplicatorTypeOK ==
  /\ job \in Jobs
  /\ src \in Buckets
  /\ cp \in [source : Checkpoint \cup {NoCheckpoint},
             target : Checkpoint \cup {NoCheckpoint}]
  /\ run \in Run
  /\ env \in Env
  /\ gap \in BOOLEAN

NoRun ==
  [at |-> "idle", session |-> 0, since |-> Empty, page |-> NoPage,
   last |-> Empty, pending |-> 0, docs |-> <<>>, quiet |-> FALSE]

ReplicatorInit ==
  /\ job \in Jobs
  /\ src = EmptyBuckets
  /\ tgt = EmptyBuckets
  /\ cp = [source |-> NoCheckpoint, target |-> NoCheckpoint]
  /\ run = NoRun
  /\ batch = <<>> /\ srcLogs = <<>> /\ tgtLogs = <<>>
  /\ env = [exists |-> ~job.createTarget, writes |-> 0, faults |-> 0]
  /\ gap = FALSE /\ overlapped = FALSE

-----------------------------------------------------------------------------
(* Clients and faults. *)

Fault == env.faults < Bounds[job].faults /\ env' = [env EXCEPT !.faults = @ + 1]

\* The logs of what a client or another peer makes of document d of b.  A
\* deletion is replicated like any other edit.
EditLogs(b, d) ==
  {PutDocument(b, d, NewRev(b.docs[d].rev, h), FALSE) : h \in ClientHashes}
  \cup
  {PutDocumentForReplication(b, d, [rev |-> r, deleted |-> FALSE, hist |-> <<r>>]) :
     r \in {NewRev(NoRev, h) : h \in PeerHashes} \ leafRevs(b, d)}

\* A transaction at the source: up to the end of its function, ...
SourceWrite(d) ==
  /\ src.changesSeq + Len(srcLogs) < Bounds[job].source
  /\ src.docs[d].rev.gen < MaxGen
  /\ \E op \in EditLogs(src, d) : srcLogs' = Append(srcLogs, op)
  /\ overlapped' = (overlapped \/ srcLogs # <<>>)
  /\ UNCHANGED <<job, src, tgt, cp, run, batch, env, gap, tgtLogs>>

\* and when its log is applied to whatever the source is now.
SourceCommit ==
  /\ \E i \in DOMAIN srcLogs :
       src' = Apply(src, srcLogs[i]) /\ srcLogs' = RemoveAt(srcLogs, i)
  /\ run' = [run EXCEPT !.quiet = FALSE]
  /\ UNCHANGED <<job, tgt, cp, batch, env, gap, tgtLogs, overlapped>>

\* The same at the target, where a transaction may also overlap the delivery.
TargetWrite(d) ==
  /\ env.exists /\ env.writes < Bounds[job].target
  /\ tgt.docs[d].rev.gen < MaxGen
  /\ env' = [env EXCEPT !.writes = @ + 1]
  /\ \E op \in EditLogs(tgt, d) : tgtLogs' = Append(tgtLogs, op)
  /\ overlapped' = (overlapped \/ tgtLogs # <<>> \/ run.at = "commit")
  /\ UNCHANGED <<job, src, tgt, cp, run, batch, gap, srcLogs>>

TargetCommit ==
  /\ \E i \in DOMAIN tgtLogs :
       tgt' = Apply(tgt, tgtLogs[i]) /\ tgtLogs' = RemoveAt(tgtLogs, i)
  /\ UNCHANGED <<job, src, cp, run, batch, env, gap, srcLogs, overlapped>>

\* The target database is removed, its checkpoint with it.  What was not
\* applied yet never is.
TargetRemoved ==
  /\ env.exists /\ env.faults < Bounds[job].faults
  /\ env' = [env EXCEPT !.exists = FALSE, !.faults = @ + 1]
  /\ tgt' = EmptyBuckets
  /\ tgtLogs' = <<>>
  /\ cp' = [cp EXCEPT !.target = NoCheckpoint]
  /\ UNCHANGED <<job, src, run, batch, gap, srcLogs, overlapped>>

\* A run is over, and comes to no delivery any more.
RunEnds == run' = NoRun /\ batch' = <<>>

\* A run ends without a result: a call failed or was cancelled, or the process
\* stopped.  What was written stays, the checkpoint is where it was.
Stops ==
  /\ run.at \notin {"idle", "completed"}
  /\ Fault
  /\ RunEnds
  /\ UNCHANGED <<job, src, tgt, cp, gap, clientVars>>

-----------------------------------------------------------------------------
(* A run. *)

At(step) == run.at = step

GoTo(step) == run' = [run EXCEPT !.at = step]

StartRun ==
  /\ At("idle")
  /\ GoTo("verify")
  /\ UNCHANGED <<job, src, tgt, cp, env, gap, batch, clientVars>>

\* A missing target is created, or ends the run.
VerifyPeers ==
  /\ At("verify")
  /\ IF env.exists \/ job.createTarget
     THEN GoTo("load") /\ env' = [env EXCEPT !.exists = TRUE]
     ELSE GoTo("idle") /\ UNCHANGED env
  /\ UNCHANGED <<job, src, tgt, cp, gap, batch, clientVars>>

Session == Max({0} \cup {i \in Sessions :
                          \E p \in DOMAIN cp : cp[p].recorded[i] # Empty}) + 1

Loads(since) ==
  /\ Session \in Sessions
  /\ run' = [run EXCEPT !.at = "read", !.session = Session, !.since = since]
  /\ UNCHANGED <<job, src, tgt, cp, gap, batch, clientVars>>

LoadsCheckpoint ==
  At("load") /\ Loads(LoadCheckpoint(cp)) /\ UNCHANGED env

\* A checkpoint that cannot be read is taken for one that is not there.
LoadFails == At("load") /\ Fault /\ Loads(Empty)

\* Mutant: the last page is left out.
AfterSaveEarly(r) ==
  [NoRun EXCEPT !.session = r.session, !.since = r.since, !.quiet = r.quiet,
                !.at = IF ~job.continuous /\ r.pending <= 1
                       THEN "completed" ELSE "read"]

\* A one-shot run ends with the page nothing follows.
AfterSave(r) ==
  [NoRun EXCEPT !.session = r.session, !.since = r.since, !.quiet = r.quiet,
                !.at = IF ~job.continuous /\ r.pending = 0
                       THEN "completed" ELSE "read"]

\* A new position is saved at both ends.
AfterBatch(r) ==
  IF r.last \in {r.since, Empty} THEN AfterSave(r)
  ELSE [r EXCEPT !.at = "save_source", !.since = r.last,
                 !.page = NoPage, !.docs = <<>>]

\* Mutant: an empty answer leaves every reader where it was.
LastSeqStays == run.since

\* Where the peer's answer leaves a reader when it is empty.
LastSeqWhenEmpty == IF job.source = "http" THEN Start ELSE run.since

GetChanges ==
  LET since  == IF run.since = Empty THEN Start ELSE run.since
      answer == Changes(src, since, Limit)
      ids    == {answer.docs[i].id : i \in DOMAIN answer.docs}
      read   == [run EXCEPT
                  !.at      = "diff",
                  !.page    = [d \in Docs |-> IF d \in ids THEN Offered(d) ELSE {}],
                  !.last    = LastSeq(answer, LastSeqWhenEmpty),
                  !.pending = answer.pending,
                  !.quiet   = TRUE]
  IN  /\ At("read")
      /\ run' = IF ids = {} THEN AfterBatch(read) ELSE read
      /\ gap' = (gap \/ /\ since # Start
                        /\ \A e \in src.changes : e.seq # since)
      /\ UNCHANGED <<job, src, tgt, cp, env, batch, clientVars>>

RevsDiff ==
  LET missing == [d \in Docs |-> Missing(d, run.page[d])]
  IN  /\ At("diff") /\ env.exists
      /\ run' = IF missing = NoPage THEN AfterBatch(run)
                ELSE [run EXCEPT !.at = "fetch", !.page = missing]
      /\ UNCHANGED <<job, src, tgt, cp, env, gap, batch, clientVars>>

\* The documents come in any order; they are written in one transaction.
Fetch(ids) ==
  /\ At("fetch")
  /\ run' = [run EXCEPT
               !.at = "write", !.page = NoPage,
               !.docs = FlattenSeq([i \in 1..Cardinality(ids) |->
                          LET d == SetToSeq(ids)[i]
                          IN  Fetched(d, run.page[d])])]
  /\ UNCHANGED <<job, src, tgt, cp, env, gap, batch, clientVars>>

BulkGet == Fetch({d \in Docs : run.page[d] # {}})

\* The delivery: up to the end of the transaction's function, ...
BulkDocs ==
  /\ At("write") /\ env.exists
  /\ GoTo("commit")
  /\ batch' = Delivery(tgt, run.docs)
  /\ overlapped' = (overlapped \/ tgtLogs # <<>>)
  /\ UNCHANGED <<job, src, tgt, cp, env, gap, srcLogs, tgtLogs>>

\* and when its logs are applied.
CommitBatch ==
  /\ At("commit") /\ env.exists
  /\ tgt' = Applied(tgt, batch)
  /\ batch' = <<>>
  /\ run' = AfterBatch(run)
  /\ UNCHANGED <<job, src, cp, env, gap, clientVars>>

\* A call to a target that was removed meanwhile ends the run.
TargetMissing ==
  /\ run.at \in {"diff", "write", "commit"} /\ ~env.exists
  /\ RunEnds
  /\ UNCHANGED <<job, src, tgt, cp, env, gap, clientVars>>

\* A save that fails is only logged.
SaveSource ==
  /\ At("save_source")
  /\ GoTo("save_target")
  /\ \/ cp' = [cp EXCEPT !.source = Recorded(@, run.session, run.since)]
        /\ UNCHANGED env
     \/ Fault /\ UNCHANGED cp
  /\ UNCHANGED <<job, src, tgt, gap, batch, clientVars>>

SaveTarget ==
  /\ At("save_target")
  /\ run' = AfterSave(run)
  /\ IF env.exists
     THEN \/ cp' = [cp EXCEPT !.target = Recorded(@, run.session, run.since)]
             /\ UNCHANGED env
          \/ Fault /\ UNCHANGED cp
     ELSE UNCHANGED <<cp, env>>
  /\ UNCHANGED <<job, src, tgt, gap, batch, clientVars>>

\* A one-shot replication is asked for again.
Again ==
  /\ At("completed")
  /\ Fault
  /\ RunEnds
  /\ UNCHANGED <<job, src, tgt, cp, gap, clientVars>>

Runs ==
  \/ StartRun \/ VerifyPeers \/ LoadsCheckpoint
  \/ GetChanges \/ RevsDiff \/ BulkGet \/ BulkDocs \/ CommitBatch \/ TargetMissing
  \/ SaveSource \/ SaveTarget

ReplicatorNext ==
  \/ Runs
  \/ \E d \in Docs : SourceWrite(d) \/ TargetWrite(d)
  \/ SourceCommit \/ TargetCommit
  \/ TargetRemoved \/ Stops \/ LoadFails \/ Again

\* The run goes on as long as its calls are answered.
ReplicatorSpec ==
  ReplicatorInit /\ [][ReplicatorNext]_replVars /\ WF_replVars(Runs)

-----------------------------------------------------------------------------
(* Errors that do not end a run, and are not part of ReplicatorNext. *)

\* LocalDB leaves a document it cannot read out of its answer.
BulkGetSwallows ==
  /\ job.source = "local" /\ Fault
  /\ At("fetch")
  /\ run' = AfterBatch(run)
  /\ UNCHANGED <<job, src, tgt, cp, gap, batch, clientVars>>

\* _bulk_docs answers 201 when the target rejects the documents, and
\* RemoteClient does not read the answer.
BulkDocsRejected ==
  /\ job.target = "http" /\ Fault
  /\ At("write")
  /\ run' = AfterBatch(run)
  /\ UNCHANGED <<job, src, tgt, cp, gap, batch, clientVars>>

\* A client creates the removed target during a run.
TargetRecreated ==
  /\ ~env.exists /\ ~At("commit")
  /\ env' = [env EXCEPT !.exists = TRUE]
  /\ UNCHANGED <<job, src, tgt, cp, run, gap, batch, clientVars>>

LossySpec ==
  /\ ReplicatorInit
  /\ [][\/ ReplicatorNext
        \/ BulkGetSwallows \/ BulkDocsRejected \/ TargetRecreated]_replVars

-----------------------------------------------------------------------------

HasCurrent(d) ==
  src.docs[d] = NoDoc \/ HasRevision(GetDocument(tgt, d), src.docs[d].rev)

\* A one-shot run that completed has copied the source: unless transactions
\* overlapped or it read on from an entry that was replaced, the target has the
\* current revision of every document, if the source is still as the run read
\* it last and the target is still there.
CompletedMeansCopied ==
  At("completed") /\ run.quiet /\ env.exists /\ ~gap /\ ~overlapped =>
    \A d \in Docs : HasCurrent(d)

\* The comment of Run says it without these conditions: "For one-shot it returns
\* when complete".
OneShotReturnsWhenComplete ==
  At("completed") /\ run.quiet /\ env.exists => \A d \in Docs : HasCurrent(d)

\* Until two transactions overlap, a replication is a one-way copy with a safe
\* resume point: checkpoints never make a run leave out a change, however runs
\* broke off, saves were lost and the target was removed; and no later write or
\* delivery makes the target give up a current revision.
Copy == INSTANCE OneWayCopy WITH
          current <- src.inval,
          has     <- {d \in Docs : HasCurrent(d)},
          resume  <- LET since == LoadCheckpoint(cp)
                     IN  IF since = Empty THEN 0 ELSE since

IsOneWayCopy == Copy!CopySpec

Copied == \A d \in Docs : HasCurrent(d)

\* Unless two transactions overlap, a continuous replication from a goydb
\* behind HTTP has every current revision at the target once clients stop
\* writing and calls are answered: what the cursor left out is read again, as
\* the empty answer sends the reader to the start.
ContinuousConverges ==
  job.source = "http" /\ job.continuous /\ job.createTarget /\ []~overlapped =>
    <>[]Copied

\* The same of a database of this process, where the cursor stays.
LocalConverges ==
  job.source = "local" /\ job.continuous /\ job.createTarget /\ []~overlapped =>
    <>[]Copied

\* The same of any transactions.  Those that overlap at the source leave stale
\* entries, and the cursor goes from the start to the end of the feed.
AlwaysConverges ==
  job.source = "http" /\ job.continuous /\ job.createTarget => <>[]Copied

-----------------------------------------------------------------------------
(* The inductive invariant behind IsOneWayCopy and CompletedMeansCopied. *)

\* No history at the target has reached its cap.  Where one is cut an edit may
\* drop the name of a revision that is current at the source, which then is
\* delivered again.
NeverCut == \A d \in Docs : Len(GetDocument(tgt, d).hist) < HistCap

\* What the histories of the target name.
HistRev == [gen : Int, hash : Hashes]

StoredDocument == [rev : Rev, deleted : BOOLEAN, hist : Seq(HistRev)]

TargetBuckets ==
  [docs       : [Docs -> StoredDocument \cup {NoDoc}],
   leaves     : [Docs -> [Rev -> StoredDocument \cup {NoDoc}]],
   changes    : SUBSET [seq : Nat, id : Docs],
   changesSeq : Nat,
   inval      : [Docs -> Nat],
   invalSeq   : Nat,
   deleted    : SUBSET Docs]

\* A history begins with its document; what follows is older.
Headed(doc) ==
  /\ Heads(doc.rev, doc.hist)
  /\ \A i \in 2..Len(doc.hist) : RevLess(doc.hist[i], doc.rev)

\* The stored document is the greatest leaf.
KeptAt(b, d) ==
  IF b.docs[d] = NoDoc THEN leafRevs(b, d) = {}
  ELSE /\ b.docs[d].rev \in leafRevs(b, d)
       /\ b.leaves[d][b.docs[d].rev] = b.docs[d]
       /\ \A r \in leafRevs(b, d) :
            /\ AtLeast(b.docs[d].rev, r)
            /\ b.leaves[d][r].rev = r
            /\ Headed(b.leaves[d][r])

\* Every sequence given out is the last of one document, the last sequence
\* included.
SequencesOwned ==
  /\ src.changesSeq = src.invalSeq
  /\ \A d \in Docs :
       /\ src.inval[d] <= src.changesSeq
       /\ src.inval[d] = 0 <=> src.docs[d] = NoDoc
  /\ \A c, d \in Docs : src.inval[c] = src.inval[d] => c = d \/ src.inval[c] = 0
  /\ src.changesSeq = 0 \/ \E d \in Docs : src.inval[d] = src.changesSeq

SourceSound ==
  /\ SequencesOwned
  /\ \A d \in Docs : SoundAt(src, d) /\ KeptAt(src, d)

TargetSound == tgt \in TargetBuckets /\ \A d \in Docs : KeptAt(tgt, d)

\* What was fetched is or was the stored document of the source.
FetchedSound ==
  /\ \A i \in DOMAIN run.docs :
       LET f == run.docs[i]
       IN  /\ src.docs[f.id] # NoDoc
           /\ AtLeast(src.docs[f.id].rev, f.doc.rev)
           /\ Headed(f.doc)
  /\ \A i, j \in DOMAIN run.docs :
       run.docs[i].id = run.docs[j].id => run.docs[i] = run.docs[j]
  /\ \A d \in Docs : run.page[d] # {} => src.docs[d] # NoDoc
  /\ IsFiniteSet({d \in Docs : run.page[d] # {}})

InSession ==
  run.at \in {"read", "diff", "fetch", "write", "commit",
              "save_source", "save_target", "completed"}

\* Nothing is ahead of the source, and sessions are numbered as they come.
CheckpointsSound ==
  /\ run.since <= src.changesSeq /\ run.last <= src.changesSeq
  /\ \A p \in {"source", "target"} :
       /\ cp[p].seq <= src.changesSeq
       /\ cp[p] # NoCheckpoint => cp[p].recorded[cp[p].session] # Empty
       /\ \A i \in Sessions :
            /\ cp[p].recorded[i] <= src.changesSeq
            /\ InSession /\ cp[p].recorded[i] # Empty => i <= run.session
  /\ InSession => run.session \in Sessions
  /\ At("save_source") \/ At("save_target") => run.since # Empty
  /\ ~env.exists => cp.target = NoCheckpoint

\* The target has every document whose last change is at or before s.
Safe(s) == \A d \in Docs : src.inval[d] <= s => HasCurrent(d)

\* What the page in hand answers for.
Answered(d) == src.inval[d] <= run.last \/ (run.quiet /\ run.pending = 0)

ResumesSafely ==
  /\ \A i \in Common(cp.source, cp.target) : Safe(cp.source.recorded[i])
  /\ cp.target # NoCheckpoint /\ cp.source.session = cp.target.session =>
       Safe(cp.source.seq)

RunsSafely ==
  /\ InSession =>
       /\ Safe(run.since)
       /\ Safe(cp.source.recorded[run.session])
       /\ cp.source.session = run.session => Safe(cp.source.seq)
  /\ At("diff") \/ At("fetch") =>
       \A d \in Docs : Answered(d) =>
         HasCurrent(d) \/ src.docs[d].rev \in run.page[d]
  /\ At("write") \/ At("commit") =>
       \A d \in Docs : Answered(d) =>
         \/ HasCurrent(d)
         \/ \E i \in DOMAIN run.docs :
              run.docs[i].id = d /\ run.docs[i].doc.rev = src.docs[d].rev
  /\ At("save_source") \/ At("save_target") =>
       (run.quiet /\ run.pending = 0 => \A d \in Docs : HasCurrent(d))
  /\ At("completed") => (run.quiet => \A d \in Docs : HasCurrent(d))

JobInv ==
  /\ ReplicatorTypeOK
  /\ SourceSound
  /\ TargetSound
  /\ FetchedSound
  /\ CheckpointsSound
  /\ ~gap => ResumesSafely /\ (env.exists => RunsSafely)

\* A database has at most one log that waits, and the log is what the
\* transaction would be computed to be now.
LogsSound ==
  /\ \/ srcLogs = <<>>
     \/ \E d \in Docs : /\ src.docs[d].rev.gen < MaxGen
                        /\ src.changesSeq < Bounds[job].source
                        /\ \E op \in EditLogs(src, d) : srcLogs = <<op>>
  /\ \/ tgtLogs = <<>>
     \/ \E d \in Docs : /\ tgt.docs[d].rev.gen < MaxGen
                        /\ \E op \in EditLogs(tgt, d) : tgtLogs = <<op>>
  /\ At("commit") /\ env.exists =>
       tgtLogs = <<>> /\ batch = Delivery(tgt, run.docs)

ReplicatorInv ==
  overlapped \in BOOLEAN /\ (~overlapped => JobInv /\ LogsSound)

=============================================================================
