------------------------ MODULE ReplicationService ------------------------
(***************************************************************************)
(* The service that turns the documents of the _replicator database into   *)
(* running replications (service.Replication): a loop that scans the       *)
(* documents, starts and cancels jobs, and goroutines that run a           *)
(* replication and write its state back to the document, while clients     *)
(* create, edit and delete documents and the process stops and starts.     *)
(*                                                                         *)
(* Abstractions.  What a run copies is Replicator's subject: here it ends  *)
(* with or without an error.  A state is written by a read and a put that  *)
(* conflicts if the document was written in between: so the put may come   *)
(* to nothing if there was a write since its goroutine was about to read.  *)
(* Time is the end of a document's backoff, and a scan may begin at any    *)
(* time, woken by the timer or by a write.                                 *)
(***************************************************************************)
EXTENDS Integers, FiniteSets

CONSTANTS Ids,        \* ids of replication documents
          JobSlots,   \* numbers for the goroutines that are alive together
          MaxRetry,   \* maxRetryCount
          Bounds      \* of a behaviour with continuous documents and of one
                      \* with others: the requests of clients, and the stops
                      \* of the process

ASSUME ServiceAssumption ==
  /\ JobSlots \subseteq Nat \ {0}
  /\ IsFiniteSet(JobSlots)
  /\ MaxRetry \in Nat \ {0}
  /\ Bounds \in [BOOLEAN -> [writes : Nat, stops : Nat]]

VARIABLES continuous, \* whether the documents are continuous
          doc,      \* the documents of _replicator
          active,   \* the running job of each id that the service knows of
          job,      \* the goroutines
          scan,     \* the loop of the service
          writes,   \* the requests of clients so far
          stops,    \* the stops of the process so far
          orphaned  \* history: a job that ended took another's entry along

serviceVars == <<continuous, doc, active, job, scan, writes, stops, orphaned>>

NoJob == 0

States == {"", "initializing", "running", "completed", "error", "crashing"}

\* valid: whether a peer can be built of its source and of its target;
\* fails and asRead: _replication_consecutive_fails and whether it comes out
\* of the database as the number type that is looked for; retry: the backoff
\* that began with _replication_last_retry.  Histories: done, a run of this
\* document ended by itself; disturbed, a run of it was cancelled, or was
\* begun for an earlier document of the same id.
Doc ==
  [exists : BOOLEAN, valid : BOOLEAN, state : States, fails : 0..MaxRetry,
   asRead : BOOLEAN, retry : {"none", "waits", "over"}, done : BOOLEAN,
   disturbed : BOOLEAN]

\* at: what the goroutine does next, after the read of the put if it is one;
\* late: whether the document was written since it came to that; failed:
\* whether it counted failures before.
Job ==
  [id : Ids, at : {"running", "run", "fail", "reset", "finish", "end"},
   late : BOOLEAN, cancelled : BOOLEAN, failed : BOOLEAN]

Free == [at |-> "free"]

\* seen: what the scan makes of the documents it read, of which todo are still
\* to come to; keep: activeIDs; slot: the job being submitted; refused: the
\* document being refused; late: whether the document was written meanwhile.
Seen == [wanted : BOOLEAN, valid : BOOLEAN, failed : BOOLEAN]

Scan ==
  [at : {"waits", "scans", "submits", "refuses", "stopped"}, todo : SUBSET Ids,
   seen : [Ids -> Seen], keep : SUBSET Ids, slot : JobSlots \cup {NoJob},
   refused : SUBSET Ids, late : BOOLEAN]

NoDoc ==
  [exists |-> FALSE, valid |-> TRUE, state |-> "", fails |-> 0,
   asRead |-> FALSE, retry |-> "none", done |-> FALSE, disturbed |-> FALSE]

NotWanted == [wanted |-> FALSE, valid |-> TRUE, failed |-> FALSE]

Idle == [at |-> "waits", todo |-> {}, seen |-> [i \in Ids |-> NotWanted],
         keep |-> {}, slot |-> NoJob, refused |-> {}, late |-> FALSE]

ServiceTypeOK ==
  /\ continuous \in BOOLEAN
  /\ doc \in [Ids -> Doc]
  /\ active \in [Ids -> JobSlots \cup {NoJob}]
  /\ job \in [JobSlots -> Job \cup {Free}]
  /\ scan \in Scan
  /\ writes \in 0..Bounds[continuous].writes
  /\ stops \in 0..Bounds[continuous].stops
  /\ orphaned \in BOOLEAN

ServiceInit ==
  /\ continuous \in BOOLEAN
  /\ \E v \in [Ids -> BOOLEAN] :
       doc = [i \in Ids |-> [NoDoc EXCEPT !.exists = TRUE, !.valid = v[i]]]
  /\ active = [i \in Ids |-> NoJob]
  /\ job = [j \in JobSlots |-> Free]
  /\ scan = Idle
  /\ writes = 0
  /\ stops = 0
  /\ orphaned = FALSE

-----------------------------------------------------------------------------

Alive(j) == job[j] # Free

JobsOf(i) == {j \in JobSlots : Alive(j) /\ job[j].id = i}

\* i is written: whoever else is about to put it may have read it before.
Late(i, jobs, but) ==
  [j \in JobSlots |->
     IF jobs[j] # Free /\ jobs[j].id = i /\ j # but
          /\ jobs[j].at \in {"running", "fail", "reset", "finish"}
     THEN [jobs[j] EXCEPT !.late = TRUE] ELSE jobs[j]]

LateScan(i) ==
  IF (scan.at = "submits" /\ job[scan.slot].id = i) \/ i \in scan.refused
  THEN [scan EXCEPT !.late = TRUE] ELSE scan

\* The failure count as ParseReplicationDoc reads it.
ConsecutiveFails(d) == IF d.asRead THEN d.fails ELSE 0

\* Mutant: a run that failed is not tried again.
NeverRetry(d) == d.retry = "none"

shouldRetry(d) ==
  \/ d.retry = "none"
  \/ d.retry = "over" /\ ConsecutiveFails(d) < MaxRetry

\* Whether a scan wants i to run.
Wants(i) ==
  /\ doc[i].exists
  /\ doc[i].state = "completed" => continuous
  /\ doc[i].state \in {"error", "crashing"} => shouldRetry(doc[i])

-----------------------------------------------------------------------------
(* Clients, time and the process. *)

Written(i, d) ==
  /\ writes < Bounds[continuous].writes
  /\ writes' = writes + 1
  /\ doc' = [doc EXCEPT ![i] = d]
  /\ job' = Late(i, job, NoJob)
  /\ scan' = LateScan(i)
  /\ UNCHANGED <<continuous, active, stops, orphaned>>

ClientCreates(i, valid) ==
  /\ ~doc[i].exists
  /\ Written(i, [NoDoc EXCEPT !.exists = TRUE, !.valid = valid,
                               !.disturbed = JobsOf(i) # {}])

\* A client puts the document with what it read of it and perhaps other peers;
\* numbers come back from JSON as the type that is looked for.
ClientEdits(i, valid) ==
  /\ doc[i].exists
  /\ Written(i, [doc[i] EXCEPT !.asRead = (@ \/ doc[i].fails > 0), !.valid = valid])

ClientDeletes(i) == doc[i].exists /\ Written(i, NoDoc)

\* Five seconds at least, which is more than a goroutine takes to end that has
\* nothing left to do.
BackoffEnds(i) ==
  /\ doc[i].retry = "waits"
  /\ \A j \in JobsOf(i) : job[j].at # "end"
  /\ doc' = [doc EXCEPT ![i].retry = "over"]
  /\ UNCHANGED <<continuous, active, job, scan, writes, stops, orphaned>>

\* Cancelled(jobs): those jobs are told to stop.
Cancelled(jobs) ==
  [j \in JobSlots |-> IF j \in jobs THEN [job[j] EXCEPT !.cancelled = TRUE]
                      ELSE job[j]]

Disturbed(ids) ==
  [i \in Ids |-> IF i \in ids /\ doc[i].exists
                 THEN [doc[i] EXCEPT !.disturbed = TRUE] ELSE doc[i]]

\* CancelAll; the goroutines go on until the process is gone.
Shutdown ==
  /\ scan.at = "waits" /\ stops < Bounds[continuous].stops
  /\ job' = Cancelled({j \in JobSlots : Alive(j)})
  /\ doc' = Disturbed({i \in Ids : JobsOf(i) # {}})
  /\ active' = [i \in Ids |-> NoJob]
  /\ scan' = [Idle EXCEPT !.at = "stopped"]
  /\ UNCHANGED <<continuous, writes, stops, orphaned>>

\* The process stops at any moment and is started again.
Restart ==
  /\ stops < Bounds[continuous].stops
  /\ stops' = stops + 1
  /\ active' = [i \in Ids |-> NoJob]
  /\ job' = [j \in JobSlots |-> Free]
  /\ scan' = Idle
  /\ UNCHANGED <<continuous, doc, writes, orphaned>>

-----------------------------------------------------------------------------
(* The loop: processReplicatorDB. *)

Sees(i) ==
  IF Wants(i)
  THEN [wanted |-> TRUE, valid |-> doc[i].valid,
        failed |-> ConsecutiveFails(doc[i]) > 0]
  ELSE NotWanted

\* The documents are read in one transaction and gone through afterwards.
ScanBegins ==
  /\ scan.at = "waits"
  /\ scan' = [Idle EXCEPT !.at = "scans", !.seen = [i \in Ids |-> Sees(i)],
                          !.todo = {i \in Ids : doc[i].exists}]
  /\ UNCHANGED <<continuous, doc, active, job, writes, stops, orphaned>>

\* Mutant: the entry is not looked at.
NeverRunning(i) == i \notin Ids

IsRunning(i) == active[i] # NoJob

Passes(i) ==
  /\ scan.at = "scans" /\ i \in scan.todo
  /\ ~scan.seen[i].wanted \/ IsRunning(i)
  /\ scan' = [scan EXCEPT
               !.todo = @ \ {i},
               !.keep = IF scan.seen[i].wanted THEN @ \cup {i} ELSE @]
  /\ UNCHANGED <<continuous, doc, active, job, writes, stops, orphaned>>

\* The job is entered, and its state written before the goroutine starts.
Submit(i) ==
  LET j == CHOOSE free \in JobSlots : ~Alive(free) IN
  /\ scan.at = "scans" /\ i \in scan.todo
  /\ scan.seen[i].wanted /\ scan.seen[i].valid /\ ~IsRunning(i)
  /\ \E free \in JobSlots : ~Alive(free)
  /\ active' = [active EXCEPT ![i] = j]
  /\ job' = [job EXCEPT ![j] =
               [id |-> i, at |-> "running", late |-> FALSE, cancelled |-> FALSE,
                failed |-> scan.seen[i].failed]]
  /\ scan' = [scan EXCEPT !.at = "submits", !.slot = j, !.late = FALSE,
                          !.todo = @ \ {i}, !.keep = @ \cup {i}]
  /\ UNCHANGED <<continuous, doc, writes, stops, orphaned>>

\* The state is put, or was written in between.
SubmitWrites ==
  LET i == job[scan.slot].id
  IN  /\ scan.at = "submits"
      /\ \/ /\ doc[i].exists
            /\ doc' = [doc EXCEPT ![i].state = "initializing"]
            /\ job' = Late(i, job, scan.slot)
         \/ (scan.late \/ ~doc[i].exists) /\ UNCHANGED <<doc, job>>
      /\ scan' = [scan EXCEPT !.at = "scans", !.slot = NoJob, !.late = FALSE]
      /\ UNCHANGED <<continuous, active, writes, stops, orphaned>>

\* A document of which no peers can be built gets no job, only a state.
Refuses(i) ==
  /\ scan.at = "scans" /\ i \in scan.todo
  /\ scan.seen[i].wanted /\ ~scan.seen[i].valid /\ ~IsRunning(i)
  /\ scan' = [scan EXCEPT !.at = "refuses", !.refused = {i}, !.late = FALSE,
                          !.todo = @ \ {i}, !.keep = @ \cup {i}]
  /\ UNCHANGED <<continuous, doc, active, job, writes, stops, orphaned>>

\* The state is put, or was written in between; no backoff begins.
RefusalWrites(i) ==
  /\ scan.at = "refuses" /\ i \in scan.refused
  /\ \/ /\ doc[i].exists
        /\ doc' = [doc EXCEPT ![i].state = "error"]
        /\ job' = Late(i, job, NoJob)
     \/ (scan.late \/ ~doc[i].exists) /\ UNCHANGED <<doc, job>>
  /\ scan' = [scan EXCEPT !.at = "scans", !.refused = {}, !.late = FALSE]
  /\ UNCHANGED <<continuous, active, writes, stops, orphaned>>

\* Mutant: no job is ever cancelled.
CancelNone == {}

CancelStaleJobs == {i \in Ids : IsRunning(i)} \ scan.keep

ScanEnds ==
  LET ids == CancelStaleJobs
  IN  /\ scan.at = "scans" /\ scan.todo = {}
      /\ job' = Cancelled({active[i] : i \in ids})
      /\ doc' = Disturbed(ids)
      /\ active' = [i \in Ids |-> IF i \in ids THEN NoJob ELSE active[i]]
      /\ scan' = Idle
      /\ UNCHANGED <<continuous, writes, stops, orphaned>>

-----------------------------------------------------------------------------
(* A goroutine. *)

Begun(j) == Alive(j) /\ scan.slot # j

Step(j, at) == [job EXCEPT ![j].at = at, ![j].late = FALSE]

\* GetDocument and PutDocument; a put of what was written or deleted since it
\* was read fails, which is only logged.
Puts(j, at, d, next) ==
  LET i == job[j].id
  IN  /\ Begun(j) /\ job[j].at = at
      /\ \/ /\ doc[i].exists
            /\ doc' = [doc EXCEPT ![i] = d]
            /\ job' = Late(i, Step(j, next), j)
            /\ scan' = LateScan(i)
         \/ /\ job[j].late \/ ~doc[i].exists
            /\ job' = Step(j, next)
            /\ UNCHANGED <<doc, scan>>
      /\ UNCHANGED <<continuous, active, writes, stops, orphaned>>

PutsRunning(j) ==
  Puts(j, "running", [doc[job[j].id] EXCEPT !.state = "running"], "run")

\* The run ends without an error when it has copied everything, which a
\* continuous one never has, or when it finds itself cancelled.
RunSucceeds(j) ==
  LET i == job[j].id
  IN  /\ Begun(j) /\ job[j].at = "run"
      /\ ~continuous \/ job[j].cancelled
      /\ job' = Step(j, IF job[j].failed THEN "reset"
                        ELSE IF continuous THEN "end" ELSE "finish")
      /\ doc' = IF job[j].cancelled \/ ~doc[i].exists THEN doc
                ELSE [doc EXCEPT ![i].done = TRUE]
      /\ UNCHANGED <<continuous, active, scan, writes, stops, orphaned>>

\* Mutant: the error of the run is not looked at.
RunFailsUnseen(j) ==
  /\ Begun(j) /\ job[j].at = "run"
  /\ job' = Step(j, "finish")
  /\ UNCHANGED <<continuous, doc, active, scan, writes, stops, orphaned>>

RunFails(j) ==
  /\ Begun(j) /\ job[j].at = "run"
  /\ job' = Step(j, "fail")
  /\ UNCHANGED <<continuous, doc, active, scan, writes, stops, orphaned>>

\* Mutant: the count written last is read back, and not compared in between.
incrementUnread(d) ==
  [d EXCEPT !.fails = @ + 1, !.asRead = FALSE, !.retry = "waits",
            !.state = "crashing"]

\* The count is written as an integer, which is not the type that is looked
\* for when it is read back.  Beyond MaxRetry it does not matter.
incrementRetryCount(d) ==
  LET fails == IF ConsecutiveFails(d) = MaxRetry THEN MaxRetry
               ELSE ConsecutiveFails(d) + 1
  IN  [d EXCEPT !.fails = fails, !.asRead = FALSE, !.retry = "waits",
                !.state = IF fails >= MaxRetry THEN "error" ELSE "crashing"]

PutsFailure(j) == Puts(j, "fail", incrementRetryCount(doc[job[j].id]), "end")

resetRetryCount(j) ==
  Puts(j, "reset",
       [doc[job[j].id] EXCEPT !.fails = 0, !.asRead = FALSE, !.retry = "none"],
       IF continuous THEN "end" ELSE "finish")

PutsCompleted(j) ==
  Puts(j, "finish", [doc[job[j].id] EXCEPT !.state = "completed"], "end")

\* Mutant: a run that failed leaves its entry behind.
EndLeavesEntry(j) ==
  /\ Begun(j) /\ job[j].at = "end"
  /\ job' = [job EXCEPT ![j] = Free]
  /\ UNCHANGED <<continuous, doc, active, scan, writes, stops, orphaned>>

\* The deferred delete removes whatever entry the id has.
Ends(j) ==
  LET i == job[j].id
  IN  /\ Begun(j) /\ job[j].at = "end"
      /\ job' = [job EXCEPT ![j] = Free]
      /\ active' = [active EXCEPT ![i] = NoJob]
      /\ orphaned' = (orphaned \/ active[i] \notin {j, NoJob})
      /\ UNCHANGED <<continuous, doc, scan, writes, stops>>

-----------------------------------------------------------------------------

ScanNext ==
  \/ ScanBegins \/ SubmitWrites \/ ScanEnds
  \/ \E i \in Ids : Passes(i) \/ Submit(i) \/ Refuses(i) \/ RefusalWrites(i)

\* Everything a goroutine does but run.
Writes(j) ==
  \/ PutsRunning(j) \/ PutsFailure(j) \/ resetRetryCount(j)
  \/ PutsCompleted(j) \/ Ends(j)

RunEnds(j) == RunSucceeds(j) \/ RunFails(j)

CancelledRunEnds(j) == Alive(j) /\ job[j].cancelled /\ RunEnds(j)

ClientNext(i) ==
  \/ \E valid \in BOOLEAN : ClientCreates(i, valid) \/ ClientEdits(i, valid)
  \/ ClientDeletes(i)

ServiceNext ==
  \/ \E i \in Ids : ClientNext(i) \/ BackoffEnds(i)
  \/ Shutdown \/ Restart
  \/ ScanNext
  \/ \E j \in JobSlots : Writes(j) \/ RunEnds(j)

\* The loop and the goroutines are scheduled, time passes, a process that was
\* told to stop stops and is started again, and a run that is cancelled
\* notices; a run need not come to an end.
ServiceFairness ==
  /\ WF_serviceVars(ScanNext)
  /\ WF_serviceVars(scan.at = "stopped" /\ Restart)
  /\ \A i \in Ids : WF_serviceVars(BackoffEnds(i))
  /\ \A j \in JobSlots :
       WF_serviceVars(Writes(j)) /\ WF_serviceVars(CancelledRunEnds(j))

ServiceSpec == ServiceInit /\ [][ServiceNext]_serviceVars /\ ServiceFairness

-----------------------------------------------------------------------------

\* An entry of active is a goroutine of that id that is alive and was not told
\* to stop, so a replication that is not running is never passed over as
\* running, whichever goroutine of the id ended last.
ActiveIsAlive ==
  \A i \in Ids : IsRunning(i) =>
    /\ active[i] \in JobsOf(i)
    /\ ~job[active[i]].cancelled

\* As long as no goroutine removed another's entry, every goroutine that was
\* not told to stop is the active one, so an id has one of them at most.
OneJobPerId ==
  ~orphaned =>
    \A i \in Ids : \A j \in JobsOf(i) : job[j].cancelled \/ active[i] = j

\* A document says completed only after a run of it came to its end, unless a
\* run was cancelled or the document replaces one whose run was not over.
CompletedIsDone ==
  \A i \in Ids :
    doc[i].state = "completed" /\ ~doc[i].disturbed => doc[i].done

-----------------------------------------------------------------------------
(* What the proofs of these three need besides. *)

\* A cancelled job is one the document tells of, or its document is gone.
CancelledIsDisturbed ==
  \A j \in JobSlots : Alive(j) /\ job[j].cancelled =>
    (doc[job[j].id].exists => doc[job[j].id].disturbed)

\* A goroutine about to write that its run completed had one that did.
FinishingIsDone ==
  \A j \in JobSlots : Alive(j) /\ job[j].at \in {"reset", "finish"} =>
    (doc[job[j].id].exists => doc[job[j].id].disturbed \/ doc[job[j].id].done)

\* What a deleted document said is gone.
DeletedSaysNothing == \A i \in Ids : ~doc[i].exists => doc[i].state = ""

\* The inductive invariant.
ServiceInv ==
  /\ ServiceTypeOK
  /\ ActiveIsAlive
  /\ OneJobPerId
  /\ CompletedIsDone
  /\ CancelledIsDisturbed
  /\ FinishingIsDone
  /\ DeletedSaysNothing

-----------------------------------------------------------------------------

\* Scans skip completed documents as ones "that already finished successfully"
\* (replication.go).
CompletedFinishedSuccessfully ==
  \A i \in Ids : doc[i].state = "completed" => doc[i].done

\* A document that cannot run is left alone once its state says so.
RefusedIsLeftAlone ==
  \A i \in Ids : doc[i].state = "error" /\ ~doc[i].valid => ~Wants(i)

Running(i) == \E j \in JobsOf(i) : job[j].at = "run"

\* A replication that is wanted comes to run, whatever failed, conflicted,
\* crashed or was restarted before, unless it is not wanted any more.  One
\* that is given up or completed is not wanted.
WantedRuns ==
  \A i \in Ids :
    (doc[i].exists /\ doc[i].state \notin {"completed", "error"})
      ~> (Running(i) \/ doc[i].state \in {"completed", "error"} \/ ~doc[i].exists)

\* Jobs whose document was deleted come to be told to stop ("Cancel
\* replications whose docs have been deleted"), unless a goroutine took
\* another's entry along: that one is not known to the service any more.
DeletedIsCancelled ==
  \A i \in Ids :
    (~doc[i].exists /\ ~orphaned)
      ~> (doc[i].exists \/ orphaned \/ \A j \in JobsOf(i) : job[j].cancelled)

\* The same without the condition.
DeletedAreCancelled ==
  \A i \in Ids :
    ~doc[i].exists ~> (doc[i].exists \/ \A j \in JobsOf(i) : job[j].cancelled)

=============================================================================
