------------------------- MODULE ReplicationProofs -------------------------
(***************************************************************************)
(* The service that starts replications keeps its invariants, for any      *)
(* documents, goroutines, retries and bounds.                              *)
(***************************************************************************)
EXTENDS ReplicationService, TLAPS

-----------------------------------------------------------------------------
(* The replication service. *)

JobType == [JobSlots -> Job \cup {Free}]

\* Writing a document tells other goroutines that they are late, nothing else.
LEMMA LateOnly ==
  ASSUME NEW jobs \in JobType, NEW i, NEW but
  PROVE  /\ Late(i, jobs, but) \in JobType
         /\ \A j \in JobSlots : jobs[j] = Free => Late(i, jobs, but)[j] = Free
         /\ \A j \in JobSlots : jobs[j] # Free =>
              LET l == Late(i, jobs, but)[j]
              IN  /\ l # Free
                  /\ l.id = jobs[j].id /\ l.at = jobs[j].at
                  /\ l.cancelled = jobs[j].cancelled /\ l.failed = jobs[j].failed
<1> DEFINE L == Late(i, jobs, but)
<1>1. ASSUME NEW j \in JobSlots, jobs[j] # Free
      PROVE  /\ L[j] \in Job
             /\ L[j].id = jobs[j].id /\ L[j].at = jobs[j].at
             /\ L[j].cancelled = jobs[j].cancelled /\ L[j].failed = jobs[j].failed
  <2>1. jobs[j] \in Job
    BY <1>1 DEF JobType
  <2>2. L[j] = jobs[j] \/ L[j] = [jobs[j] EXCEPT !.late = TRUE]
    BY DEF Late
  <2>3. QED
    BY <2>1, <2>2 DEF Job
<1>2. ASSUME NEW j \in JobSlots, jobs[j] = Free
      PROVE  L[j] = Free
  BY <1>2 DEF Late
<1>3. \A x \in Job : x # Free
  BY DEF Job, Free
<1>4. L \in JobType
  BY <1>1, <1>2 DEF JobType, Late
<1>5. QED
  BY <1>1, <1>2, <1>3, <1>4

-----------------------------------------------------------------------------
(* Steps that start and end no goroutine and cancel none. *)

SameJobs ==
  \A j \in JobSlots :
    /\ Alive(j)' <=> Alive(j)
    /\ Alive(j) => job'[j].id = job[j].id /\ job'[j].cancelled = job[j].cancelled

LEMMA JobsStay ==
  ASSUME ServiceInv, SameJobs, UNCHANGED <<active, orphaned>>
  PROVE  ActiveIsAlive' /\ OneJobPerId'
<1>1. \A i \in Ids : JobsOf(i)' = JobsOf(i)
  BY DEF SameJobs, JobsOf
<1>2. \A j \in JobSlots : Alive(j) => job'[j].cancelled = job[j].cancelled
  BY DEF SameJobs
<1>3. ActiveIsAlive'
  BY <1>1, <1>2 DEF ServiceInv, ActiveIsAlive, IsRunning, JobsOf
<1>4. OneJobPerId'
  BY <1>1, <1>2 DEF ServiceInv, OneJobPerId, JobsOf
<1>5. QED
  BY <1>3, <1>4

\* Documents that are not created, forget nothing, and become completed only
\* if they tell that a run was, or was disturbed.
DocsKept ==
  \A i \in Ids : doc'[i].exists =>
    /\ doc[i].exists
    /\ doc[i].disturbed => doc'[i].disturbed
    /\ doc[i].done => doc'[i].done
    /\ doc'[i].state = "completed" =>
         doc[i].state = "completed" \/ doc'[i].disturbed \/ doc'[i].done

LEMMA DocsStay ==
  ASSUME ServiceInv, SameJobs, DocsKept, DeletedSaysNothing'
  PROVE  CancelledIsDisturbed' /\ CompletedIsDone'
<1>1. ASSUME NEW j \in JobSlots, Alive(j)', job'[j].cancelled, doc'[job'[j].id].exists
      PROVE  doc'[job'[j].id].disturbed
  <2>1. Alive(j) /\ job[j].cancelled /\ job'[j].id = job[j].id
    BY <1>1 DEF SameJobs
  <2>2. job[j].id \in Ids
    BY <2>1 DEF ServiceInv, ServiceTypeOK, Alive, Job, Free
  <2>3. QED
    BY <1>1, <2>1, <2>2 DEF ServiceInv, CancelledIsDisturbed, DocsKept
<1>2. CancelledIsDisturbed'
  BY <1>1 DEF CancelledIsDisturbed, Alive
<1>3. CompletedIsDone'
  BY DEF ServiceInv, CompletedIsDone, DocsKept, DeletedSaysNothing
<1>4. QED
  BY <1>2, <1>3

\* The goroutines that are about to write that they are done were before.
LEMMA FinishingStays ==
  ASSUME ServiceInv, SameJobs, DocsKept,
         \A j \in JobSlots : Alive(j) /\ job'[j].at \in {"reset", "finish"} =>
           job[j].at \in {"reset", "finish"}
  PROVE  FinishingIsDone'
<1>1. SUFFICES ASSUME NEW j \in JobSlots, Alive(j)', job'[j].at \in {"reset", "finish"},
                      doc'[job'[j].id].exists
               PROVE  doc'[job'[j].id].disturbed \/ doc'[job'[j].id].done
  BY DEF FinishingIsDone, Alive
<1>2. Alive(j) /\ job[j].at \in {"reset", "finish"} /\ job'[j].id = job[j].id
  BY <1>1 DEF SameJobs
<1>3. job[j].id \in Ids
  BY <1>2 DEF ServiceInv, ServiceTypeOK, Alive, Job, Free
<1>4. QED
  BY <1>1, <1>2, <1>3 DEF ServiceInv, FinishingIsDone, DocsKept

LEMMA LateScanType ==
  ASSUME ServiceTypeOK, NEW i PROVE LateScan(i) \in Scan
BY DEF ServiceTypeOK, LateScan, Scan

-----------------------------------------------------------------------------
(* Clients and time. *)

LEMMA WrittenKeeps ==
  ASSUME ServiceInv, NEW i \in Ids, NEW d \in Doc, Written(i, d)
  PROVE  /\ ServiceTypeOK'
         /\ SameJobs
         /\ \A j \in JobSlots : Alive(j) => job'[j].at = job[j].at
<1>1. job \in JobType /\ job' = Late(i, job, NoJob)
  BY DEF Written, ServiceInv, ServiceTypeOK, JobType
<1>2. job' \in JobType /\ SameJobs /\ \A j \in JobSlots : Alive(j) => job'[j].at = job[j].at
  BY <1>1, LateOnly DEF SameJobs, Alive
<1>3. scan' \in Scan
  BY LateScanType DEF Written, ServiceInv
<1>4. writes' \in 0..Bounds[continuous].writes /\ Bounds[continuous] \in [writes : Nat, stops : Nat]
  BY ServiceAssumption DEF Written, ServiceInv, ServiceTypeOK
<1>5. ServiceTypeOK'
  BY <1>2, <1>3, <1>4 DEF Written, ServiceInv, ServiceTypeOK, JobType
<1>6. QED
  BY <1>2, <1>5

LEMMA ClientCreatesInv ==
  ASSUME ServiceInv, NEW i \in Ids, NEW v \in BOOLEAN, ClientCreates(i, v)
  PROVE  ServiceInv'
<1> DEFINE d == [NoDoc EXCEPT !.exists = TRUE, !.valid = v, !.disturbed = JobsOf(i) # {}]
<1>1. d \in Doc /\ d.exists /\ d.state = "" /\ d.disturbed = (JobsOf(i) # {})
  <2>1. ASSUME NEW b \in BOOLEAN
        PROVE  LET e == [NoDoc EXCEPT !.exists = TRUE, !.valid = v, !.disturbed = b]
               IN  e \in Doc /\ e.exists /\ e.state = "" /\ e.disturbed = b
    <3>1. NoDoc \in Doc
      BY ServiceAssumption DEF Doc, NoDoc, States
    <3>2. QED
      BY <3>1 DEF Doc, States, NoDoc
  <2>2. (JobsOf(i) # {}) \in BOOLEAN
    OBVIOUS
  <2>3. QED
    BY <2>1, <2>2
<1>2. Written(i, d)
  BY DEF ClientCreates
<1>3. /\ ServiceTypeOK' /\ SameJobs
      /\ \A j \in JobSlots : Alive(j) => job'[j].at = job[j].at
  BY <1>1, <1>2, WrittenKeeps
<1>4. doc' = [doc EXCEPT ![i] = d] /\ UNCHANGED <<active, orphaned>>
  BY <1>2 DEF Written
<1>5. ActiveIsAlive' /\ OneJobPerId'
  BY <1>3, <1>4, JobsStay
<1>6. CompletedIsDone' /\ DeletedSaysNothing'
  BY <1>1, <1>4 DEF ServiceInv, ServiceTypeOK, CompletedIsDone, DeletedSaysNothing
<1>7. ASSUME NEW j \in JobSlots, Alive(j)', doc'[job'[j].id].exists
      PROVE  /\ Alive(j) /\ job'[j].id = job[j].id /\ job[j].id \in Ids
             /\ job'[j].at = job[j].at /\ job'[j].cancelled = job[j].cancelled
             /\ IF job[j].id = i THEN doc'[job[j].id].disturbed
                ELSE doc'[job[j].id] = doc[job[j].id]
  <2>1. Alive(j) /\ job'[j].id = job[j].id /\ job'[j].cancelled = job[j].cancelled
    BY <1>3, <1>7 DEF SameJobs
  <2>2. job[j].id \in Ids
    BY <2>1 DEF ServiceInv, ServiceTypeOK, Alive, Job, Free
  <2>3. ASSUME job[j].id = i PROVE doc'[i].disturbed
    <3>1. j \in JobsOf(i)
      BY <2>1, <2>3 DEF JobsOf
    <3>2. QED
      BY <3>1, <1>1, <1>4 DEF ServiceInv, ServiceTypeOK
  <2>4. QED
    BY <1>3, <1>4, <2>1, <2>2, <2>3 DEF ServiceInv, ServiceTypeOK
<1>8. CancelledIsDisturbed'
  BY <1>7 DEF ServiceInv, CancelledIsDisturbed, Alive
<1>9. FinishingIsDone'
  BY <1>7 DEF ServiceInv, FinishingIsDone, Alive
<1>10. QED
  BY <1>3, <1>5, <1>6, <1>8, <1>9 DEF ServiceInv

LEMMA WrittenLessInv ==
  ASSUME ServiceInv, NEW i \in Ids, NEW d \in Doc, Written(i, d),
         d.exists => /\ doc[i].exists
                     /\ d.state = doc[i].state
                     /\ d.disturbed = doc[i].disturbed
                     /\ d.done = doc[i].done,
         ~d.exists => d.state = ""
  PROVE  ServiceInv'
<1>1. /\ ServiceTypeOK' /\ SameJobs
      /\ \A j \in JobSlots : Alive(j) => job'[j].at = job[j].at
  BY WrittenKeeps
<1>2. doc' = [doc EXCEPT ![i] = d] /\ UNCHANGED <<active, orphaned>>
  BY DEF Written
<1>3. DocsKept /\ DeletedSaysNothing'
  BY <1>2 DEF ServiceInv, ServiceTypeOK, DocsKept, DeletedSaysNothing
<1>4. QED
  BY <1>1, <1>2, <1>3, JobsStay, DocsStay, FinishingStays DEF ServiceInv

LEMMA ClientEditsInv ==
  ASSUME ServiceInv, NEW i \in Ids, NEW v \in BOOLEAN, ClientEdits(i, v)
  PROVE  ServiceInv'
<1> DEFINE d == [doc[i] EXCEPT !.asRead = (@ \/ doc[i].fails > 0), !.valid = v]
<1>1. doc[i] \in Doc /\ doc[i].exists
  BY DEF ServiceInv, ServiceTypeOK, ClientEdits
<1>2. /\ d \in Doc /\ d.exists
      /\ d.state = doc[i].state /\ d.disturbed = doc[i].disturbed /\ d.done = doc[i].done
  BY <1>1 DEF Doc
<1>3. Written(i, d)
  BY DEF ClientEdits
<1> HIDE DEF d
<1>4. QED
  BY <1>1, <1>2, <1>3, WrittenLessInv

LEMMA ClientDeletesInv ==
  ASSUME ServiceInv, NEW i \in Ids, ClientDeletes(i) PROVE ServiceInv'
<1>1. NoDoc \in Doc /\ ~NoDoc.exists /\ NoDoc.state = ""
  BY ServiceAssumption DEF NoDoc, Doc, States
<1>2. QED
  BY <1>1, WrittenLessInv DEF ClientDeletes

LEMMA BackoffEndsInv ==
  ASSUME ServiceInv, NEW i \in Ids, BackoffEnds(i) PROVE ServiceInv'
<1>1. UNCHANGED <<continuous, active, job, scan, writes, stops, orphaned>>
  BY DEF BackoffEnds
<1>2. SameJobs /\ \A j \in JobSlots : job'[j].at = job[j].at
  BY <1>1 DEF SameJobs, Alive
<1>3. doc' = [doc EXCEPT ![i].retry = "over"] /\ doc' \in [Ids -> Doc]
  BY DEF BackoffEnds, ServiceInv, ServiceTypeOK, Doc
<1>4. DocsKept /\ DeletedSaysNothing'
  <2>1. ASSUME NEW k \in Ids
        PROVE  /\ doc'[k].exists = doc[k].exists /\ doc'[k].state = doc[k].state
               /\ doc'[k].disturbed = doc[k].disturbed /\ doc'[k].done = doc[k].done
    <3>1. doc[k] \in Doc /\ doc'[k] \in {doc[k], [doc[k] EXCEPT !.retry = "over"]}
      BY <1>3 DEF ServiceInv, ServiceTypeOK
    <3>2. QED
      BY <3>1 DEF Doc
  <2>2. QED
    BY <2>1 DEF ServiceInv, DocsKept, DeletedSaysNothing
<1>5. ServiceTypeOK'
  BY <1>1, <1>3 DEF ServiceInv, ServiceTypeOK
<1>6. QED
  BY <1>1, <1>2, <1>4, <1>5, JobsStay, DocsStay, FinishingStays DEF ServiceInv

-----------------------------------------------------------------------------
(* The process, and the scans that cancel. *)

LEMMA IdleIsScan == Idle \in Scan /\ [Idle EXCEPT !.at = "stopped"] \in Scan
BY DEF Idle, Scan, Seen, NotWanted

\* Whoever cancels goroutines tells their documents.
LEMMA CancelsTell ==
  ASSUME ServiceInv, NEW ids \in SUBSET Ids, NEW js \in SUBSET JobSlots,
         \A j \in js : Alive(j) /\ job[j].id \in ids,
         job' = Cancelled(js), doc' = Disturbed(ids)
  PROVE  /\ doc' \in [Ids -> Doc] /\ job' \in JobType
         /\ \A j \in JobSlots :
              /\ Alive(j)' <=> Alive(j)
              /\ Alive(j) => /\ job'[j].id = job[j].id
                             /\ job'[j].cancelled <=> (job[j].cancelled \/ j \in js)
         /\ CompletedIsDone' /\ CancelledIsDisturbed'
         /\ FinishingIsDone' /\ DeletedSaysNothing'
<1>1. /\ doc' \in [Ids -> Doc]
      /\ \A i \in Ids : /\ doc'[i].exists = doc[i].exists
                        /\ doc'[i].state = doc[i].state
                        /\ doc'[i].done = doc[i].done
                        /\ doc[i].disturbed => doc'[i].disturbed
                        /\ i \in ids /\ doc[i].exists => doc'[i].disturbed
  <2>1. ASSUME NEW i \in Ids
        PROVE  /\ doc'[i] \in Doc
               /\ doc'[i].exists = doc[i].exists
               /\ doc'[i].state = doc[i].state
               /\ doc'[i].done = doc[i].done
               /\ doc[i].disturbed => doc'[i].disturbed
               /\ i \in ids /\ doc[i].exists => doc'[i].disturbed
    <3>1. doc[i] \in Doc
      BY DEF ServiceInv, ServiceTypeOK
    <3>2. doc'[i] = IF i \in ids /\ doc[i].exists
                    THEN [doc[i] EXCEPT !.disturbed = TRUE] ELSE doc[i]
      BY DEF Disturbed
    <3>3. CASE i \in ids /\ doc[i].exists
      <4> DEFINE e == [doc[i] EXCEPT !.disturbed = TRUE]
      <4>1. e \in Doc /\ e.exists = doc[i].exists /\ e.state = doc[i].state
        BY <3>1 DEF Doc
      <4>2. e.done = doc[i].done /\ e.disturbed
        BY <3>1 DEF Doc
      <4> HIDE DEF e
      <4>3. doc'[i] = e
        BY <3>2, <3>3 DEF e
      <4>4. QED
        BY <4>1, <4>2, <4>3
    <3>4. CASE ~(i \in ids /\ doc[i].exists)
      BY <3>1, <3>2, <3>4
    <3>5. QED
      BY <3>3, <3>4
  <2>2. QED
    BY <2>1 DEF Disturbed
<1>2. ASSUME NEW j \in JobSlots
      PROVE  /\ job[j] = Free => job'[j] = Free
             /\ Alive(j) => /\ job'[j] \in Job
                            /\ job'[j].id = job[j].id /\ job'[j].at = job[j].at
                            /\ job'[j].cancelled <=> (job[j].cancelled \/ j \in js)
  <2>1. job'[j] = IF j \in js THEN [job[j] EXCEPT !.cancelled = TRUE] ELSE job[j]
    BY DEF Cancelled
  <2>2. Alive(j) => job[j] \in Job
    BY DEF ServiceInv, ServiceTypeOK, Alive
  <2>3. QED
    BY <2>1, <2>2 DEF Alive, Job
<1>3. \A x \in Job : x # Free
  BY DEF Job, Free
<1>4. job' \in JobType
  BY <1>2 DEF JobType, Cancelled, Alive
<1>5. \A j \in JobSlots : Alive(j)' <=> Alive(j)
  BY <1>2, <1>3 DEF Alive
<1>6. CompletedIsDone' /\ DeletedSaysNothing'
  BY <1>1 DEF ServiceInv, CompletedIsDone, DeletedSaysNothing
<1>7. \A j \in JobSlots : Alive(j) => job[j].id \in Ids
  BY DEF ServiceInv, ServiceTypeOK, Alive, Job
<1>8. CancelledIsDisturbed'
  BY <1>1, <1>2, <1>5, <1>7 DEF ServiceInv, CancelledIsDisturbed
<1>9. FinishingIsDone'
  BY <1>1, <1>2, <1>5, <1>7 DEF ServiceInv, FinishingIsDone
<1>10. QED
  BY <1>1, <1>2, <1>4, <1>5, <1>6, <1>8, <1>9

LEMMA ShutdownInv ==
  ASSUME ServiceInv, Shutdown PROVE ServiceInv'
<1> DEFINE js == {j \in JobSlots : Alive(j)}
           ids == {i \in Ids : JobsOf(i) # {}}
<1>1. job' = Cancelled(js) /\ doc' = Disturbed(ids)
  BY DEF Shutdown
<1>2. \A j \in js : Alive(j) /\ job[j].id \in ids
  BY DEF ServiceInv, ServiceTypeOK, Alive, Job, JobsOf
<1>3. js \in SUBSET JobSlots /\ ids \in SUBSET Ids
  OBVIOUS
<1>4. /\ doc' \in [Ids -> Doc] /\ job' \in JobType
      /\ \A j \in JobSlots :
           /\ Alive(j)' <=> Alive(j)
           /\ Alive(j) => /\ job'[j].id = job[j].id
                          /\ job'[j].cancelled <=> (job[j].cancelled \/ j \in js)
      /\ CompletedIsDone' /\ CancelledIsDisturbed'
      /\ FinishingIsDone' /\ DeletedSaysNothing'
  <2> HIDE DEF js, ids
  <2> QED
    BY <1>1, <1>2, <1>3, CancelsTell
<1>5. ServiceTypeOK'
  BY <1>4, IdleIsScan DEF Shutdown, ServiceInv, ServiceTypeOK, JobType
<1>6. ActiveIsAlive'
  BY DEF Shutdown, ActiveIsAlive, IsRunning
<1>7. OneJobPerId'
  BY <1>4 DEF OneJobPerId, JobsOf
<1>8. QED
  BY <1>4, <1>5, <1>6, <1>7 DEF ServiceInv

LEMMA RestartInv ==
  ASSUME ServiceInv, Restart PROVE ServiceInv'
<1>1. stops' \in 0..Bounds[continuous].stops
  BY ServiceAssumption DEF Restart, ServiceInv, ServiceTypeOK
<1>2. ServiceTypeOK'
  BY <1>1, IdleIsScan DEF Restart, ServiceInv, ServiceTypeOK
<1>3. \A j \in JobSlots : ~Alive(j)'
  BY DEF Restart, Alive
<1>4. ActiveIsAlive'
  BY DEF Restart, ActiveIsAlive, IsRunning
<1>5. OneJobPerId' /\ CancelledIsDisturbed' /\ FinishingIsDone'
  BY <1>3 DEF OneJobPerId, JobsOf, CancelledIsDisturbed, FinishingIsDone
<1>6. CompletedIsDone' /\ DeletedSaysNothing'
  BY DEF Restart, ServiceInv, CompletedIsDone, DeletedSaysNothing
<1>7. QED
  BY <1>2, <1>4, <1>5, <1>6 DEF ServiceInv

\* The entries of stale jobs go together with the jobs.
LEMMA ScanEndsInv ==
  ASSUME ServiceInv, ScanEnds PROVE ServiceInv'
<1> DEFINE ids == CancelStaleJobs
           js == {active[i] : i \in ids}
<1>1. job' = Cancelled(js) /\ doc' = Disturbed(ids)
  BY DEF ScanEnds
<1>2. ids \in SUBSET Ids /\ \A i \in ids : IsRunning(i)
  BY DEF CancelStaleJobs
<1>3. js \in SUBSET JobSlots /\ \A j \in js : Alive(j) /\ job[j].id \in ids
  BY <1>2 DEF ServiceInv, ActiveIsAlive, JobsOf
<1>4. /\ doc' \in [Ids -> Doc] /\ job' \in JobType
      /\ \A j \in JobSlots :
           /\ Alive(j)' <=> Alive(j)
           /\ Alive(j) => /\ job'[j].id = job[j].id
                          /\ job'[j].cancelled <=> (job[j].cancelled \/ j \in js)
      /\ CompletedIsDone' /\ CancelledIsDisturbed'
      /\ FinishingIsDone' /\ DeletedSaysNothing'
  <2> HIDE DEF js, ids
  <2> QED
    BY <1>1, <1>2, <1>3, CancelsTell
<1>5. active' = [i \in Ids |-> IF i \in ids THEN NoJob ELSE active[i]]
  BY DEF ScanEnds
<1>6. ServiceTypeOK'
  <2>1. active' \in [Ids -> JobSlots \cup {NoJob}]
    BY <1>5 DEF ServiceInv, ServiceTypeOK
  <2>2. QED
    BY <1>4, <2>1, IdleIsScan DEF ScanEnds, ServiceInv, ServiceTypeOK, JobType
<1>7. ActiveIsAlive'
  <2>1. SUFFICES ASSUME NEW i \in Ids, IsRunning(i)'
                 PROVE  active'[i] \in JobsOf(i)' /\ ~job'[active'[i]].cancelled
    BY DEF ActiveIsAlive
  <2>2. i \notin ids /\ active'[i] = active[i] /\ IsRunning(i)
    BY <1>5, <2>1 DEF IsRunning
  <2>3. active[i] \in JobsOf(i) /\ ~job[active[i]].cancelled
    BY <2>2 DEF ServiceInv, ActiveIsAlive
  <2>4. active[i] \notin js
    BY <1>3, <2>2, <2>3 DEF JobsOf
  <2>5. QED
    BY <1>4, <2>2, <2>3, <2>4 DEF JobsOf
<1>8. OneJobPerId'
  <2>1. SUFFICES ASSUME ~orphaned, NEW i \in Ids, NEW j \in JobsOf(i)',
                        ~job'[j].cancelled
                 PROVE  active'[i] = j
    BY DEF OneJobPerId, ScanEnds
  <2>2. j \in JobsOf(i) /\ j \in JobSlots /\ ~job[j].cancelled /\ j \notin js
    BY <1>4, <2>1 DEF JobsOf
  <2>3. active[i] = j
    BY <2>1, <2>2 DEF ServiceInv, OneJobPerId
  <2>4. i \notin ids
    BY <2>2, <2>3
  <2>5. QED
    BY <1>5, <2>3, <2>4
<1>9. QED
  BY <1>4, <1>6, <1>7, <1>8 DEF ServiceInv

-----------------------------------------------------------------------------
(* The other steps of the loop. *)

LEMMA ScanStepInv ==
  ASSUME ServiceInv, scan' \in Scan,
         UNCHANGED <<continuous, doc, active, job, writes, stops, orphaned>>
  PROVE  ServiceInv'
<1>1. ServiceTypeOK'
  BY DEF ServiceInv, ServiceTypeOK
<1>2. ActiveIsAlive' /\ OneJobPerId'
  BY DEF ServiceInv, ActiveIsAlive, OneJobPerId, IsRunning, JobsOf, Alive
<1>3. CompletedIsDone' /\ DeletedSaysNothing'
  BY DEF ServiceInv, CompletedIsDone, DeletedSaysNothing
<1>4. CancelledIsDisturbed' /\ FinishingIsDone'
  BY DEF ServiceInv, CancelledIsDisturbed, FinishingIsDone, Alive
<1>5. QED
  BY <1>1, <1>2, <1>3, <1>4 DEF ServiceInv

LEMMA ScanBeginsInv ==
  ASSUME ServiceInv, ScanBegins PROVE ServiceInv'
<1>1. ASSUME NEW i \in Ids PROVE Sees(i) \in Seen
  <2>1. doc[i].valid \in BOOLEAN
    BY DEF ServiceInv, ServiceTypeOK, Doc
  <2>2. (ConsecutiveFails(doc[i]) > 0) \in BOOLEAN
    OBVIOUS
  <2>3. QED
    BY <2>1, <2>2 DEF Sees, Seen, NotWanted
<1>2. scan' = [Idle EXCEPT !.at = "scans", !.seen = [i \in Ids |-> Sees(i)],
                           !.todo = {i \in Ids : doc[i].exists}]
  BY DEF ScanBegins
<1>3. [i \in Ids |-> Sees(i)] \in [Ids -> Seen]
  BY <1>1
<1>4. scan' \in Scan
  BY <1>2, <1>3, IdleIsScan DEF Scan
<1>5. QED
  BY <1>4, ScanStepInv DEF ScanBegins

LEMMA PassesInv ==
  ASSUME ServiceInv, NEW i \in Ids, Passes(i) PROVE ServiceInv'
<1>1. scan' \in Scan
  BY DEF Passes, ServiceInv, ServiceTypeOK, Scan
<1>2. QED
  BY <1>1, ScanStepInv DEF Passes

\* A job is submitted for an id that has no entry, so that whoever runs for it
\* was told to stop.
LEMMA SubmitInv ==
  ASSUME ServiceInv, NEW i \in Ids, Submit(i) PROVE ServiceInv'
<1>1. PICK j \in JobSlots :
        /\ ~Alive(j)
        /\ active' = [active EXCEPT ![i] = j]
        /\ job' = [job EXCEPT ![j] =
                    [id |-> i, at |-> "running", late |-> FALSE,
                     cancelled |-> FALSE, failed |-> scan.seen[i].failed]]
        /\ scan' = [scan EXCEPT !.at = "submits", !.slot = j, !.late = FALSE,
                                !.todo = @ \ {i}, !.keep = @ \cup {i}]
  BY DEF Submit
<1>2. UNCHANGED <<continuous, doc, writes, stops, orphaned>> /\ active[i] = NoJob
  BY DEF Submit, IsRunning
<1>3. job'[j] \in Job /\ job'[j].id = i /\ job'[j].at = "running" /\ ~job'[j].cancelled
  <2>1. scan.seen[i].failed \in BOOLEAN
    BY DEF ServiceInv, ServiceTypeOK, Scan, Seen
  <2>2. QED
    BY <1>1, <2>1 DEF ServiceInv, ServiceTypeOK, Job
<1>4. ServiceTypeOK'
  <2>1. scan' \in Scan
    BY <1>1 DEF ServiceInv, ServiceTypeOK, Scan
  <2>2. active' \in [Ids -> JobSlots \cup {NoJob}] /\ job' \in [JobSlots -> Job \cup {Free}]
    BY <1>1, <1>3 DEF ServiceInv, ServiceTypeOK
  <2>3. QED
    BY <1>2, <2>1, <2>2 DEF ServiceInv, ServiceTypeOK
<1>5. Alive(j)' /\ \A k \in JobSlots : k # j => job'[k] = job[k]
  BY <1>1, <1>3 DEF Alive, Free, Job, ServiceInv, ServiceTypeOK
<1>6. \A h \in Ids : \A k \in JobsOf(h)' : (k \in JobsOf(h) /\ k # j) \/ (k = j /\ h = i)
  BY <1>3, <1>5 DEF JobsOf, Alive
<1>7. ActiveIsAlive'
  <2>1. SUFFICES ASSUME NEW h \in Ids, IsRunning(h)'
                 PROVE  active'[h] \in JobsOf(h)' /\ ~job'[active'[h]].cancelled
    BY DEF ActiveIsAlive
  <2>2. CASE h = i
    BY <1>1, <1>3, <1>5, <2>2 DEF JobsOf, ServiceInv, ServiceTypeOK
  <2>3. CASE h # i
    <3>1. active'[h] = active[h] /\ IsRunning(h)
      BY <1>1, <2>1, <2>3 DEF ServiceInv, ServiceTypeOK, IsRunning
    <3>2. active[h] \in JobsOf(h) /\ ~job[active[h]].cancelled
      BY <3>1 DEF ServiceInv, ActiveIsAlive
    <3>3. active[h] \in JobSlots /\ active[h] # j
      BY <1>1, <3>2 DEF JobsOf
    <3>4. QED
      BY <1>5, <3>1, <3>2, <3>3 DEF JobsOf, Alive
  <2>4. QED
    BY <2>2, <2>3
<1>8. OneJobPerId'
  <2>1. SUFFICES ASSUME ~orphaned, NEW h \in Ids, NEW k \in JobsOf(h)',
                        ~job'[k].cancelled
                 PROVE  active'[h] = k
    BY <1>2 DEF OneJobPerId
  <2>2. CASE k = j /\ h = i
    BY <1>1, <2>2 DEF ServiceInv, ServiceTypeOK
  <2>3. CASE k \in JobsOf(h) /\ k # j
    <3>1. k \in JobSlots /\ ~job[k].cancelled
      BY <1>5, <2>1, <2>3 DEF JobsOf
    <3>2. active[h] = k /\ k # NoJob
      BY <2>1, <2>3, <3>1, ServiceAssumption DEF ServiceInv, OneJobPerId, NoJob
    <3>3. h # i
      BY <1>2, <3>2
    <3>4. QED
      BY <1>1, <3>2, <3>3 DEF ServiceInv, ServiceTypeOK
  <2>4. QED
    BY <1>6, <2>2, <2>3
<1>9. CompletedIsDone' /\ DeletedSaysNothing'
  BY <1>2 DEF ServiceInv, CompletedIsDone, DeletedSaysNothing
<1>10. CancelledIsDisturbed' /\ FinishingIsDone'
  <2>1. \A k \in JobSlots : Alive(k)' /\ k # j => Alive(k) /\ job'[k] = job[k]
    BY <1>5 DEF Alive
  <2>2. QED
    BY <1>2, <1>3, <2>1 DEF ServiceInv, CancelledIsDisturbed, FinishingIsDone
<1>11. QED
  BY <1>4, <1>7, <1>8, <1>9, <1>10 DEF ServiceInv

\* The loop writes a state other than completed to a document.
LEMMA LoopWritesInv ==
  ASSUME ServiceInv, scan' \in Scan, UNCHANGED <<continuous, active, writes, stops, orphaned>>,
         NEW i, NEW but, NEW state \in States \ {"completed"}, doc[i].exists,
         doc' = [doc EXCEPT ![i].state = state], job' = Late(i, job, but)
  PROVE  ServiceInv'
<1>1. job \in JobType
  BY DEF ServiceInv, ServiceTypeOK, JobType
<1>2. job' \in JobType /\ SameJobs /\ \A j \in JobSlots : Alive(j) => job'[j].at = job[j].at
  BY <1>1, LateOnly DEF SameJobs, Alive
<1>3. doc' \in [Ids -> Doc]
  <2>1. ASSUME NEW k \in Ids PROVE doc'[k] \in Doc
    <3>1. doc[k] \in Doc
      BY DEF ServiceInv, ServiceTypeOK
    <3>2. doc'[k] = doc[k] \/ doc'[k] = [doc[k] EXCEPT !.state = state]
      BY DEF ServiceInv, ServiceTypeOK
    <3>3. QED
      BY <3>1, <3>2 DEF Doc
  <2>2. QED
    BY <2>1 DEF ServiceInv, ServiceTypeOK
<1>4. DocsKept /\ DeletedSaysNothing'
  BY DEF ServiceInv, ServiceTypeOK, DocsKept, DeletedSaysNothing, Doc
<1>5. ServiceTypeOK'
  BY <1>2, <1>3 DEF ServiceInv, ServiceTypeOK, JobType
<1>6. QED
  BY <1>2, <1>4, <1>5, JobsStay, DocsStay, FinishingStays DEF ServiceInv

LEMMA SubmitWritesInv ==
  ASSUME ServiceInv, SubmitWrites PROVE ServiceInv'
<1> DEFINE i == job[scan.slot].id
<1>1. UNCHANGED <<continuous, active, writes, stops, orphaned>> /\ scan' \in Scan
  BY DEF SubmitWrites, ServiceInv, ServiceTypeOK, Scan
<1>2. CASE UNCHANGED <<doc, job>>
  BY <1>1, <1>2, ScanStepInv
<1>3. CASE doc' = [doc EXCEPT ![i].state = "initializing"] /\ job' = Late(i, job, scan.slot)
           /\ doc[i].exists
  <2>1. "initializing" \in States \ {"completed"}
    BY DEF States
  <2> HIDE DEF i
  <2>2. QED
    BY <1>1, <1>3, <2>1, LoopWritesInv
<1>4. QED
  BY <1>2, <1>3 DEF SubmitWrites

LEMMA RefusesInv ==
  ASSUME ServiceInv, NEW i \in Ids, Refuses(i) PROVE ServiceInv'
<1>1. scan' \in Scan
  BY DEF Refuses, ServiceInv, ServiceTypeOK, Scan
<1>2. QED
  BY <1>1, ScanStepInv DEF Refuses

LEMMA RefusalWritesInv ==
  ASSUME ServiceInv, NEW i \in Ids, RefusalWrites(i) PROVE ServiceInv'
<1>1. UNCHANGED <<continuous, active, writes, stops, orphaned>> /\ scan' \in Scan
  BY DEF RefusalWrites, ServiceInv, ServiceTypeOK, Scan
<1>2. CASE UNCHANGED <<doc, job>>
  BY <1>1, <1>2, ScanStepInv
<1>3. CASE doc' = [doc EXCEPT ![i].state = "error"] /\ job' = Late(i, job, NoJob)
           /\ doc[i].exists
  <2>1. "error" \in States \ {"completed"}
    BY DEF States
  <2>2. QED
    BY <1>1, <1>3, <2>1, LoopWritesInv
<1>4. QED
  BY <1>2, <1>3 DEF RefusalWrites

-----------------------------------------------------------------------------
(* The goroutines. *)

Ats == {"running", "run", "fail", "reset", "finish", "end"}

LEMMA StepOnly ==
  ASSUME ServiceTypeOK, NEW j \in JobSlots, Alive(j), NEW at \in Ats
  PROVE  /\ Step(j, at) \in JobType
         /\ Step(j, at)[j] # Free
         /\ Step(j, at)[j].id = job[j].id
         /\ Step(j, at)[j].cancelled = job[j].cancelled
         /\ Step(j, at)[j].at = at
         /\ \A k \in JobSlots : k # j => Step(j, at)[k] = job[k]
<1>1. job[j] \in Job
  BY DEF ServiceTypeOK, Alive
<1>2. Step(j, at)[j] = [job[j] EXCEPT !.at = at, !.late = FALSE]
  BY DEF Step, ServiceTypeOK
<1>3. /\ Step(j, at)[j] \in Job
      /\ Step(j, at)[j].id = job[j].id
      /\ Step(j, at)[j].cancelled = job[j].cancelled
      /\ Step(j, at)[j].at = at
  BY <1>1, <1>2 DEF Job, Ats
<1>4. \A x \in Job : x # Free
  BY DEF Job, Free
<1>5. \A k \in JobSlots : k # j => Step(j, at)[k] = job[k]
  BY DEF Step, ServiceTypeOK
<1>6. Step(j, at) \in JobType
  BY <1>3, <1>5 DEF JobType, Step, ServiceTypeOK
<1>7. QED
  BY <1>3, <1>4, <1>5, <1>6

\* What every step of a goroutine that goes on leaves alone, whether or not
\* others are told that they are late.
LEMMA GoesOn ==
  ASSUME ServiceInv, NEW j \in JobSlots, Alive(j), NEW at \in Ats, NEW i,
         job' = Step(j, at) \/ job' = Late(i, Step(j, at), j)
  PROVE  /\ job' \in JobType
         /\ SameJobs
         /\ \A k \in JobSlots : Alive(k) =>
              job'[k].at = IF k = j THEN at ELSE job[k].at
<1> DEFINE S == Step(j, at)
<1>1. /\ S \in JobType /\ S[j] # Free /\ S[j].id = job[j].id
      /\ S[j].cancelled = job[j].cancelled /\ S[j].at = at
      /\ \A k \in JobSlots : k # j => S[k] = job[k]
  BY StepOnly DEF ServiceInv
<1> HIDE DEF S
<1>2. \A k \in JobSlots :
        /\ S[k] # Free <=> Alive(k)
        /\ Alive(k) => /\ S[k].id = job[k].id /\ S[k].cancelled = job[k].cancelled
                       /\ S[k].at = IF k = j THEN at ELSE job[k].at
  BY <1>1 DEF Alive
<1>3. CASE job' = S
  BY <1>1, <1>2, <1>3 DEF SameJobs, Alive
<1>4. CASE job' = Late(i, S, j)
  <2>1. /\ job' \in JobType
        /\ \A k \in JobSlots : S[k] = Free => job'[k] = Free
        /\ \A k \in JobSlots : S[k] # Free =>
             /\ job'[k] # Free
             /\ job'[k].id = S[k].id /\ job'[k].at = S[k].at
             /\ job'[k].cancelled = S[k].cancelled
    BY <1>1, <1>4, LateOnly
  <2>2. QED
    BY <1>2, <2>1 DEF SameJobs, Alive
<1>5. QED
  BY <1>3, <1>4 DEF S

\* A put writes what it read of a run's end, and completed only after it.
LEMMA PutsInv ==
  ASSUME ServiceInv, NEW j \in JobSlots, NEW at, NEW next \in {"run", "end", "finish"},
         NEW d, Puts(j, at, d, next), next = "finish" => at = "reset",
         doc[job[j].id].exists =>
           /\ d \in Doc /\ d.exists
           /\ d.disturbed = doc[job[j].id].disturbed /\ d.done = doc[job[j].id].done
           /\ d.state = "completed" =>
                doc[job[j].id].state = "completed" \/ d.disturbed \/ d.done
  PROVE  ServiceInv'
<1> DEFINE i == job[j].id
<1>1. Alive(j) /\ job[j].at = at /\ UNCHANGED <<continuous, active, writes, stops, orphaned>>
  BY DEF Puts, Begun
<1>2. i \in Ids
  BY <1>1 DEF ServiceInv, ServiceTypeOK, Alive, Job
<1>3. /\ job' \in JobType /\ SameJobs
      /\ \A k \in JobSlots : Alive(k) => job'[k].at = IF k = j THEN next ELSE job[k].at
  <2>1. job' = Step(j, next) \/ job' = Late(i, Step(j, next), j)
    BY DEF Puts
  <2>2. next \in Ats
    BY DEF Ats
  <2>3. QED
    BY <1>1, <2>1, <2>2, GoesOn
<1>4. scan' \in Scan
  BY LateScanType DEF Puts, ServiceInv, ServiceTypeOK
<1>5. (doc[i].exists /\ doc' = [doc EXCEPT ![i] = d]) \/ doc' = doc
  BY DEF Puts
<1>6. doc' \in [Ids -> Doc]
  BY <1>2, <1>5 DEF ServiceInv, ServiceTypeOK
<1>7. DocsKept /\ DeletedSaysNothing'
  BY <1>2, <1>5 DEF ServiceInv, ServiceTypeOK, DocsKept, DeletedSaysNothing
<1>8. ServiceTypeOK'
  BY <1>1, <1>3, <1>4, <1>6 DEF ServiceInv, ServiceTypeOK, JobType
<1>9. FinishingIsDone'
  BY <1>1, <1>3, <1>7, FinishingStays
<1>10. QED
  BY <1>1, <1>3, <1>7, <1>8, <1>9, JobsStay, DocsStay DEF ServiceInv

LEMMA PutsRunningInv ==
  ASSUME ServiceInv, NEW j \in JobSlots, PutsRunning(j) PROVE ServiceInv'
<1> DEFINE d == [doc[job[j].id] EXCEPT !.state = "running"]
<1>1. job[j].id \in Ids
  BY DEF PutsRunning, Puts, Begun, ServiceInv, ServiceTypeOK, Alive, Job
<1>2. doc[job[j].id] \in Doc
  BY <1>1 DEF ServiceInv, ServiceTypeOK
<1>3. /\ d \in Doc /\ d.exists = doc[job[j].id].exists
      /\ d.disturbed = doc[job[j].id].disturbed
      /\ d.done = doc[job[j].id].done /\ d.state # "completed"
  BY <1>2 DEF Doc, States
<1>4. Puts(j, "running", d, "run")
  BY DEF PutsRunning
<1> HIDE DEF d
<1>5. QED
  BY <1>3, <1>4, PutsInv

LEMMA PutsFailureInv ==
  ASSUME ServiceInv, NEW j \in JobSlots, PutsFailure(j) PROVE ServiceInv'
<1> DEFINE d == incrementRetryCount(doc[job[j].id])
<1>1. job[j].id \in Ids
  BY DEF PutsFailure, Puts, Begun, ServiceInv, ServiceTypeOK, Alive, Job
<1>2. doc[job[j].id] \in Doc
  BY <1>1 DEF ServiceInv, ServiceTypeOK
<1>3. /\ d \in Doc /\ d.exists = doc[job[j].id].exists
      /\ d.disturbed = doc[job[j].id].disturbed
      /\ d.done = doc[job[j].id].done /\ d.state # "completed"
  <2>1. ConsecutiveFails(doc[job[j].id]) \in 0..MaxRetry
    BY <1>2, ServiceAssumption DEF Doc, ConsecutiveFails
  <2> DEFINE c == ConsecutiveFails(doc[job[j].id])
             f == IF c = MaxRetry THEN MaxRetry ELSE c + 1
             s == IF f >= MaxRetry THEN "error" ELSE "crashing"
  <2>2. f \in 0..MaxRetry /\ s \in {"error", "crashing"}
    BY <2>1, ServiceAssumption
  <2>3. d = [doc[job[j].id] EXCEPT !.fails = f, !.asRead = FALSE, !.retry = "waits",
                                   !.state = s]
    BY DEF incrementRetryCount
  <2> HIDE DEF d, f, s
  <2>4. QED
    BY <1>2, <2>2, <2>3 DEF Doc, States
<1>4. Puts(j, "fail", d, "end")
  BY DEF PutsFailure
<1> HIDE DEF d
<1>5. QED
  BY <1>3, <1>4, PutsInv

LEMMA ResetInv ==
  ASSUME ServiceInv, NEW j \in JobSlots, resetRetryCount(j) PROVE ServiceInv'
<1> DEFINE d == [doc[job[j].id] EXCEPT !.fails = 0, !.asRead = FALSE, !.retry = "none"]
           next == IF continuous THEN "end" ELSE "finish"
<1>1. job[j].id \in Ids
  BY DEF resetRetryCount, Puts, Begun, ServiceInv, ServiceTypeOK, Alive, Job
<1>2. doc[job[j].id] \in Doc
  BY <1>1 DEF ServiceInv, ServiceTypeOK
<1>3. /\ d \in Doc /\ d.exists = doc[job[j].id].exists
      /\ d.disturbed = doc[job[j].id].disturbed
      /\ d.done = doc[job[j].id].done /\ d.state = doc[job[j].id].state
  <2>1. 0 \in 0..MaxRetry
    BY ServiceAssumption
  <2>2. QED
    BY <1>2, <2>1 DEF Doc
<1>4. Puts(j, "reset", d, next) /\ next \in {"run", "end", "finish"}
  BY DEF resetRetryCount
<1> HIDE DEF d, next
<1>5. QED
  BY <1>3, <1>4, PutsInv

LEMMA PutsCompletedInv ==
  ASSUME ServiceInv, NEW j \in JobSlots, PutsCompleted(j) PROVE ServiceInv'
<1> DEFINE d == [doc[job[j].id] EXCEPT !.state = "completed"]
<1>1. job[j].id \in Ids /\ Alive(j) /\ job[j].at = "finish"
  BY DEF PutsCompleted, Puts, Begun, ServiceInv, ServiceTypeOK, Alive, Job
<1>2. doc[job[j].id] \in Doc
  BY <1>1 DEF ServiceInv, ServiceTypeOK
<1>3. /\ d \in Doc /\ d.exists = doc[job[j].id].exists
      /\ d.disturbed = doc[job[j].id].disturbed
      /\ d.done = doc[job[j].id].done
  BY <1>2 DEF Doc, States
<1>4. Puts(j, "finish", d, "end")
  BY DEF PutsCompleted
<1>5. doc[job[j].id].exists => doc[job[j].id].disturbed \/ doc[job[j].id].done
  BY <1>1 DEF ServiceInv, FinishingIsDone
<1> HIDE DEF d
<1>6. QED
  BY <1>3, <1>4, <1>5, PutsInv

LEMMA RunEndsInv ==
  ASSUME ServiceInv, NEW j \in JobSlots, RunEnds(j) PROVE ServiceInv'
<1> DEFINE i == job[j].id
<1>1. Alive(j) /\ UNCHANGED <<continuous, active, scan, writes, stops, orphaned>>
  BY DEF RunEnds, RunSucceeds, RunFails, Begun
<1>2. i \in Ids
  BY <1>1 DEF ServiceInv, ServiceTypeOK, Alive, Job
<1> DEFINE e == [doc[i] EXCEPT !.done = TRUE]
<1>e. /\ e \in Doc /\ e.exists = doc[i].exists /\ e.state = doc[i].state
      /\ e.disturbed = doc[i].disturbed /\ e.done
  <2>1. doc[i] \in Doc
    BY <1>2 DEF ServiceInv, ServiceTypeOK
  <2>2. QED
    BY <2>1 DEF Doc
<1>3. PICK at \in {"reset", "end", "finish", "fail"} :
        /\ job' = Step(j, at)
        /\ \/ at = "fail" /\ doc' = doc
           \/ (job[j].cancelled \/ ~doc[i].exists) /\ doc' = doc
           \/ doc' = [doc EXCEPT ![i] = e]
  BY DEF RunEnds, RunSucceeds, RunFails
<1> HIDE DEF e
<1>4. /\ job' \in JobType /\ SameJobs
      /\ \A k \in JobSlots : Alive(k) => job'[k].at = IF k = j THEN at ELSE job[k].at
  <2>1. at \in Ats
    BY DEF Ats
  <2>2. QED
    BY <1>1, <1>3, <2>1, GoesOn
<1>5. doc' \in [Ids -> Doc]
  BY <1>2, <1>e, <1>3 DEF ServiceInv, ServiceTypeOK
<1>6. DocsKept /\ DeletedSaysNothing'
  BY <1>2, <1>e, <1>3 DEF ServiceInv, ServiceTypeOK, DocsKept, DeletedSaysNothing
<1>7. ServiceTypeOK'
  BY <1>1, <1>4, <1>5 DEF ServiceInv, ServiceTypeOK, JobType
<1>8. FinishingIsDone'
  <2>1. SUFFICES ASSUME NEW k \in JobSlots, Alive(k)', job'[k].at \in {"reset", "finish"},
                        doc'[job'[k].id].exists
                 PROVE  doc'[job'[k].id].disturbed \/ doc'[job'[k].id].done
    BY DEF FinishingIsDone
  <2>2. Alive(k) /\ job'[k].id = job[k].id
    BY <1>4, <2>1 DEF SameJobs
  <2>3. CASE k # j
    <3>1. job[k].at \in {"reset", "finish"} /\ job[k].id \in Ids
      BY <1>4, <2>1, <2>2, <2>3 DEF ServiceInv, ServiceTypeOK, Alive, Job
    <3>2. QED
      BY <1>6, <2>1, <2>2, <3>1 DEF ServiceInv, FinishingIsDone, DocsKept
  <2>4. CASE k = j
    <3>1. at # "fail"
      BY <1>4, <2>1, <2>2, <2>4
    <3>2. CASE (job[j].cancelled \/ ~doc[i].exists) /\ doc' = doc
      <4>1. job[j].cancelled /\ doc[i].exists
        BY <2>1, <2>2, <2>4, <3>2
      <4>2. doc[i].disturbed
        BY <1>1, <4>1 DEF ServiceInv, CancelledIsDisturbed
      <4>3. QED
        BY <2>2, <2>4, <3>2, <4>2
    <3>3. CASE doc' = [doc EXCEPT ![i] = e]
      BY <1>2, <1>e, <2>2, <2>4, <3>3 DEF ServiceInv, ServiceTypeOK
    <3>4. QED
      BY <1>3, <3>1, <3>2, <3>3
  <2>5. QED
    BY <2>3, <2>4
<1>9. QED
  BY <1>1, <1>4, <1>6, <1>7, <1>8, JobsStay, DocsStay DEF ServiceInv

\* A goroutine that ends takes an entry along that is its own, or it is known
\* to have taken another's.
LEMMA EndsInv ==
  ASSUME ServiceInv, NEW j \in JobSlots, Ends(j) PROVE ServiceInv'
<1> DEFINE i == job[j].id
<1>1. /\ Alive(j) /\ i \in Ids
      /\ job' = [job EXCEPT ![j] = Free] /\ active' = [active EXCEPT ![i] = NoJob]
      /\ orphaned' = (orphaned \/ active[i] \notin {j, NoJob})
      /\ UNCHANGED <<continuous, doc, scan, writes, stops>>
  BY DEF Ends, Begun, ServiceInv, ServiceTypeOK, Alive, Job
<1>2. ServiceTypeOK'
  BY <1>1 DEF ServiceInv, ServiceTypeOK
<1>3. \A k \in JobSlots : Alive(k)' => k # j /\ Alive(k) /\ job'[k] = job[k]
  BY <1>1 DEF ServiceInv, ServiceTypeOK, Alive
<1>4. \A k \in JobSlots : Alive(k) /\ k # j => Alive(k)' /\ job'[k] = job[k]
  BY <1>1 DEF ServiceInv, ServiceTypeOK, Alive
<1>5. \A h \in Ids : h # i => active'[h] = active[h]
  BY <1>1 DEF ServiceInv, ServiceTypeOK
<1>6. ActiveIsAlive'
  <2>1. SUFFICES ASSUME NEW h \in Ids, IsRunning(h)'
                 PROVE  active'[h] \in JobsOf(h)' /\ ~job'[active'[h]].cancelled
    BY DEF ActiveIsAlive
  <2>2. h # i /\ active'[h] = active[h] /\ IsRunning(h)
    BY <1>1, <2>1 DEF IsRunning, ServiceInv, ServiceTypeOK
  <2>3. active[h] \in JobsOf(h) /\ ~job[active[h]].cancelled
    BY <2>2 DEF ServiceInv, ActiveIsAlive
  <2>4. QED
    BY <1>4, <2>2, <2>3 DEF JobsOf
<1>7. OneJobPerId'
  <2>1. SUFFICES ASSUME ~orphaned', NEW h \in Ids, NEW k \in JobsOf(h)',
                        ~job'[k].cancelled
                 PROVE  active'[h] = k
    BY DEF OneJobPerId
  <2>2. k \in JobsOf(h) /\ k # j /\ k \in JobSlots /\ ~job[k].cancelled
    BY <1>3, <2>1 DEF JobsOf
  <2>3. active[h] = k
    BY <1>1, <2>1, <2>2 DEF ServiceInv, OneJobPerId
  <2>4. k # NoJob
    BY <2>2, ServiceAssumption DEF NoJob
  <2>5. h # i
    BY <1>1, <2>1, <2>2, <2>3, <2>4
  <2>6. QED
    BY <1>5, <2>3, <2>5
<1>8. CompletedIsDone' /\ DeletedSaysNothing'
  BY <1>1 DEF ServiceInv, CompletedIsDone, DeletedSaysNothing
<1>9. CancelledIsDisturbed' /\ FinishingIsDone'
  BY <1>1, <1>3 DEF ServiceInv, CancelledIsDisturbed, FinishingIsDone
<1>10. QED
  BY <1>2, <1>6, <1>7, <1>8, <1>9 DEF ServiceInv

-----------------------------------------------------------------------------

LEMMA ServiceInitInv == ServiceInit => ServiceInv
<1> SUFFICES ASSUME ServiceInit PROVE ServiceInv
  OBVIOUS
<1>1. PICK v \in [Ids -> BOOLEAN] :
        doc = [i \in Ids |-> [NoDoc EXCEPT !.exists = TRUE, !.valid = v[i]]]
  BY DEF ServiceInit
<1>d. doc \in [Ids -> Doc] /\ \A i \in Ids : doc[i].state = ""
  <2>1. NoDoc \in Doc
    BY ServiceAssumption DEF NoDoc, Doc, States
  <2>2. ASSUME NEW i \in Ids PROVE doc[i] \in Doc /\ doc[i].state = ""
    <3>1. v[i] \in BOOLEAN /\ doc[i] = [NoDoc EXCEPT !.exists = TRUE, !.valid = v[i]]
      BY <1>1
    <3>2. QED
      BY <2>1, <3>1 DEF NoDoc, Doc, States
  <2>3. QED
    BY <1>1, <2>2
<1>2. writes \in 0..Bounds[continuous].writes /\ stops \in 0..Bounds[continuous].stops
  <2>1. writes = 0 /\ stops = 0 /\ Bounds[continuous] \in [writes : Nat, stops : Nat]
    BY ServiceAssumption DEF ServiceInit
  <2>2. QED
    BY <2>1
<1>3. ServiceTypeOK
  <2>1. doc \in [Ids -> Doc]
    BY <1>d
  <2>2. active \in [Ids -> JobSlots \cup {NoJob}] /\ job \in [JobSlots -> Job \cup {Free}]
    BY DEF ServiceInit
  <2>3. continuous \in BOOLEAN /\ orphaned \in BOOLEAN /\ scan \in Scan
    BY IdleIsScan DEF ServiceInit
  <2>4. QED
    BY <1>2, <2>1, <2>2, <2>3 DEF ServiceTypeOK
<1>4. \A j \in JobSlots : ~Alive(j)
  BY DEF ServiceInit, Alive
<1>5. ActiveIsAlive /\ OneJobPerId /\ CancelledIsDisturbed /\ FinishingIsDone
  BY <1>4 DEF ServiceInit, ActiveIsAlive, IsRunning, OneJobPerId, JobsOf,
              CancelledIsDisturbed, FinishingIsDone
<1>6. CompletedIsDone /\ DeletedSaysNothing
  BY <1>d DEF CompletedIsDone, DeletedSaysNothing
<1>7. QED
  BY <1>3, <1>5, <1>6 DEF ServiceInv

LEMMA ServiceNextInv ==
  ASSUME ServiceInv, [ServiceNext]_serviceVars PROVE ServiceInv'
<1>1. ASSUME NEW i \in Ids, ClientNext(i) \/ BackoffEnds(i) PROVE ServiceInv'
  BY <1>1, ClientCreatesInv, ClientEditsInv, ClientDeletesInv, BackoffEndsInv DEF ClientNext
<1>2. CASE Shutdown \/ Restart
  BY <1>2, ShutdownInv, RestartInv
<1>3. CASE ScanNext
  BY <1>3, ScanBeginsInv, SubmitWritesInv, ScanEndsInv, PassesInv, SubmitInv,
     RefusesInv, RefusalWritesInv DEF ScanNext
<1>4. ASSUME NEW j \in JobSlots, Writes(j) \/ RunEnds(j) PROVE ServiceInv'
  BY <1>4, PutsRunningInv, PutsFailureInv, ResetInv, PutsCompletedInv, EndsInv, RunEndsInv
     DEF Writes
<1>5. CASE UNCHANGED serviceVars
  <2>1. scan' \in Scan
    BY <1>5 DEF serviceVars, ServiceInv, ServiceTypeOK
  <2>2. QED
    BY <1>5, <2>1, ScanStepInv DEF serviceVars
<1>6. QED
  BY <1>1, <1>2, <1>3, <1>4, <1>5 DEF ServiceNext

\* The inductive invariant of the service, with its types: what the entries,
\* the goroutines and the documents tell of each other after any interleaving
\* of the loop, the goroutines, clients, time, stops and restarts.
THEOREM ServiceInvariant == ServiceSpec => []ServiceInv
<1>1. ServiceInit => ServiceInv
  BY ServiceInitInv
<1>2. ServiceInv /\ [ServiceNext]_serviceVars => ServiceInv'
  BY ServiceNextInv
<1>3. QED
  BY <1>1, <1>2, PTL DEF ServiceSpec

\* What activeJobs holds for an id is always a goroutine of that id that runs
\* and was not told to stop.
THEOREM ActiveAlive == ServiceSpec => []ActiveIsAlive
<1>1. ServiceInv => ActiveIsAlive
  BY DEF ServiceInv
<1>2. QED
  BY <1>1, ServiceInvariant, PTL

\* As long as no deferred delete took another's entry along, two goroutines
\* that were not told to stop never replicate for one id.
THEOREM OneJob == ServiceSpec => []OneJobPerId
<1>1. ServiceInv => OneJobPerId
  BY DEF ServiceInv
<1>2. QED
  BY <1>1, ServiceInvariant, PTL

\* No document that was not disturbed says completed without a run of it that
\* came to its end.
THEOREM CompletedDone == ServiceSpec => []CompletedIsDone
<1>1. ServiceInv => CompletedIsDone
  BY DEF ServiceInv
<1>2. QED
  BY <1>1, ServiceInvariant, PTL

=============================================================================
