---------------------------- MODULE OneWayCopy ----------------------------
(***************************************************************************)
(* What a replication promises, whatever its messages are: documents       *)
(* change at a source, a target comes to have their current revisions, and *)
(* a resume point says how far the source's changes need not be read       *)
(* again.  The promise ends where two transactions on a database overlap.  *)
(* Replicator is shown to implement this specification.                    *)
(***************************************************************************)
EXTENDS Integers

CONSTANTS Docs,    \* documents of the source
          MaxSeq   \* bound: the highest sequence of a change

VARIABLES current,    \* the sequence of the last change of each document, or 0
          has,        \* the documents whose current revision the target has
          resume,     \* where a run that starts now would resume
          gap,        \* whether a run read on from a change that is overtaken
          overlapped  \* whether two transactions overlapped

copyVars == <<current, has, resume, gap, overlapped>>

CopyInit ==
  /\ current = [d \in Docs |-> 0]
  /\ has = Docs
  /\ resume = 0
  /\ gap = FALSE
  /\ overlapped = FALSE

-----------------------------------------------------------------------------

\* A document changes: it moves behind all other changes and behind the resume
\* point.  The target may happen to have the new revision already.
Change(d, s, there) ==
  /\ \A e \in Docs : current[e] < s
  /\ resume < s
  /\ current' = [current EXCEPT ![d] = s]
  /\ has' = IF there THEN has \cup {d} ELSE has \ {d}
  /\ UNCHANGED <<resume, gap, overlapped>>

\* The target never gives a current revision back.
Deliver(delivered) ==
  /\ has' = has \cup delivered
  /\ UNCHANGED <<current, resume, gap, overlapped>>

\* Unless a change was overtaken under a reader, the resume point moves only
\* to where everything up to it is at the target.
Resume(s) ==
  /\ gap \/ \A d \in Docs : current[d] <= s => d \in has
  /\ resume' = s
  /\ UNCHANGED <<current, has, gap, overlapped>>

\* A run reads on from a sequence that is no document's last change any more.
Overtaken ==
  /\ \E s \in 1..MaxSeq, e \in Docs :
       s < current[e] /\ \A d \in Docs : current[d] # s
  /\ gap' = TRUE
  /\ UNCHANGED <<current, has, resume, overlapped>>

\* The target database is removed: there is nothing to resume.
TargetLost ==
  /\ has' = {d \in Docs : current[d] = 0}
  /\ resume' = 0
  /\ UNCHANGED <<current, gap, overlapped>>

\* Nothing is promised from here on.
Overlap == overlapped'

CopyNext ==
  \/ \E d \in Docs, s \in 1..MaxSeq, there \in BOOLEAN : Change(d, s, there)
  \/ \E delivered \in SUBSET Docs : Deliver(delivered)
  \/ \E s \in 0..MaxSeq : Resume(s)
  \/ Overtaken
  \/ TargetLost
  \/ Overlap

CopySpec == CopyInit /\ [][CopyNext]_copyVars

-----------------------------------------------------------------------------

\* Everything up to the resume point is at the target, so a run that resumes
\* there misses nothing, unless a change was overtaken under a reader.
ResumeIsSafe == gap \/ \A d \in Docs : current[d] <= resume => d \in has

=============================================================================
