---------------------------- MODULE MCReplicator ----------------------------
(* Instances of Replicator for TLC. *)
EXTENDS Replicator

CONSTANTS d1, d2

Between(s, t, continuous, create) ==
  [source |-> s, target |-> t, continuous |-> continuous, createTarget |-> create]

ContinuousPull == Between("http", "local", TRUE, TRUE)
OneShotPull    == Between("http", "local", FALSE, FALSE)
OneShotPush    == Between("local", "http", FALSE, TRUE)
LocalCopy      == Between("local", "local", TRUE, TRUE)

MCJobs == {ContinuousPull, OneShotPull, OneShotPush, LocalCopy}

\* Runs break off most where a session may come to be recorded at one end
\* only; the source is written most where the reader is sent to the start.
MCBounds ==
  [j \in MCJobs |->
     CASE j = ContinuousPull -> [source |-> 3, target |-> 1, faults |-> 0]
       [] j = OneShotPull    -> [source |-> 3, target |-> 0, faults |-> 1]
       [] j = OneShotPush    -> [source |-> 2, target |-> 0, faults |-> 2]
       [] j = LocalCopy      -> [source |-> 3, target |-> 0, faults |-> 1]]

\* What the run checks says nothing of a behaviour from its first overlap on:
\* TLC checks the state of the overlap and goes no further.
UntilOverlap == ~overlapped

=============================================================================
