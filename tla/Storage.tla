------------------------------- MODULE Storage -------------------------------
(***************************************************************************)
(* The storage manager: which databases exist, from the requests that      *)
(* create, delete and use them down to the files.  One mutex guards the    *)
(* map of databases; the engine takes a lock on the file it opens and      *)
(* waits for it without a limit, and closing a file waits for the          *)
(* transactions that are open on it.                                       *)
(*                                                                         *)
(* A restart loads every file of the directory whose name has no dot and   *)
(* then sees to the _users database.  What a database holds is abstracted  *)
(* to the incarnation of its file; for _users also to whether its design   *)
(* document and its security object are stored.                            *)
(***************************************************************************)
EXTENDS Integers, FiniteSets

CONSTANTS Names,       \* database names
          Dotted,      \* those with a dot in them
          Users,       \* the system database
          Clients,     \* requests served at the same time
          MaxDbs,      \* the max_dbs setting
          MaxHandles,  \* bound: files opened
          MaxRequests, MaxFaults, MaxCrashes   \* bounds

Boot == "boot"           \* the process that starts the server
Procs == Clients \cup {Boot}
Nobody == "nobody"

ASSUME StorageAssumption ==
  /\ Dotted \subseteq Names /\ Users \in Names \ Dotted /\ IsFiniteSet(Names)
  /\ Boot \notin Clients /\ Nobody \notin Clients

VARIABLES
  file,     \* the incarnation in each database file, 0 when there is none
  dir,      \* the incarnations whose attachments are in <name>.d
  users,    \* what is stored in _users: a subset of {"ddoc", "security"}
  reg,      \* Storage.dbs: the handle registered for each name, 0 for none
  handle,   \* the handles opened since the start: name, incarnation, open
  mu,       \* the holder of Storage.mu
  proc,     \* what each request is about to do
  booted,   \* whether the server serves requests
  acked,    \* ghost: names whose creation was answered and not undone
  made,     \* incarnations created so far
  budget

vars == <<file, dir, users, reg, handle, mu, proc, booted, acked, made, budget>>
disk == <<file, dir, users>>

Idle == [at |-> "idle"]
To(p, at) == proc' = [proc EXCEPT ![p].at = at]
Answer(p) == proc' = [proc EXCEPT ![p] = Idle]

Spend(what, max) ==
  /\ budget[what] < max
  /\ budget' = [budget EXCEPT ![what] = @ + 1]

\* The read lock is held for one lookup, so it only waits for a writer.
MayRead == mu = Nobody

IsOpen(h) == h # 0 /\ handle[h].open

\* The file locks held in this process.
Locked(n) == \E h \in DOMAIN handle : handle[h].open /\ handle[h].name = n

\* Transactions open on a handle.
InUse(h) == \E p \in Clients : proc[p].at \in {"view", "commit"} /\ proc[p].h = h

-----------------------------------------------------------------------------
(* Creating: the handler, or a replication that creates its target. *)

\* DBCreate looks the name up first; a name that is known is refused.
CreateRequest(p, n) ==
  /\ booted /\ proc[p].at = "idle" /\ MayRead
  /\ Spend("requests", MaxRequests)
  /\ IF reg[n] # 0 THEN UNCHANGED proc
     ELSE proc' = [proc EXCEPT ![p] = [at |-> "limit", name |-> n]]
  /\ UNCHANGED <<disk, reg, handle, mu, booted, acked, made>>

\* CheckMaxDatabases
CheckLimit(p) ==
  /\ proc[p].at = "limit" /\ MayRead
  /\ IF Cardinality({n \in Names : reg[n] # 0}) >= MaxDbs
     THEN Answer(p) ELSE To(p, "create")
  /\ UNCHANGED <<disk, reg, handle, mu, booted, acked, made, budget>>

\* CreateDatabase takes the mutex and does not look again.
LockToCreate(p) ==
  /\ proc[p].at = "create" /\ mu = Nobody
  /\ mu' = p
  /\ To(p, "open")
  /\ UNCHANGED <<disk, reg, handle, booted, acked, made, budget>>

\* It opens the file, creating it if need be, and registers the database.
\* bbolt.Open waits, under the mutex, as long as the file is open already.
OpenFile(p) ==
  /\ proc[p].at = "open" /\ Cardinality(DOMAIN handle) < MaxHandles
  /\ LET n   == proc[p].name
         h   == Cardinality(DOMAIN handle) + 1
         inc == IF file[n] = 0 THEN made + 1 ELSE file[n]
     IN  /\ ~Locked(n)
         /\ file' = [file EXCEPT ![n] = inc]
         /\ users' = IF n = Users /\ file[n] = 0 THEN {} ELSE users
         /\ made' = IF file[n] = 0 THEN made + 1 ELSE made
         /\ handle' = [i \in 1..h |-> IF i = h
                        THEN [name |-> n, inc |-> inc, open |-> TRUE] ELSE handle[i]]
         /\ reg' = [reg EXCEPT ![n] = h]
  /\ To(p, "build")
  /\ UNCHANGED <<dir, mu, booted, acked, budget>>

\* It builds the buckets and indices and answers.
Build(p) ==
  /\ proc[p].at = "build"
  /\ mu' = Nobody
  /\ IF p = Boot THEN To(p, "seed") ELSE Answer(p)
  /\ acked' = acked \cup {proc[p].name}
  /\ UNCHANGED <<disk, reg, handle, booted, made, budget>>

\* That fails: the error is answered, the database stays registered.
BuildFails(p) ==
  /\ proc[p].at = "build" /\ p # Boot
  /\ Spend("faults", MaxFaults)
  /\ mu' = Nobody
  /\ Answer(p)
  /\ UNCHANGED <<disk, reg, handle, booted, acked, made>>

-----------------------------------------------------------------------------
(* Deleting. *)

\* DeleteDatabase holds the mutex from the lookup to the end.
DeleteRequest(p, n) ==
  /\ booted /\ proc[p].at = "idle" /\ mu = Nobody
  /\ Spend("requests", MaxRequests)
  /\ IF reg[n] = 0 THEN UNCHANGED <<proc, mu, acked>>
     ELSE /\ mu' = p
          /\ proc' = [proc EXCEPT ![p] = [at |-> "close", name |-> n]]
          /\ acked' = acked \ {n}
  /\ UNCHANGED <<disk, reg, handle, booted, made>>

\* Mutant: the file is closed under the transactions that are open on it.
CloseAtOnce(h) == TRUE

\* Closing waits for the open transactions.
CanClose(h) == ~InUse(h)

CloseFile(p) ==
  /\ proc[p].at = "close"
  /\ LET h == reg[proc[p].name]
     IN  /\ CanClose(h)
         /\ handle' = [handle EXCEPT ![h].open = FALSE]
  /\ To(p, "remove")
  /\ UNCHANGED <<disk, reg, mu, booted, acked, made, budget>>

\* Mutant: an error path returns without releasing the mutex.
GiveUpHolding(p) == Answer(p) /\ UNCHANGED mu

\* The error of a step is answered; the steps before it are not undone.
GiveUp(p) == mu' = Nobody /\ Answer(p)

\* os.Remove; a file that is not there is an error.
RemoveFile(p) ==
  /\ proc[p].at = "remove"
  /\ IF file[proc[p].name] = 0 THEN GiveUp(p) /\ UNCHANGED file
     ELSE /\ file' = [file EXCEPT ![proc[p].name] = 0]
          /\ To(p, "rmdir")
          /\ UNCHANGED mu
  /\ UNCHANGED <<dir, users, reg, handle, booted, acked, made, budget>>

\* os.RemoveAll, and only then the entry of the map.
RemoveDir(p) ==
  /\ proc[p].at = "rmdir"
  /\ dir' = [dir EXCEPT ![proc[p].name] = {}]
  /\ reg' = [reg EXCEPT ![proc[p].name] = 0]
  /\ GiveUp(p)
  /\ UNCHANGED <<file, users, handle, booted, acked, made, budget>>

RemoveFails(p) ==
  /\ proc[p].at \in {"remove", "rmdir"}
  /\ Spend("faults", MaxFaults)
  /\ GiveUp(p)
  /\ UNCHANGED <<disk, reg, handle, booted, acked, made>>

-----------------------------------------------------------------------------
(* Using: any request that reads or writes a database. *)

\* Storage.Database: the handle is kept after the read lock is released.
Lookup(p, n) ==
  /\ booted /\ proc[p].at = "idle" /\ MayRead
  /\ Spend("requests", MaxRequests)
  /\ IF reg[n] = 0 THEN UNCHANGED proc
     ELSE proc' = [proc EXCEPT ![p] = [at |-> "begin", name |-> n, h |-> reg[n]]]
  /\ UNCHANGED <<disk, reg, handle, mu, booted, acked, made>>

\* PutAttachment stores the file first, under the name of the database.
StoreBlob(p) ==
  /\ proc[p].at = "begin"
  /\ dir' = [dir EXCEPT ![proc[p].name] = @ \cup {handle[proc[p].h].inc}]
  /\ UNCHANGED <<file, users, reg, handle, mu, proc, booted, acked, made, budget>>

\* A transaction on a file that was closed meanwhile is an error.
Opens(p, at) == IF IsOpen(proc[p].h) THEN To(p, at) ELSE Answer(p)

\* ReadTransaction and the first half of WriteTransaction, bbolt's View.
BeginTx(p) ==
  /\ proc[p].at = "begin"
  /\ Opens(p, "view")
  /\ UNCHANGED <<disk, reg, handle, mu, booted, acked, made, budget>>

\* It ends: with an answer, or with an operation log to commit.
EndView(p) ==
  /\ proc[p].at = "view"
  /\ Answer(p) \/ To(p, "update")
  /\ UNCHANGED <<disk, reg, handle, mu, booted, acked, made, budget>>

\* The log is committed in a transaction of its own, bbolt's Update.
BeginUpdate(p) ==
  /\ proc[p].at = "update"
  /\ Opens(p, "commit")
  /\ UNCHANGED <<disk, reg, handle, mu, booted, acked, made, budget>>

CommitTx(p) ==
  /\ proc[p].at = "commit"
  /\ Answer(p)
  /\ UNCHANGED <<disk, reg, handle, mu, booted, acked, made, budget>>

-----------------------------------------------------------------------------
(* Crash and start. *)

\* Mutant: every file is skipped.
LoadsNone == {}

\* The files ReloadDatabases loads.
Loads == {n \in Names \ Dotted : file[n] # 0}

\* ReloadDatabases opens them one after the other; nothing else runs yet.
Restart ==
  /\ Spend("crashes", MaxCrashes)
  /\ \E order \in [Loads -> 1..Cardinality(Loads)] :
       /\ \A a, b \in Loads : order[a] = order[b] => a = b
       /\ handle' = [h \in 1..Cardinality(Loads) |->
            LET n == CHOOSE m \in Loads : order[m] = h
            IN  [name |-> n, inc |-> file[n], open |-> TRUE]]
       /\ reg' = [n \in Names |-> IF n \in Loads THEN order[n] ELSE 0]
  /\ mu' = Nobody
  /\ booted' = FALSE
  /\ proc' = [p \in Procs |->
       IF p # Boot THEN Idle
       ELSE [at |-> IF Users \in Loads THEN "seed" ELSE "create", name |-> Users]]
  /\ UNCHANGED <<disk, acked, made>>

\* ensureUsersDB does nothing more when the design document is there.
Seeds == "ddoc" \notin users

Seed ==
  /\ proc[Boot].at = "seed"
  /\ IF Seeds
     THEN users' = users \cup {"ddoc"} /\ To(Boot, "secure") /\ UNCHANGED booted
     ELSE Answer(Boot) /\ booted' = TRUE /\ UNCHANGED users
  /\ UNCHANGED <<file, dir, reg, handle, mu, acked, made, budget>>

\* PutSecurity, a transaction of its own.
Secure ==
  /\ proc[Boot].at = "secure"
  /\ users' = users \cup {"security"}
  /\ Answer(Boot)
  /\ booted' = TRUE
  /\ UNCHANGED <<file, dir, reg, handle, mu, acked, made, budget>>

-----------------------------------------------------------------------------
\* The first start, in an empty directory.
Init ==
  /\ file = [n \in Names |-> 0] /\ dir = [n \in Names |-> {}] /\ users = {}
  /\ reg = [n \in Names |-> 0] /\ handle = <<>>
  /\ mu = Nobody
  /\ proc = [p \in Procs |-> IF p = Boot THEN [at |-> "create", name |-> Users] ELSE Idle]
  /\ booted = FALSE
  /\ acked = {} /\ made = 0
  /\ budget = [requests |-> 0, faults |-> 0, crashes |-> 0]

Step(p) ==
  \/ CheckLimit(p)
  \/ LockToCreate(p)
  \/ OpenFile(p)
  \/ Build(p)
  \/ CloseFile(p)
  \/ RemoveFile(p)
  \/ RemoveDir(p)
  \/ BeginTx(p)
  \/ EndView(p)
  \/ BeginUpdate(p)
  \/ CommitTx(p)

BootStep == Seed \/ Secure

Next ==
  \/ \E p \in Clients, n \in Names :
       CreateRequest(p, n) \/ DeleteRequest(p, n) \/ Lookup(p, n)
  \/ \E p \in Procs : Step(p) \/ BuildFails(p) \/ RemoveFails(p) \/ StoreBlob(p)
  \/ BootStep
  \/ Restart

\* Goroutines are scheduled and the mutex and file locks are granted.
Spec == /\ Init /\ [][Next]_vars
        /\ \A p \in Procs : SF_vars(Step(p))
        /\ WF_vars(BootStep)

-----------------------------------------------------------------------------
(* Properties. *)

StorageTypeOK ==
  /\ file \in [Names -> 0..made] /\ dir \in [Names -> SUBSET (1..made)]
  /\ users \subseteq {"ddoc", "security"}
  /\ reg \in [Names -> {0} \cup DOMAIN handle]
  /\ \A h \in DOMAIN handle : handle[h] \in [name : Names, inc : 1..made, open : BOOLEAN]
  /\ mu \in Procs \cup {Nobody}
  /\ acked \subseteq Names

\* A transaction, either half of a write included, always runs on the file that
\* bears the name it was looked up by: no name has two open handles, an open handle is the registered one, and
\* its incarnation is the one on disk - deletions and re-creations of the name
\* meanwhile included (CreateDatabase, DeleteDatabase).
TxOnCurrentFile ==
  /\ \A h, g \in DOMAIN handle :
       handle[h].open /\ handle[g].open /\ handle[h].name = handle[g].name => h = g
  /\ \A h \in DOMAIN handle : handle[h].open =>
       reg[handle[h].name] = h /\ file[handle[h].name] = handle[h].inc
  /\ \A p \in Clients : proc[p].at \in {"view", "commit"} => IsOpen(proc[p].h)

\* A database whose creation was answered is served until a client deletes it,
\* across restarts, provided its name has no dot.
AckedIsServed ==
  booted => \A n \in acked \ Dotted : IsOpen(reg[n])

-----------------------------------------------------------------------------
(* What the proofs of these two need besides. *)

Named == {"limit", "create", "open", "build", "close", "remove", "rmdir",
          "seed", "secure"}

\* The steps that are taken under the mutex.
Holding == {"open", "build", "close", "remove", "rmdir"}

Request ==
  {Idle} \cup [at : Named, name : Names]
         \cup [at : {"begin", "view", "update", "commit"}, name : Names, h : Nat \ {0}]

RequestsOK ==
  /\ made \in Nat /\ proc \in [Procs -> Request]
  /\ IsFiniteSet(DOMAIN handle) /\ DOMAIN handle = 1..Cardinality(DOMAIN handle)

\* The mutex is held by the one request that is between taking and releasing it.
MutexHeld == \A p \in Procs : proc[p].at \in Holding <=> mu = p

\* A handle is registered under its name only.
RegisteredByName == \A n \in Names : reg[n] # 0 => handle[reg[n]].name = n

\* What a request found out stays true until it has used it.
FoundStays ==
  \A p \in Procs :
    /\ proc[p].at = "build" => IsOpen(reg[proc[p].name])
    /\ proc[p].at \in {"close", "remove", "rmdir"} =>
         reg[proc[p].name] # 0 /\ proc[p].name \notin acked
    /\ proc[p].at \in {"remove", "rmdir"} => ~IsOpen(reg[proc[p].name])
    /\ proc[p].at \in {"begin", "view", "update", "commit"} =>
         proc[p].h \in DOMAIN handle /\ handle[proc[p].h].name = proc[p].name

\* Created databases have their files, and those with a plain name are open,
\* while the server starts too.
AckedStays ==
  /\ \A n \in acked : file[n] # 0
  /\ \A n \in acked \ Dotted : IsOpen(reg[n])

\* The inductive invariant.
StorageInv ==
  /\ StorageTypeOK
  /\ RequestsOK
  /\ MutexHeld
  /\ RegisteredByName
  /\ FoundStays
  /\ TxOnCurrentFile
  /\ AckedStays

-----------------------------------------------------------------------------

\* Who holds the mutex while it waits for a file that is open already.
Hangs(p) == proc[p].at = "open" /\ Locked(proc[p].name)

\* Every request is answered, unless two creations of one name pass the lookup
\* together (the last handle of the bound is never reached in the instance).
AnsweredUnlessHanging ==
  <>[](\A p \in Procs : proc[p].at = "idle") \/ <>(\E p \in Procs : Hangs(p))

\* (violated) "Database already exists." is the answer to a second creation.
CreateNeverHangs == \A p \in Procs : ~Hangs(p)

\* (violated) The maximum number of databases is not exceeded.
LimitKept == Cardinality({n \in Names : reg[n] # 0}) <= MaxDbs

\* (violated) A database that is still registered can be deleted again.
RegisteredHasFile == mu = Nobody => \A n \in Names : reg[n] # 0 => file[n] # 0

\* (violated) A server that is up has given _users its security object.
UsersSecured == booted /\ reg[Users] # 0 /\ Users \in acked => "security" \in users

\* (violated) A database holds no attachments of an earlier one of its name.
BlobsAreItsOwn == \A n \in Names : file[n] # 0 => dir[n] \subseteq {file[n]}

\* (violated) A database whose creation was answered is there after a restart.
DottedIsServed == booted => \A n \in acked : IsOpen(reg[n])
=============================================================================
