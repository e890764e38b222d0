---------------------------- MODULE StorageProofs ----------------------------
(* The invariants of Storage, for any databases, requests and bounds.        *)
EXTENDS Storage, FiniteSetTheorems, FunctionTheorems, TLAPS

-----------------------------------------------------------------------------
(* How a request goes on. *)

\* One request is somewhere else.
Moves(p) ==
  /\ proc' \in [Procs -> Request]
  /\ \A q \in Procs : q # p => proc'[q] = proc[q]

LEMMA ToMoves ==
  ASSUME RequestsOK, NEW p \in Procs, proc[p].at \in Named, NEW at \in Named, To(p, at)
  PROVE  /\ Moves(p)
         /\ proc'[p].at = at
         /\ proc'[p].name = proc[p].name /\ proc[p].name \in Names
<1>1. proc[p] \in [at : Named, name : Names]
  BY DEF RequestsOK, Request, Idle, Named
<1>2. [proc[p] EXCEPT !.at = at] \in [at : Named, name : Names]
  BY <1>1
<1>3. proc' = [proc EXCEPT ![p] = [proc[p] EXCEPT !.at = at]]
  BY DEF To, RequestsOK
<1>4. Moves(p) /\ proc'[p] = [proc[p] EXCEPT !.at = at]
  BY <1>2, <1>3 DEF Moves, RequestsOK, Request
<1>5. QED
  BY <1>1, <1>4

LEMMA AnswerMoves ==
  ASSUME RequestsOK, NEW p \in Procs, Answer(p)
  PROVE  Moves(p) /\ proc'[p].at = "idle"
BY DEF RequestsOK, Answer, Moves, Request, Idle

LEMMA PutMoves ==
  ASSUME RequestsOK, NEW p \in Procs, NEW r \in Request, proc' = [proc EXCEPT ![p] = r]
  PROVE  Moves(p) /\ proc'[p] = r
BY DEF RequestsOK, Moves

LEMMA NamesOfRequests ==
  ASSUME RequestsOK, NEW p \in Procs, proc[p].at # "idle"
  PROVE  proc[p].name \in Names
BY DEF RequestsOK, Request, Idle

\* The mutex is taken by who comes to hold it, and released by its holder.
LEMMA MutexMoves ==
  ASSUME MutexHeld, NEW p \in Procs, Moves(p),
         \/ mu = Nobody /\ mu' = p /\ proc'[p].at \in Holding
         \/ mu = p /\ mu' = Nobody /\ proc'[p].at \notin Holding
         \/ mu' = mu /\ (proc'[p].at \in Holding <=> proc[p].at \in Holding)
  PROVE  MutexHeld'
<1>1. Nobody \notin Procs
  BY StorageAssumption DEF Procs, Boot, Nobody
<1>2. \A q \in Procs : q # p => proc'[q] = proc[q]
  BY DEF Moves
<1>3. QED
  BY <1>1, <1>2 DEF MutexHeld

-----------------------------------------------------------------------------
(* Steps that change no file, no handle and no entry of the map. *)

FoundOf(p) ==
  /\ proc[p].at = "build" => IsOpen(reg[proc[p].name])
  /\ proc[p].at \in {"close", "remove", "rmdir"} =>
       reg[proc[p].name] # 0 /\ proc[p].name \notin acked
  /\ proc[p].at \in {"remove", "rmdir"} => ~IsOpen(reg[proc[p].name])
  /\ proc[p].at \in {"begin", "view", "update", "commit"} =>
       proc[p].h \in DOMAIN handle /\ handle[proc[p].h].name = proc[p].name

CommitOf(p) == p \in Clients /\ proc[p].at \in {"view", "commit"} => IsOpen(proc[p].h)

LEMMA QuietInv ==
  ASSUME StorageInv, NEW p \in Procs, Moves(p), MutexHeld', mu' \in Procs \cup {Nobody},
         UNCHANGED <<file, reg, handle, acked, made>>,
         dir' \in [Names -> SUBSET (1..made)], users' \subseteq {"ddoc", "security"},
         FoundOf(p)', CommitOf(p)'
  PROVE  StorageInv'
<1>1. StorageTypeOK'
  BY DEF StorageInv, StorageTypeOK
<1>2. RequestsOK' /\ RegisteredByName'
  BY DEF StorageInv, RequestsOK, RegisteredByName, Moves
<1>3. \A q \in Procs : q # p => proc'[q] = proc[q]
  BY DEF Moves
<1>4. FoundStays'
  BY <1>3 DEF StorageInv, FoundStays, FoundOf, IsOpen
<1>5. TxOnCurrentFile'
  <2>1. \A q \in Clients : proc'[q].at \in {"view", "commit"} => IsOpen(proc[q].h)'
    BY <1>3 DEF StorageInv, TxOnCurrentFile, CommitOf, IsOpen, Procs
  <2>2. QED
    BY <2>1 DEF StorageInv, TxOnCurrentFile, IsOpen
<1>6. AckedStays'
  BY DEF StorageInv, AckedStays, IsOpen
<1>7. QED
  BY <1>1, <1>2, <1>4, <1>5, <1>6 DEF StorageInv

LEMMA CreateRequestInv ==
  ASSUME StorageInv, NEW p \in Clients, NEW n \in Names, CreateRequest(p, n)
  PROVE  StorageInv'
<1>1. p \in Procs /\ RequestsOK /\ proc[p].at = "idle"
  BY DEF Procs, StorageInv, CreateRequest
<1>2. Moves(p) /\ proc'[p].at \in {"idle", "limit"}
  <2>1. CASE UNCHANGED proc
    BY <1>1, <2>1 DEF Moves, RequestsOK
  <2>2. CASE proc' = [proc EXCEPT ![p] = [at |-> "limit", name |-> n]]
    <3> DEFINE r == [at |-> "limit", name |-> n]
    <3>1. r \in Request /\ r.at = "limit"
      BY DEF Request, Named
    <3>2. proc' = [proc EXCEPT ![p] = r]
      BY <2>2
    <3> HIDE DEF r
    <3>3. QED
      BY <1>1, <3>1, <3>2, PutMoves
  <2>3. QED
    BY <2>1, <2>2 DEF CreateRequest
<1>3. MutexHeld'
  BY <1>1, <1>2, MutexMoves DEF StorageInv, CreateRequest, Holding
<1>4. QED
  BY <1>1, <1>2, <1>3, QuietInv
     DEF CreateRequest, disk, StorageInv, StorageTypeOK, FoundOf, CommitOf

LEMMA CheckLimitInv ==
  ASSUME StorageInv, NEW p \in Procs, CheckLimit(p) PROVE StorageInv'
<1>1. RequestsOK /\ proc[p].at = "limit"
  BY DEF StorageInv, CheckLimit
<1>2. Moves(p) /\ proc'[p].at \in {"idle", "create"}
  <2>1. CASE Answer(p)
    BY <1>1, <2>1, AnswerMoves
  <2>2. CASE To(p, "create")
    BY <1>1, <2>2, ToMoves DEF Named
  <2>3. QED
    BY <2>1, <2>2 DEF CheckLimit
<1>3. MutexHeld'
  BY <1>1, <1>2, MutexMoves DEF StorageInv, CheckLimit, Holding
<1>4. QED
  BY <1>2, <1>3, QuietInv
     DEF CheckLimit, disk, StorageInv, StorageTypeOK, FoundOf, CommitOf

LEMMA LockToCreateInv ==
  ASSUME StorageInv, NEW p \in Procs, LockToCreate(p) PROVE StorageInv'
<1>1. RequestsOK /\ proc[p].at = "create"
  BY DEF StorageInv, LockToCreate
<1>2. Moves(p) /\ proc'[p].at = "open"
  BY <1>1, ToMoves DEF Named, LockToCreate
<1>3. MutexHeld'
  BY <1>1, <1>2, MutexMoves DEF StorageInv, LockToCreate, Holding
<1>4. QED
  BY <1>2, <1>3, QuietInv
     DEF LockToCreate, disk, StorageInv, StorageTypeOK, FoundOf, CommitOf

\* A request that gives up leaves what it did, and releases the mutex.
LEMMA GiveUpInv ==
  ASSUME StorageInv, NEW p \in Procs, proc[p].at \in Holding, GiveUp(p),
         UNCHANGED <<disk, reg, handle, acked, made>>
  PROVE  StorageInv'
<1>1. Moves(p) /\ proc'[p].at = "idle"
  BY AnswerMoves DEF StorageInv, GiveUp
<1>2. MutexHeld'
  BY <1>1, MutexMoves DEF StorageInv, MutexHeld, GiveUp, Holding
<1>3. QED
  BY <1>1, <1>2, QuietInv
     DEF GiveUp, disk, StorageInv, StorageTypeOK, FoundOf, CommitOf

LEMMA LookupInv ==
  ASSUME StorageInv, NEW p \in Clients, NEW n \in Names, Lookup(p, n)
  PROVE  StorageInv'
<1>1. p \in Procs /\ RequestsOK /\ proc[p].at = "idle"
  BY DEF Procs, StorageInv, Lookup
<1>2. reg[n] # 0 => reg[n] \in DOMAIN handle /\ handle[reg[n]].name = n
  BY DEF StorageInv, StorageTypeOK, RegisteredByName
<1>3. /\ Moves(p) /\ proc'[p].at \in {"idle", "begin"}
      /\ proc'[p].at = "begin" =>
           proc'[p].h \in DOMAIN handle /\ handle[proc'[p].h].name = proc'[p].name
  <2>1. CASE UNCHANGED proc
    BY <1>1, <2>1 DEF Moves, RequestsOK
  <2>2. CASE reg[n] # 0 /\ proc' = [proc EXCEPT ![p] = [at |-> "begin", name |-> n, h |-> reg[n]]]
    <3>1. reg[n] \in Nat \ {0}
      BY <1>1, <1>2, <2>2, FS_CardinalityType DEF RequestsOK
    <3> DEFINE r == [at |-> "begin", name |-> n, h |-> reg[n]]
    <3>2. r \in Request /\ r.at = "begin" /\ r.h = reg[n] /\ r.name = n
      BY <3>1 DEF Request
    <3>3. proc' = [proc EXCEPT ![p] = r]
      BY <2>2
    <3> HIDE DEF r
    <3>4. Moves(p) /\ proc'[p] = r
      BY <1>1, <3>2, <3>3, PutMoves
    <3>5. QED
      BY <1>2, <2>2, <3>2, <3>4
  <2>3. QED
    BY <2>1, <2>2 DEF Lookup
<1>4. MutexHeld'
  BY <1>1, <1>3, MutexMoves DEF StorageInv, Lookup, Holding
<1>5. QED
  BY <1>1, <1>3, <1>4, QuietInv
     DEF Lookup, disk, StorageInv, StorageTypeOK, FoundOf, CommitOf

\* The steps of a request that uses a database.
Using == {"begin", "view", "update", "commit"}

\* A request goes on within its use of a database.
LEMMA UsesMoves ==
  ASSUME RequestsOK, NEW p \in Procs, proc[p].at \in Using, NEW at \in Using, To(p, at)
  PROVE  /\ Moves(p)
         /\ proc'[p].at = at
         /\ proc'[p].h = proc[p].h /\ proc'[p].name = proc[p].name
<1>1. proc[p] \in [at : Using, name : Names, h : Nat \ {0}]
  BY DEF RequestsOK, Request, Idle, Named, Using
<1> DEFINE r == [proc[p] EXCEPT !.at = at]
<1>2. /\ r \in [at : Using, name : Names, h : Nat \ {0}]
      /\ r.at = at /\ r.h = proc[p].h /\ r.name = proc[p].name
  BY <1>1
<1>3. r \in Request
  BY <1>2 DEF Request, Using
<1>4. proc' = [proc EXCEPT ![p] = r]
  BY DEF To
<1> HIDE DEF r
<1>5. Moves(p) /\ proc'[p] = r
  BY <1>3, <1>4, PutMoves
<1>6. QED
  BY <1>2, <1>5

\* The steps of a request on the database it found.
LEMMA UsesInv ==
  ASSUME StorageInv, NEW p \in Procs, proc[p].at \in Using,
         UNCHANGED <<disk, reg, handle, mu, booted, acked, made>>,
         \/ Answer(p)
         \/ To(p, "update")
         \/ \E at \in {"view", "commit"} : IsOpen(proc[p].h) /\ To(p, at)
  PROVE  StorageInv'
<1>1. RequestsOK /\ proc[p].at \notin Holding
  BY DEF StorageInv, Using, Holding
<1>2. /\ Moves(p) /\ proc'[p].at \in Using \cup {"idle"}
      /\ proc'[p].at \in Using => proc'[p].h = proc[p].h /\ proc'[p].name = proc[p].name
      /\ proc'[p].at \in {"view", "commit"} => IsOpen(proc[p].h)
  <2>1. CASE Answer(p)
    BY <1>1, <2>1, AnswerMoves DEF Using
  <2>2. CASE To(p, "update")
    <3>1. "update" \in Using
      BY DEF Using
    <3>2. QED
      BY <1>1, <2>2, <3>1, UsesMoves
  <2>3. ASSUME NEW at \in {"view", "commit"}, IsOpen(proc[p].h), To(p, at)
        PROVE  /\ Moves(p) /\ proc'[p].at = at
               /\ proc'[p].h = proc[p].h /\ proc'[p].name = proc[p].name
    <3>1. at \in Using
      BY DEF Using
    <3>2. QED
      BY <1>1, <2>3, <3>1, UsesMoves
  <2>4. QED
    BY <2>1, <2>2, <2>3 DEF Using
<1>3. MutexHeld'
  BY <1>1, <1>2, MutexMoves DEF StorageInv, Holding, Using
<1>4. FoundOf(p)' /\ CommitOf(p)'
  BY <1>2 DEF StorageInv, FoundStays, FoundOf, CommitOf, IsOpen, Using
<1>5. QED
  BY <1>2, <1>3, <1>4, QuietInv DEF disk, StorageInv, StorageTypeOK

LEMMA UsingInv ==
  ASSUME StorageInv, NEW p \in Procs,
         BeginTx(p) \/ EndView(p) \/ BeginUpdate(p) \/ CommitTx(p)
  PROVE  StorageInv'
<1>1. proc[p].at \in Using /\ UNCHANGED <<disk, reg, handle, mu, booted, acked, made>>
  BY DEF BeginTx, EndView, BeginUpdate, CommitTx, Using
<1>2. \/ Answer(p)
      \/ To(p, "update")
      \/ \E at \in {"view", "commit"} : IsOpen(proc[p].h) /\ To(p, at)
  BY DEF BeginTx, EndView, BeginUpdate, CommitTx, Opens
<1>3. QED
  BY <1>1, <1>2, UsesInv

LEMMA StoreBlobInv ==
  ASSUME StorageInv, NEW p \in Procs, StoreBlob(p) PROVE StorageInv'
<1>1. RequestsOK /\ proc[p].at = "begin" /\ UNCHANGED proc
  BY DEF StorageInv, StoreBlob
<1>2. Moves(p) /\ MutexHeld'
  BY <1>1 DEF Moves, RequestsOK, StorageInv, MutexHeld, StoreBlob
<1>3. handle[proc[p].h].inc \in 1..made
  BY <1>1 DEF StorageInv, FoundStays, StorageTypeOK, Using
<1>4. dir' \in [Names -> SUBSET (1..made)]
  BY <1>1, <1>3, NamesOfRequests DEF StoreBlob, StorageInv, StorageTypeOK
<1>5. FoundOf(p)' /\ CommitOf(p)'
  BY <1>1 DEF StoreBlob, StorageInv, FoundStays, FoundOf, CommitOf, IsOpen, Using
<1>6. QED
  BY <1>2, <1>4, <1>5, QuietInv DEF StoreBlob, StorageInv, StorageTypeOK

LEMMA BootStepInv ==
  ASSUME StorageInv, BootStep PROVE StorageInv'
<1> DEFINE p == Boot
<1>1. p \in Procs /\ RequestsOK /\ proc[p].at \in {"seed", "secure"}
  BY DEF Procs, StorageInv, BootStep, Seed, Secure
<1>2. Moves(p) /\ proc'[p].at \in {"idle", "secure"}
  <2>1. CASE Answer(p)
    BY <1>1, <2>1, AnswerMoves
  <2>2. CASE To(p, "secure")
    BY <1>1, <2>2, ToMoves DEF Named
  <2>3. QED
    BY <2>1, <2>2 DEF BootStep, Seed, Secure
<1>3. UNCHANGED <<file, dir, reg, handle, mu, acked, made>>
  BY DEF BootStep, Seed, Secure
<1>4. MutexHeld'
  BY <1>1, <1>2, <1>3, MutexMoves DEF StorageInv, Holding
<1>5. users' \subseteq {"ddoc", "security"}
  BY DEF BootStep, Seed, Secure, StorageInv, StorageTypeOK
<1>6. QED
  BY <1>1, <1>2, <1>3, <1>4, <1>5, QuietInv
     DEF StorageInv, StorageTypeOK, FoundOf, CommitOf

-----------------------------------------------------------------------------
(* Steps under the mutex that change the map, the files or the handles. *)

\* Other requests hold nothing.
LEMMA HolderAlone ==
  ASSUME MutexHeld, NEW p \in Procs, proc[p].at \in Holding
  PROVE  \A q \in Procs : q # p => proc[q].at \notin Holding
BY DEF MutexHeld

\* Registered handles and what requests keep are handles of before.
LEMMA OpenFileInv ==
  ASSUME StorageInv, NEW p \in Procs, OpenFile(p) PROVE StorageInv'
<1> DEFINE n   == proc[p].name
           h   == Cardinality(DOMAIN handle) + 1
           inc == IF file[n] = 0 THEN made + 1 ELSE file[n]
           new == [name |-> n, inc |-> inc, open |-> TRUE]
<1>1. /\ proc[p].at = "open" /\ n \in Names /\ RequestsOK
      /\ file \in [Names -> 0..made] /\ reg \in [Names -> {0} \cup DOMAIN handle]
      /\ made \in Nat
  BY NamesOfRequests DEF OpenFile, StorageInv, RequestsOK, StorageTypeOK
<1>2. /\ ~Locked(n)
      /\ file' = [file EXCEPT ![n] = inc]
      /\ users' = IF n = Users /\ file[n] = 0 THEN {} ELSE users
      /\ made' = IF file[n] = 0 THEN made + 1 ELSE made
      /\ handle' = [i \in 1..h |-> IF i = h THEN new ELSE handle[i]]
      /\ reg' = [reg EXCEPT ![n] = h]
      /\ To(p, "build")
      /\ UNCHANGED <<dir, mu, booted, acked>>
  BY DEF OpenFile
<1>3. Moves(p) /\ proc'[p].at = "build" /\ proc'[p].name = n
  BY <1>1, <1>2, ToMoves DEF Named
<1>4. h \in Nat \ {0} /\ DOMAIN handle = 1..(h - 1) /\ DOMAIN handle' = 1..h
  BY <1>1, <1>2, FS_CardinalityType DEF RequestsOK
<1>5. inc \in 1..made' /\ made' \in Nat /\ made <= made'
  BY <1>1, <1>2
<1>6. new \in [name : Names, inc : 1..made', open : BOOLEAN] /\ new.name = n /\ new.inc = inc
      /\ new.open
  BY <1>1, <1>5
<1> HIDE DEF h, inc, new
<1>7. handle'[h] = new /\ \A g \in DOMAIN handle : handle'[g] = handle[g] /\ g # h
  BY <1>2, <1>4
<1>8. \A g \in DOMAIN handle : g # 0
  BY <1>4
<1>9. reg'[n] = h /\ \A m \in Names : m # n => reg'[m] = reg[m]
  BY <1>1, <1>2
<1>10. StorageTypeOK'
  <2>1. file' \in [Names -> 0..made']
    BY <1>1, <1>2, <1>5
  <2>2. dir' \in [Names -> SUBSET (1..made')]
    BY <1>1, <1>2, <1>5 DEF StorageInv, StorageTypeOK
  <2>3. reg' \in [Names -> {0} \cup DOMAIN handle']
    BY <1>1, <1>2, <1>4
  <2>4. \A g \in DOMAIN handle' : handle'[g] \in [name : Names, inc : 1..made', open : BOOLEAN]
    <3>1. SUFFICES ASSUME NEW g \in DOMAIN handle, handle[g] \in [name : Names, inc : 1..made, open : BOOLEAN]
                   PROVE  handle[g] \in [name : Names, inc : 1..made', open : BOOLEAN]
      BY <1>4, <1>6, <1>7 DEF StorageInv, StorageTypeOK
    <3>2. 1..made \subseteq 1..made'
      BY <1>1, <1>5
    <3>3. QED
      BY <3>1, <3>2
  <2>5. QED
    BY <1>2, <2>1, <2>2, <2>3, <2>4 DEF StorageInv, StorageTypeOK
<1>11. RequestsOK'
  <2>1. IsFiniteSet(1..h) /\ Cardinality(1..h) = h
    BY <1>4, FS_Interval
  <2>2. QED
    BY <1>3, <1>4, <1>5, <2>1 DEF RequestsOK, Moves
<1>12. MutexHeld'
  BY <1>1, <1>2, <1>3, MutexMoves DEF StorageInv, Holding
<1>13. RegisteredByName'
  BY <1>1, <1>6, <1>7, <1>9 DEF StorageInv, RegisteredByName
<1>14. FoundStays'
  <2>1. \A q \in Procs : q # p => proc'[q] = proc[q] /\ proc[q].at \notin Holding
    BY <1>1, <1>3, HolderAlone DEF Moves, StorageInv, Holding
  <2>2. \A q \in Procs : q # p => FoundOf(q)'
    BY <1>4, <1>7, <2>1 DEF StorageInv, FoundStays, FoundOf, Holding
  <2>3. FoundOf(p)'
    BY <1>3, <1>4, <1>6, <1>7, <1>9 DEF FoundOf, IsOpen
  <2>4. QED
    BY <2>2, <2>3 DEF FoundStays, FoundOf
<1>15. TxOnCurrentFile'
  <2>1. ASSUME NEW g \in DOMAIN handle', handle'[g].open
        PROVE  reg'[handle'[g].name] = g /\ file'[handle'[g].name] = handle'[g].inc
    <3>1. CASE g = h
      BY <1>1, <1>2, <1>6, <1>7, <1>9, <3>1
    <3>2. CASE g # h
      <4>1. g \in DOMAIN handle /\ handle'[g] = handle[g]
        BY <1>4, <1>7, <2>1, <3>2
      <4>2. handle[g].name \in Names /\ handle[g].name # n
        BY <1>2, <2>1, <4>1 DEF Locked, StorageInv, StorageTypeOK
      <4>3. reg[handle[g].name] = g /\ file[handle[g].name] = handle[g].inc
        BY <2>1, <4>1 DEF StorageInv, TxOnCurrentFile
      <4>4. QED
        BY <1>1, <1>2, <1>9, <4>1, <4>2, <4>3
    <3>3. QED
      BY <3>1, <3>2
  <2>2. ASSUME NEW q \in Clients, proc'[q].at \in {"view", "commit"} PROVE IsOpen(proc[q].h)'
    <3>1. q \in Procs /\ q # p /\ proc'[q] = proc[q]
      BY <1>3, <2>2 DEF Moves, Procs
    <3>2. IsOpen(proc[q].h) /\ proc[q].h \in DOMAIN handle
      BY <2>2, <3>1 DEF StorageInv, TxOnCurrentFile, FoundStays
    <3>3. QED
      BY <1>7, <3>1, <3>2 DEF IsOpen
  <2>3. QED
    BY <2>1, <2>2 DEF TxOnCurrentFile
<1>16. AckedStays'
  <2>1. \A m \in acked : file'[m] # 0
    BY <1>1, <1>2, <1>5 DEF StorageInv, AckedStays, StorageTypeOK
  <2>2. ASSUME NEW m \in acked \ Dotted PROVE IsOpen(reg[m])'
    <3>1. m \in Names /\ IsOpen(reg[m])
      BY DEF StorageInv, AckedStays, StorageTypeOK
    <3>2. CASE m = n
      BY <1>4, <1>6, <1>7, <1>9, <3>2 DEF IsOpen
    <3>3. CASE m # n
      BY <1>1, <1>7, <1>9, <3>1, <3>3 DEF IsOpen
    <3>4. QED
      BY <3>2, <3>3
  <2>3. QED
    BY <1>2, <2>1, <2>2 DEF AckedStays
<1>17. QED
  BY <1>10, <1>11, <1>12, <1>13, <1>14, <1>15, <1>16 DEF StorageInv

LEMMA BuildInv ==
  ASSUME StorageInv, NEW p \in Procs, Build(p) PROVE StorageInv'
<1>1. /\ proc[p].at = "build" /\ proc[p].name \in Names /\ RequestsOK
      /\ UNCHANGED <<disk, reg, handle, booted, made>>
      /\ mu' = Nobody /\ acked' = acked \cup {proc[p].name}
  BY NamesOfRequests DEF Build, StorageInv
<1>2. Moves(p) /\ proc'[p].at \in {"idle", "seed"}
  <2>1. CASE Answer(p)
    BY <1>1, <2>1, AnswerMoves
  <2>2. CASE To(p, "seed")
    BY <1>1, <2>2, ToMoves DEF Named
  <2>3. QED
    BY <2>1, <2>2 DEF Build
<1>3. IsOpen(reg[proc[p].name]) /\ file[proc[p].name] # 0
  <2>1. IsOpen(reg[proc[p].name])
    BY <1>1 DEF StorageInv, FoundStays
  <2> DEFINE h == reg[proc[p].name]
  <2>2. h \in DOMAIN handle /\ handle[h].name = proc[p].name
    BY <1>1, <2>1 DEF IsOpen, StorageInv, StorageTypeOK, RegisteredByName
  <2>3. file[proc[p].name] = handle[h].inc /\ handle[h].inc \in 1..made
    BY <2>1, <2>2 DEF IsOpen, StorageInv, StorageTypeOK, TxOnCurrentFile
  <2>4. QED
    BY <1>1, <2>1, <2>3 DEF RequestsOK
<1>4. MutexHeld'
  BY <1>1, <1>2, MutexMoves DEF StorageInv, MutexHeld, Holding
<1>5. StorageTypeOK' /\ RequestsOK' /\ RegisteredByName'
  BY <1>1, <1>2 DEF disk, StorageInv, StorageTypeOK, RequestsOK, RegisteredByName, Moves
<1>6. \A q \in Procs : q # p => proc'[q] = proc[q] /\ proc[q].at \notin Holding
  BY <1>1, <1>2, HolderAlone DEF Moves, StorageInv, Holding
<1>7. FoundStays'
  BY <1>1, <1>2, <1>6 DEF StorageInv, FoundStays, Holding
<1>8. TxOnCurrentFile'
  <2>1. \A q \in Clients : proc'[q].at \in {"view", "commit"} => IsOpen(proc[q].h)'
    BY <1>1, <1>2, <1>6 DEF StorageInv, TxOnCurrentFile, IsOpen, Procs
  <2>2. QED
    BY <1>1, <2>1 DEF disk, StorageInv, TxOnCurrentFile
<1>9. AckedStays'
  BY <1>1, <1>3 DEF disk, StorageInv, AckedStays, IsOpen
<1>10. QED
  BY <1>4, <1>5, <1>7, <1>8, <1>9 DEF StorageInv

LEMMA DeleteRequestInv ==
  ASSUME StorageInv, NEW p \in Clients, NEW n \in Names, DeleteRequest(p, n)
  PROVE  StorageInv'
<1>1. p \in Procs /\ RequestsOK /\ proc[p].at = "idle"
  BY DEF Procs, StorageInv, DeleteRequest
<1>2. CASE UNCHANGED <<proc, mu, acked>>
  BY <1>1, <1>2, MutexMoves, QuietInv
     DEF DeleteRequest, disk, StorageInv, StorageTypeOK, RequestsOK, FoundOf, CommitOf, Moves
<1>3. CASE /\ reg[n] # 0 /\ mu = Nobody /\ mu' = p
           /\ proc' = [proc EXCEPT ![p] = [at |-> "close", name |-> n]]
           /\ acked' = acked \ {n}
  <2> DEFINE r == [at |-> "close", name |-> n]
  <2>1. r \in Request /\ r.at = "close" /\ r.name = n
    BY DEF Request, Named
  <2> HIDE DEF r
  <2>2. Moves(p) /\ proc'[p] = r
    BY <1>1, <1>3, <2>1, PutMoves DEF r
  <2>3. UNCHANGED <<file, dir, users, reg, handle, booted, made>>
    BY DEF DeleteRequest, disk
  <2>4. MutexHeld'
    BY <1>1, <1>3, <2>1, <2>2, MutexMoves DEF StorageInv, Holding
  <2>5. StorageTypeOK' /\ RequestsOK' /\ RegisteredByName'
    BY <1>1, <1>3, <2>2, <2>3 DEF StorageInv, StorageTypeOK, RequestsOK, RegisteredByName, Moves
  <2>6. \A q \in Procs : q # p => proc'[q] = proc[q] /\ proc[q].at \notin Holding
    <3>1. Nobody \notin Procs
      BY StorageAssumption DEF Procs, Boot, Nobody
    <3>2. QED
      BY <1>3, <2>2, <3>1 DEF Moves, StorageInv, MutexHeld
  <2>7. FoundStays'
    <3>1. FoundOf(p)'
      BY <1>3, <2>1, <2>2, <2>3 DEF FoundOf
    <3>2. \A q \in Procs : q # p => FoundOf(q)'
      BY <2>3, <2>6 DEF StorageInv, FoundStays, FoundOf, Holding
    <3>3. QED
      BY <3>1, <3>2 DEF FoundStays, FoundOf
  <2>8. TxOnCurrentFile'
    <3>1. \A q \in Clients : proc'[q].at \in {"view", "commit"} => IsOpen(proc[q].h)'
      BY <2>1, <2>2, <2>3, <2>6 DEF StorageInv, TxOnCurrentFile, IsOpen, Procs
    <3>2. QED
      BY <2>3, <3>1 DEF StorageInv, TxOnCurrentFile
  <2>9. AckedStays'
    BY <1>3, <2>3 DEF StorageInv, AckedStays, IsOpen
  <2>10. QED
    BY <2>4, <2>5, <2>7, <2>8, <2>9 DEF StorageInv
<1>4. QED
  BY <1>2, <1>3 DEF DeleteRequest

\* The handle that is closed is not one a transaction is open on.
LEMMA CloseFileInv ==
  ASSUME StorageInv, NEW p \in Procs, CloseFile(p) PROVE StorageInv'
<1> DEFINE n == proc[p].name
           h == reg[n]
<1>1. /\ proc[p].at = "close" /\ n \in Names /\ RequestsOK
      /\ ~InUse(h) /\ handle' = [handle EXCEPT ![h].open = FALSE]
      /\ UNCHANGED <<file, dir, users, reg, mu, booted, acked, made>>
  BY NamesOfRequests DEF CloseFile, CanClose, disk, StorageInv
<1>2. Moves(p) /\ proc'[p].at = "remove" /\ proc'[p].name = n
  BY <1>1, ToMoves DEF CloseFile, Named
<1>3. h \in DOMAIN handle /\ handle[h].name = n /\ n \notin acked /\ h # 0
  BY <1>1 DEF StorageInv, FoundStays, StorageTypeOK, RegisteredByName
<1>4. /\ DOMAIN handle' = DOMAIN handle
      /\ ~handle'[h].open /\ \A g \in DOMAIN handle : g # h => handle'[g] = handle[g]
      /\ \A g \in DOMAIN handle :
           /\ handle'[g] \in [name : Names, inc : 1..made, open : BOOLEAN]
           /\ handle'[g].name = handle[g].name /\ handle'[g].inc = handle[g].inc
  <2>1. \A g \in DOMAIN handle : handle[g] \in [name : Names, inc : 1..made, open : BOOLEAN]
    BY DEF StorageInv, StorageTypeOK
  <2> DEFINE closed == [handle[h] EXCEPT !.open = FALSE]
  <2>2. /\ closed \in [name : Names, inc : 1..made, open : BOOLEAN] /\ ~closed.open
        /\ closed.name = handle[h].name /\ closed.inc = handle[h].inc
    BY <1>3, <2>1
  <2>3. handle' = [handle EXCEPT ![h] = closed]
    BY <1>1
  <2> HIDE DEF closed
  <2>4. handle'[h] = closed /\ \A g \in DOMAIN handle : g # h => handle'[g] = handle[g]
    BY <1>3, <2>3
  <2>5. QED
    BY <1>3, <2>1, <2>2, <2>3, <2>4
<1> HIDE DEF h
<1>5. StorageTypeOK' /\ RequestsOK' /\ RegisteredByName'
  BY <1>1, <1>2, <1>4 DEF StorageInv, StorageTypeOK, RequestsOK, RegisteredByName, Moves
<1>6. MutexHeld'
  BY <1>1, <1>2, MutexMoves DEF StorageInv, Holding
<1>7. \A q \in Procs : q # p => proc'[q] = proc[q] /\ proc[q].at \notin Holding
  BY <1>1, <1>2, HolderAlone DEF Moves, StorageInv, Holding
<1>8. FoundStays'
  <2>1. \A q \in Procs : q # p => FoundOf(q)'
    BY <1>4, <1>7 DEF StorageInv, FoundStays, FoundOf, Holding
  <2>2. FoundOf(p)'
    BY <1>1, <1>2, <1>3, <1>4 DEF FoundOf, IsOpen, h
  <2>3. QED
    BY <2>1, <2>2 DEF FoundStays, FoundOf
<1>9. TxOnCurrentFile'
  <2>1. \A q \in Clients : proc'[q].at \in {"view", "commit"} => IsOpen(proc[q].h)'
    <3>1. SUFFICES ASSUME NEW q \in Clients, proc'[q].at \in {"view", "commit"}
                   PROVE  IsOpen(proc[q].h)'
      OBVIOUS
    <3>2. q \in Procs /\ q # p /\ proc'[q] = proc[q]
      BY <1>2, <1>7, <3>1 DEF Procs
    <3>3. IsOpen(proc[q].h) /\ proc[q].h \in DOMAIN handle /\ proc[q].h # h
      BY <1>1, <3>1, <3>2 DEF InUse, StorageInv, FoundStays, TxOnCurrentFile
    <3>4. QED
      BY <1>4, <3>2, <3>3 DEF IsOpen
  <2>2. \A g \in DOMAIN handle : handle'[g].open => handle[g].open
    BY <1>4
  <2>3. QED
    BY <1>1, <1>4, <2>1, <2>2 DEF StorageInv, TxOnCurrentFile
<1>10. AckedStays'
  <2>1. ASSUME NEW m \in acked \ Dotted PROVE IsOpen(reg[m])'
    <3>1. m \in Names /\ IsOpen(reg[m]) /\ reg[m] \in DOMAIN handle /\ m # n
      BY <1>3 DEF StorageInv, AckedStays, StorageTypeOK, IsOpen
    <3>2. reg[m] # h
      BY <1>3, <3>1 DEF StorageInv, RegisteredByName, IsOpen
    <3>3. QED
      BY <1>1, <1>4, <3>1, <3>2 DEF IsOpen
  <2>2. QED
    BY <1>1, <2>1 DEF StorageInv, AckedStays
<1>11. QED
  BY <1>5, <1>6, <1>8, <1>9, <1>10 DEF StorageInv

\* No handle of the name is open once the registered one is closed.
LEMMA ClosedName ==
  ASSUME StorageInv, NEW p \in Procs, proc[p].at \in {"remove", "rmdir"}
  PROVE  /\ proc[p].name \in Names /\ proc[p].name \notin acked
         /\ \A g \in DOMAIN handle : handle[g].open => handle[g].name # proc[p].name
<1>1. /\ proc[p].name \in Names /\ proc[p].name \notin acked
      /\ reg[proc[p].name] # 0 /\ ~IsOpen(reg[proc[p].name])
  BY NamesOfRequests DEF StorageInv, FoundStays
<1>2. QED
  BY <1>1 DEF StorageInv, TxOnCurrentFile, IsOpen

LEMMA RemoveFileInv ==
  ASSUME StorageInv, NEW p \in Procs, RemoveFile(p) PROVE StorageInv'
<1> DEFINE n == proc[p].name
<1>1. proc[p].at = "remove" /\ UNCHANGED <<dir, users, reg, handle, booted, acked, made>>
  BY DEF RemoveFile
<1>2. CASE GiveUp(p) /\ UNCHANGED file
  BY <1>1, <1>2, GiveUpInv DEF Holding, disk
<1>3. CASE file' = [file EXCEPT ![n] = 0] /\ To(p, "rmdir") /\ UNCHANGED mu
  <2>1. Moves(p) /\ proc'[p].at = "rmdir" /\ proc'[p].name = n
    BY <1>1, <1>3, ToMoves DEF StorageInv, Named
  <2>2. /\ n \in Names /\ n \notin acked
        /\ \A g \in DOMAIN handle : handle[g].open => handle[g].name # n
    BY <1>1, ClosedName
  <2>3. \A m \in Names : m # n => file'[m] = file[m]
    BY <1>3 DEF StorageInv, StorageTypeOK
  <2>4. StorageTypeOK' /\ RequestsOK' /\ RegisteredByName'
    BY <1>1, <1>3, <2>1, <2>2
       DEF StorageInv, StorageTypeOK, RequestsOK, RegisteredByName, Moves
  <2>5. MutexHeld'
    BY <1>1, <1>3, <2>1, MutexMoves DEF StorageInv, Holding
  <2>6. \A q \in Procs : q # p => proc'[q] = proc[q]
    BY <2>1 DEF Moves
  <2>7. FoundStays'
    <3>1. \A q \in Procs : q # p => FoundOf(q)'
      BY <1>1, <2>6 DEF StorageInv, FoundStays, FoundOf, IsOpen
    <3>2. FoundOf(p)'
      BY <1>1, <2>1 DEF StorageInv, FoundStays, FoundOf, IsOpen
    <3>3. QED
      BY <3>1, <3>2 DEF FoundStays, FoundOf
  <2>8. TxOnCurrentFile'
    <3>1. \A q \in Clients : proc'[q].at \in {"view", "commit"} => IsOpen(proc[q].h)'
      BY <1>1, <2>1, <2>6 DEF StorageInv, TxOnCurrentFile, IsOpen, Procs
    <3>2. \A g \in DOMAIN handle : handle[g].open =>
            reg[handle[g].name] = g /\ file'[handle[g].name] = handle[g].inc
      BY <2>2, <2>3 DEF StorageInv, TxOnCurrentFile, StorageTypeOK
    <3>3. QED
      BY <1>1, <3>1, <3>2 DEF TxOnCurrentFile
  <2>9. AckedStays'
    BY <1>1, <2>2, <2>3 DEF StorageInv, StorageTypeOK, AckedStays, IsOpen
  <2>10. QED
    BY <2>4, <2>5, <2>7, <2>8, <2>9 DEF StorageInv
<1>4. QED
  BY <1>2, <1>3 DEF RemoveFile

LEMMA RemoveDirInv ==
  ASSUME StorageInv, NEW p \in Procs, RemoveDir(p) PROVE StorageInv'
<1> DEFINE n == proc[p].name
<1>1. /\ proc[p].at = "rmdir" /\ mu' = Nobody
      /\ dir' = [dir EXCEPT ![n] = {}] /\ reg' = [reg EXCEPT ![n] = 0]
      /\ UNCHANGED <<file, users, handle, booted, acked, made>>
  BY DEF RemoveDir, GiveUp
<1>2. Moves(p) /\ proc'[p].at = "idle"
  BY <1>1, AnswerMoves DEF StorageInv, RemoveDir, GiveUp
<1>3. /\ n \in Names /\ n \notin acked
      /\ \A g \in DOMAIN handle : handle[g].open => handle[g].name # n
  BY <1>1, ClosedName
<1>4. reg'[n] = 0 /\ \A m \in Names : m # n => reg'[m] = reg[m]
  BY <1>1, <1>3 DEF StorageInv, StorageTypeOK
<1>5. StorageTypeOK' /\ RequestsOK' /\ RegisteredByName'
  BY <1>1, <1>2, <1>4 DEF StorageInv, StorageTypeOK, RequestsOK, RegisteredByName, Moves
<1>6. MutexHeld'
  BY <1>1, <1>2, MutexMoves DEF StorageInv, MutexHeld, Holding
<1>7. \A q \in Procs : q # p => proc'[q] = proc[q] /\ proc[q].at \notin Holding
  BY <1>1, <1>2, HolderAlone DEF Moves, StorageInv, Holding
<1>8. FoundStays'
  BY <1>1, <1>2, <1>7 DEF StorageInv, FoundStays, Holding
<1>9. TxOnCurrentFile'
  <2>1. \A q \in Clients : proc'[q].at \in {"view", "commit"} => IsOpen(proc[q].h)'
    BY <1>1, <1>2, <1>7 DEF StorageInv, TxOnCurrentFile, IsOpen, Procs
  <2>2. \A g \in DOMAIN handle : handle[g].open =>
          reg'[handle[g].name] = g /\ file[handle[g].name] = handle[g].inc
    BY <1>3, <1>4 DEF StorageInv, TxOnCurrentFile, StorageTypeOK
  <2>3. QED
    BY <1>1, <2>1, <2>2 DEF TxOnCurrentFile
<1>10. AckedStays'
  BY <1>1, <1>3, <1>4 DEF StorageInv, StorageTypeOK, AckedStays, IsOpen
<1>11. QED
  BY <1>5, <1>6, <1>8, <1>9, <1>10 DEF StorageInv

LEMMA FailsInv ==
  ASSUME StorageInv, NEW p \in Procs, BuildFails(p) \/ RemoveFails(p) PROVE StorageInv'
<1>1. CASE BuildFails(p)
  BY <1>1, GiveUpInv DEF BuildFails, GiveUp, Holding
<1>2. CASE RemoveFails(p)
  BY <1>2, GiveUpInv DEF RemoveFails, Holding
<1>3. QED
  BY <1>1, <1>2

-----------------------------------------------------------------------------
(* The start. *)

\* However the files are enumerated, each has one handle.
LEMMA RestartInv ==
  ASSUME StorageInv, Restart PROVE StorageInv'
<1> DEFINE k == Cardinality(Loads)
<1>1. PICK order \in [Loads -> 1..k] :
        /\ \A a, b \in Loads : order[a] = order[b] => a = b
        /\ handle' = [h \in 1..k |->
             LET n == CHOOSE m \in Loads : order[m] = h
             IN  [name |-> n, inc |-> file[n], open |-> TRUE]]
        /\ reg' = [n \in Names |-> IF n \in Loads THEN order[n] ELSE 0]
  BY DEF Restart
<1>2. /\ mu' = Nobody /\ UNCHANGED <<file, dir, users, acked, made>>
      /\ proc' = [p \in Procs |->
           IF p # Boot THEN Idle
           ELSE [at |-> IF Users \in Loads THEN "seed" ELSE "create", name |-> Users]]
  BY DEF Restart, disk
<1>3. /\ Loads \subseteq Names \ Dotted /\ IsFiniteSet(Loads) /\ k \in Nat
      /\ \A n \in Names \ Dotted : file[n] # 0 => n \in Loads
      /\ \A n \in Loads : file[n] \in 1..made
  <2>1. Loads \subseteq Names /\ IsFiniteSet(Names)
    BY StorageAssumption DEF Loads
  <2>2. IsFiniteSet(Loads)
    BY <2>1, FS_Subset
  <2>3. k \in Nat
    BY <2>2, FS_CardinalityType
  <2>4. \A n \in Loads : file[n] \in 1..made
    BY <2>1 DEF Loads, StorageInv, StorageTypeOK, RequestsOK
  <2>5. QED
    BY <2>2, <2>3, <2>4 DEF Loads
<1> HIDE DEF k
<1>4. \A h \in 1..k : \E n \in Loads : order[n] = h
  <2>1. order \in Injection(Loads, 1..k)
    BY <1>1, Fun_IsInj
  <2>2. IsFiniteSet(1..k) /\ Cardinality(1..k) = k
    BY <1>3, FS_Interval
  <2>3. order \in Surjection(Loads, 1..k)
    BY <1>3, <2>1, <2>2, FS_Injection DEF k
  <2>4. QED
    BY <2>3 DEF Surjection
<1>5. \A n \in Loads : order[n] \in 1..k /\ reg'[n] = order[n]
                       /\ handle'[order[n]] = [name |-> n, inc |-> file[n], open |-> TRUE]
  <2>1. SUFFICES ASSUME NEW n \in Loads
                 PROVE  /\ order[n] \in 1..k /\ reg'[n] = order[n]
                        /\ handle'[order[n]] = [name |-> n, inc |-> file[n], open |-> TRUE]
    OBVIOUS
  <2>2. (CHOOSE m \in Loads : order[m] = order[n]) = n
    BY <1>1
  <2>3. QED
    BY <1>1, <1>3, <2>2
<1>6. \A n \in Loads : /\ reg'[n] \in 1..k
                        /\ handle'[reg'[n]].name = n
                        /\ handle'[reg'[n]].inc = file[n]
                        /\ handle'[reg'[n]].open
                        /\ handle'[reg'[n]] \in [name : Names, inc : 1..made, open : BOOLEAN]
  <2> SUFFICES ASSUME NEW n \in Loads
               PROVE  /\ reg'[n] \in 1..k
                      /\ handle'[reg'[n]].name = n
                      /\ handle'[reg'[n]].inc = file[n]
                      /\ handle'[reg'[n]].open
                      /\ handle'[reg'[n]] \in [name : Names, inc : 1..made, open : BOOLEAN]
    OBVIOUS
  <2> DEFINE r == [name |-> n, inc |-> file[n], open |-> TRUE]
  <2>1. /\ r.name = n /\ r.inc = file[n] /\ r.open
        /\ r \in [name : Names, inc : 1..made, open : BOOLEAN]
    BY <1>3
  <2>2. reg'[n] \in 1..k /\ handle'[reg'[n]] = r
    BY <1>5
  <2> HIDE DEF r
  <2>3. QED
    BY <2>1, <2>2
<1>7. DOMAIN handle' = 1..k
  BY <1>1
<1>8. StorageTypeOK'
  <2>1. \A h \in DOMAIN handle' : handle'[h] \in [name : Names, inc : 1..made, open : BOOLEAN]
    BY <1>4, <1>5, <1>6, <1>7
  <2>2. reg' \in [Names -> {0} \cup DOMAIN handle']
    BY <1>1, <1>7
  <2>3. QED
    BY <1>2, <2>1, <2>2 DEF StorageInv, StorageTypeOK
<1>9. RequestsOK' /\ \A p \in Procs : proc'[p].at \in {"idle", "seed", "create"}
  <2>1. IsFiniteSet(1..k) /\ Cardinality(1..k) = k
    BY <1>3, FS_Interval
  <2>2. \A p \in Procs : proc'[p] \in Request /\ proc'[p].at \in {"idle", "seed", "create"}
    BY <1>2, StorageAssumption DEF Request, Idle, Named
  <2>3. QED
    BY <1>2, <1>7, <2>1, <2>2 DEF RequestsOK, StorageInv
<1>10. MutexHeld'
  <2>1. Nobody \notin Procs
    BY StorageAssumption DEF Procs, Boot, Nobody
  <2>2. QED
    BY <1>2, <1>9, <2>1 DEF MutexHeld, Holding
<1>11. RegisteredByName' /\ FoundStays'
  <2>1. \A n \in Names : reg'[n] # 0 => n \in Loads
    BY <1>1
  <2>2. RegisteredByName'
    BY <1>6, <2>1 DEF RegisteredByName
  <2>3. FoundStays'
    BY <1>9 DEF FoundStays
  <2>4. QED
    BY <2>2, <2>3
<1>12. TxOnCurrentFile'
  <2>1. \A h \in DOMAIN handle' :
          reg'[handle'[h].name] = h /\ file'[handle'[h].name] = handle'[h].inc
    BY <1>2, <1>4, <1>5, <1>6, <1>7
  <2>2. \A p \in Clients : proc'[p].at \notin {"view", "commit"}
    BY <1>9 DEF Procs
  <2>3. QED
    BY <2>1, <2>2 DEF TxOnCurrentFile
<1>13. AckedStays'
  <2>1. ASSUME NEW n \in acked \ Dotted PROVE IsOpen(reg[n])'
    <3>1. n \in Loads
      BY <1>3 DEF StorageInv, AckedStays, StorageTypeOK
    <3>2. reg'[n] # 0 /\ handle'[reg'[n]].open
      BY <1>3, <1>6, <3>1
    <3>3. QED
      BY <3>2 DEF IsOpen
  <2>2. QED
    BY <1>2, <2>1 DEF StorageInv, AckedStays
<1>14. QED
  BY <1>8, <1>9, <1>10, <1>11, <1>12, <1>13 DEF StorageInv

LEMMA InitInv == Init => StorageInv
<1> SUFFICES ASSUME Init PROVE StorageInv
  OBVIOUS
<1>1. DOMAIN handle = {} /\ {} = 1..0 /\ IsFiniteSet({}) /\ Cardinality({}) = 0
  BY FS_EmptySet DEF Init
<1>2. \A p \in Procs : proc[p] \in Request /\ proc[p].at \in {"idle", "create"}
  BY StorageAssumption DEF Init, Request, Idle, Named
<1>3. StorageTypeOK
  BY <1>1 DEF Init, StorageTypeOK
<1>4. RequestsOK
  BY <1>1, <1>2 DEF Init, RequestsOK
<1>5. MutexHeld
  BY <1>2, StorageAssumption DEF Init, MutexHeld, Holding, Procs, Boot, Nobody
<1>6. RegisteredByName /\ FoundStays /\ TxOnCurrentFile /\ AckedStays
  BY <1>1, <1>2 DEF Init, RegisteredByName, FoundStays, TxOnCurrentFile, AckedStays, Procs
<1>7. QED
  BY <1>3, <1>4, <1>5, <1>6 DEF StorageInv

LEMMA NextInv ==
  ASSUME StorageInv, [Next]_vars PROVE StorageInv'
<1>1. ASSUME NEW p \in Clients, NEW n \in Names,
             CreateRequest(p, n) \/ DeleteRequest(p, n) \/ Lookup(p, n)
      PROVE  StorageInv'
  BY <1>1, CreateRequestInv, DeleteRequestInv, LookupInv
<1>2. ASSUME NEW p \in Procs, Step(p) \/ BuildFails(p) \/ RemoveFails(p) \/ StoreBlob(p)
      PROVE  StorageInv'
  <2>1. CASE BuildFails(p) \/ RemoveFails(p)
    BY <2>1, FailsInv
  <2>2. CASE Step(p)
    BY <2>2, CheckLimitInv, LockToCreateInv, OpenFileInv, BuildInv, CloseFileInv,
       RemoveFileInv, RemoveDirInv, UsingInv DEF Step
  <2>3. QED
    BY <1>2, <2>1, <2>2, StoreBlobInv
<1>3. CASE BootStep \/ Restart
  BY <1>3, BootStepInv, RestartInv
<1>4. CASE UNCHANGED vars
  BY <1>4 DEF vars, StorageInv, StorageTypeOK, RequestsOK, MutexHeld, RegisteredByName,
              FoundStays, TxOnCurrentFile, AckedStays, IsOpen
<1>5. QED
  BY <1>1, <1>2, <1>3, <1>4 DEF Next

\* The inductive invariant of the storage manager, with its types: what the
\* mutex, the map, the handles and the files say of each other, whatever
\* requests interleave, whichever step fails and wherever the process stops.
THEOREM StorageInvariant == Spec => []StorageInv
<1>1. Init => StorageInv
  BY InitInv
<1>2. StorageInv /\ [Next]_vars => StorageInv'
  BY NextInv
<1>3. QED
  BY <1>1, <1>2, PTL DEF Spec

\* Every transaction is on the file that bears its database's name, whatever
\* is deleted and created again meanwhile (CreateDatabase, DeleteDatabase).
THEOREM TxAlwaysOnCurrentFile == Spec => []TxOnCurrentFile
<1>1. StorageInv => TxOnCurrentFile
  BY DEF StorageInv
<1>2. QED
  BY <1>1, StorageInvariant, PTL

\* A database without a dot in its name whose creation was answered is served
\* by every server that is up, until a client deletes it (ReloadDatabases).
THEOREM AckedAlwaysServed == Spec => []AckedIsServed
<1>1. StorageInv => AckedIsServed
  BY DEF StorageInv, AckedStays, AckedIsServed
<1>2. QED
  BY <1>1, StorageInvariant, PTL

=============================================================================
