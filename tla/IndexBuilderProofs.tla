------------------------- MODULE IndexBuilderProofs -------------------------
(* The invariants of IndexBuilder, for any documents, functions, page size,  *)
(* clients and bounds.                                                       *)
EXTENDS IndexBuilder, FiniteSetTheorems, FunctionTheorems, TLAPS

-----------------------------------------------------------------------------
(* Ranks. *)

LEMMA RankRises ==
  ASSUME NEW S \in SUBSET Nat, IsFiniteSet(S)
  PROVE  /\ \A n \in S : Rank(n, S) \in 1..Cardinality(S)
         /\ \A m, n \in S : m < n => Rank(m, S) < Rank(n, S)
<1>1. Cardinality(S) \in Nat
  BY FS_CardinalityType
<1>2. ASSUME NEW n \in S PROVE Rank(n, S) \in 1..Cardinality(S)
  <2> DEFINE below == {m \in S : m <= n}
  <2>1. IsFiniteSet(below) /\ Cardinality(below) <= Cardinality(S)
    BY FS_Subset
  <2>2. Cardinality(below) \in Nat /\ Cardinality(below) # 0
    <3>1. n \in below
      OBVIOUS
    <3> QED BY <2>1, <3>1, FS_CardinalityType, FS_EmptySet
  <2> QED BY <1>1, <2>1, <2>2 DEF Rank
<1>3. ASSUME NEW m \in S, NEW n \in S, m < n PROVE Rank(m, S) < Rank(n, S)
  <2> DEFINE lower == {k \in S : k <= m}
             upper == {k \in S : k <= n}
  <2>1. IsFiniteSet(upper) /\ lower \in SUBSET upper
    <3>1. upper \in SUBSET S
      OBVIOUS
    <3>2. IsFiniteSet(upper)
      BY <3>1, FS_Subset
    <3>3. ASSUME NEW k \in lower PROVE k \in upper
      <4>1. k \in S /\ k \in Nat /\ m \in Nat /\ n \in Nat /\ k <= m
        OBVIOUS
      <4> QED BY <1>3, <4>1
    <3> QED BY <3>2, <3>3
  <2>2. n \in upper /\ n \notin lower
    BY <1>3
  <2>3. Cardinality(lower) <= Cardinality(upper) /\ Cardinality(lower) # Cardinality(upper)
    <3> HIDE DEF lower, upper
    <3> QED BY <2>1, <2>2, FS_Subset
  <2>4. Cardinality(lower) \in Nat /\ Cardinality(upper) \in Nat
    BY <2>1, FS_Subset, FS_CardinalityType
  <2> QED BY <2>3, <2>4 DEF Rank
<1> QED BY <1>2, <1>3

\* The n smallest members of a set are n, when it has that many.
LEMMA SmallestCounted ==
  ASSUME NEW S \in SUBSET Nat, IsFiniteSet(S), NEW n \in Nat, n <= Cardinality(S)
  PROVE  IsFiniteSet(Smallest(n, S)) /\ Cardinality(Smallest(n, S)) = n
<1> DEFINE c == Cardinality(S)
           rank == [m \in S |-> Rank(m, S)]
           low == Smallest(n, S)
           place == [m \in low |-> Rank(m, S)]
<1>1. c \in Nat
  BY FS_CardinalityType
<1>2. rank \in [S -> 1..c] /\ \A k, m \in S : rank[k] = rank[m] => k = m
  BY RankRises
<1>3. rank \in Injection(S, 1..c)
  BY <1>2, Fun_IsInj
<1>4. IsFiniteSet(1..c) /\ Cardinality(1..c) = c
  BY <1>1, FS_Interval
<1>5. rank \in Surjection(S, 1..c)
  BY <1>3, <1>4, FS_Injection
<1>6. \A k \in 1..c : \E m \in S : Rank(m, S) = k
  BY <1>5 DEF Surjection
<1>7. low \subseteq S /\ IsFiniteSet(low)
  BY FS_Subset DEF Smallest
<1>8. place \in [low -> 1..n]
  <2>1. ASSUME NEW m \in low PROVE Rank(m, S) \in 1..n
    <3>1. m \in S /\ Rank(m, S) <= n
      BY DEF Smallest
    <3>2. Rank(m, S) \in 1..c
      BY <3>1, RankRises
    <3> QED BY <1>1, <3>1, <3>2
  <2> QED BY <2>1
<1>9. place \in Bijection(low, 1..n)
  <2>1. \A k, m \in low : place[k] = place[m] => k = m
    BY <1>2, <1>7
  <2>2. ASSUME NEW k \in 1..n PROVE \E m \in low : place[m] = k
    <3>1. PICK m \in S : Rank(m, S) = k
      BY <1>1, <1>6
    <3> QED BY <3>1 DEF Smallest
  <2> QED BY <1>8, <2>1, <2>2, Fun_IsBij
<1>10. ExistsBijection(low, 1..n)
  BY <1>9 DEF ExistsBijection
<1> QED BY <1>7, <1>10, FS_Bijection, FS_Interval

LEMMA SmallestIn ==
  ASSUME NEW S \in SUBSET Nat, IsFiniteSet(S), NEW n \in Nat \ {0}
  PROVE  /\ Smallest(n, S) \subseteq S
         /\ S # {} => Smallest(n, S) # {}
<1>1. SUFFICES ASSUME S # {} PROVE Smallest(n, S) # {}
  BY DEF Smallest
<1>2. Cardinality(S) \in Nat /\ 1 <= Cardinality(S)
  BY <1>1, FS_CardinalityType, FS_EmptySet
<1>3. Cardinality(Smallest(1, S)) = 1 /\ Cardinality(Smallest(1, S)) # 0
  BY <1>2, SmallestCounted
<1>4. PICK m \in Smallest(1, S) : TRUE
  BY <1>3, FS_EmptySet
<1>5. m \in S /\ Rank(m, S) \in 1..Cardinality(S) /\ Rank(m, S) <= n
  BY <1>2, <1>4, RankRises DEF Smallest
<1> QED BY <1>5 DEF Smallest

\* Whatever of U a page of n leaves out has a full page of U, and n more
\* members of T, before it.
LEMMA LeftOutIsBehind ==
  ASSUME NEW T \in SUBSET Nat, IsFiniteSet(T), NEW n \in Nat, NEW k \in Nat,
         NEW U, U \subseteq {m \in T : Rank(m, T) > k},
         NEW d \in U, d \notin Smallest(n, U)
  PROVE  /\ IsFiniteSet(Smallest(n, U)) /\ Cardinality(Smallest(n, U)) = n
         /\ Rank(d, T) > k + n
<1> DEFINE before == {m \in U : m <= d}
           r == Rank(d, T)
           place == [m \in before |-> Rank(m, T)]
<1>1. U \subseteq T /\ IsFiniteSet(U) /\ U \subseteq Nat
  BY FS_Subset
<1>2. before \subseteq U /\ IsFiniteSet(before) /\ Cardinality(before) <= Cardinality(U)
  BY <1>1, FS_Subset
<1>3. Cardinality(U) \in Nat /\ Cardinality(before) \in Nat
  BY <1>1, <1>2, FS_CardinalityType
<1>4. n < Cardinality(before)
  BY <1>3 DEF Smallest, Rank
<1>5. IsFiniteSet(Smallest(n, U)) /\ Cardinality(Smallest(n, U)) = n
  BY <1>1, <1>2, <1>3, <1>4, SmallestCounted
<1>6. /\ \A m \in T : Rank(m, T) \in Nat
      /\ \A m, e \in T : m < e => Rank(m, T) < Rank(e, T)
  BY RankRises, FS_CardinalityType
<1>7. place \in [before -> (k + 1)..r]
  <2>1. ASSUME NEW m \in before PROVE Rank(m, T) \in (k + 1)..r
    <3>1. m \in T /\ d \in T /\ m \in Nat /\ d \in Nat /\ (m < d \/ m = d) /\ Rank(m, T) > k
      BY <1>1
    <3> QED BY <1>6, <3>1
  <2> QED BY <2>1
<1>8. \A e, f \in before : place[e] = place[f] => e = f
  <2>1. SUFFICES ASSUME NEW e \in before, NEW f \in before, Rank(e, T) = Rank(f, T) PROVE e = f
    OBVIOUS
  <2>2. e \in T /\ f \in T /\ e \in Nat /\ f \in Nat
    BY <1>1
  <2> QED BY <1>6, <2>1, <2>2
<1>9. place \in Injection(before, (k + 1)..r)
  BY <1>7, <1>8, Fun_IsInj
<1>10. r \in Nat
  BY <1>1, <1>6
<1>11. IsFiniteSet((k + 1)..r) /\ Cardinality((k + 1)..r) = IF k + 1 > r THEN 0 ELSE r - (k + 1) + 1
  <2> HIDE DEF r
  <2>1. k + 1 \in Int /\ r \in Int
    BY <1>10
  <2> QED BY <2>1, FS_Interval
<1>12. Cardinality(before) <= Cardinality((k + 1)..r)
  BY <1>9, <1>11, FS_Injection
<1> QED BY <1>3, <1>4, <1>5, <1>10, <1>11, <1>12

\* More members, no lower rank.
LEMMA RankGrows ==
  ASSUME NEW T \in SUBSET Nat, NEW S \in SUBSET T, IsFiniteSet(T), NEW d
  PROVE  Rank(d, S) \in Nat /\ Rank(d, T) \in Nat /\ Rank(d, S) <= Rank(d, T)
<1> DEFINE s == {m \in S : m <= d}
           t == {m \in T : m <= d}
<1>1. IsFiniteSet(t) /\ s \in SUBSET t
  BY FS_Subset
<1> HIDE DEF s, t
<1>2. IsFiniteSet(s) /\ Cardinality(s) <= Cardinality(t)
  BY <1>1, FS_Subset
<1>3. Cardinality(s) \in Nat /\ Cardinality(t) \in Nat
  BY <1>1, <1>2, FS_CardinalityType
<1> QED BY <1>2, <1>3 DEF Rank, s, t

-----------------------------------------------------------------------------
(* What a log adds, and where. *)

LEMMA KeysTyped ==
  ASSUME kind \in Kinds, NEW fn \in Functions, NEW body \in Bodies \cup {None, Deleted}
  PROVE  /\ KeysOf(fn, body) \in Seq(Keys)
         /\ kind = "mango" => Len(KeysOf(fn, body)) <= 1
         /\ fn = NoFn \/ body \notin Bodies => KeysOf(fn, body) = <<>>
<1>1. CASE fn = NoFn \/ body \in {None, Deleted}
  BY <1>1, IndexAssumption DEF KeysOf
<1>2. CASE fn \in Fns /\ body \in Bodies
  BY <1>2, IndexAssumption DEF KeysOf, Kinds
<1> QED BY <1>1, <1>2 DEF Functions

LEMMA LogKeys ==
  ASSUME kind \in Kinds, NEW log, IsLog(log)
  PROVE  /\ log.new \in Seq(Keys) /\ Len(log.new) \in Nat
         /\ DOMAIN log.new = 1..Len(log.new)
         /\ \A i \in DOMAIN log.new : log.new[i] \in Keys
         /\ kind = "mango" => Len(log.new) <= 1
         /\ log.fn = NoFn => log.new = <<>>
<1>1. log.new \in Seq(Keys)
  BY KeysTyped DEF IsLog
<1>2. (kind = "mango" => Len(log.new) <= 1) /\ (log.fn = NoFn => log.new = <<>>)
  BY KeysTyped DEF IsLog
<1> QED BY <1>1, <1>2

\* Logs of the documents they are filed under.
AreLogs(logs) ==
  /\ DOMAIN logs \subseteq Ids
  /\ \A d \in DOMAIN logs : IsLog(logs[d]) /\ logs[d].id = d

LEMMA PutsFinite ==
  ASSUME kind \in Kinds, NEW logs, AreLogs(logs)
  PROVE  /\ IsFiniteSet(Puts(logs))
         /\ \A d \in DOMAIN logs :
              /\ IsFiniteSet({d} \X DOMAIN logs[d].new)
              /\ Cardinality({d} \X DOMAIN logs[d].new) = Len(logs[d].new)
<1> DEFINE mine == [d \in DOMAIN logs |-> {d} \X DOMAIN logs[d].new]
<1>1. ASSUME NEW d \in DOMAIN logs
      PROVE  /\ IsFiniteSet({d} \X DOMAIN logs[d].new)
             /\ Cardinality({d} \X DOMAIN logs[d].new) = Len(logs[d].new)
  <2>1. Len(logs[d].new) \in Nat /\ DOMAIN logs[d].new = 1..Len(logs[d].new)
    BY LogKeys DEF AreLogs
  <2>2. IsFiniteSet(1..Len(logs[d].new)) /\ Cardinality(1..Len(logs[d].new)) = Len(logs[d].new)
    BY <2>1, FS_Interval
  <2>3. IsFiniteSet({d}) /\ Cardinality({d}) = 1
    BY FS_Singleton
  <2>4. /\ IsFiniteSet({d} \X (1..Len(logs[d].new)))
        /\ Cardinality({d} \X (1..Len(logs[d].new))) = 1 * Len(logs[d].new)
    BY <2>2, <2>3, FS_Product
  <2> QED BY <2>1, <2>4
<1>2. IsFiniteSet(DOMAIN logs)
  BY IndexAssumption, FS_Subset DEF AreLogs
<1>3. mine \in Surjection(DOMAIN logs, Range(mine))
  <2>1. mine \in [DOMAIN logs -> Range(mine)]
    BY DEF Range
  <2> HIDE DEF mine
  <2> QED BY <2>1, Fun_RangeProperties
<1>4. IsFiniteSet(Range(mine))
  BY <1>2, <1>3, FS_Surjection
<1>5. Range(mine) = {{d} \X DOMAIN logs[d].new : d \in DOMAIN logs}
  BY DEF Range
<1>6. \A S \in {{d} \X DOMAIN logs[d].new : d \in DOMAIN logs} : IsFiniteSet(S)
  BY <1>1
<1>7. IsFiniteSet(Puts(logs))
  BY <1>4, <1>5, <1>6, FS_UNION DEF Puts
<1> QED BY <1>1, <1>7

\* The keys of a log take the sequences that follow those of the documents
\* before it, and what is put no later than they are counts them.
LEMMA SeqRoom ==
  ASSUME kind \in Kinds, rowSeq \in Nat, NEW logs, AreLogs(logs), NEW d \in DOMAIN logs,
         NEW Q \in SUBSET Puts(logs), {d} \X DOMAIN logs[d].new \subseteq Q,
         {p \in Puts(logs) : p[1] < d} \subseteq Q
  PROVE  /\ SeqBefore(logs, d) \in Nat /\ SeqBefore(logs, d) >= rowSeq
         /\ Cardinality(Q) \in Nat
         /\ SeqBefore(logs, d) + Len(logs[d].new) <= rowSeq + Cardinality(Q)
<1> DEFINE before == {p \in Puts(logs) : p[1] < d}
           mine == {d} \X DOMAIN logs[d].new
<1>1. IsFiniteSet(Puts(logs)) /\ IsFiniteSet(mine) /\ Cardinality(mine) = Len(logs[d].new)
  BY PutsFinite
<1>2. IsFiniteSet(Q) /\ IsFiniteSet(before)
  BY <1>1, FS_Subset
<1>3. before \cap mine = {}
  <2>1. d \in Nat
    BY IndexAssumption DEF AreLogs
  <2> QED BY <2>1
<1>4. before \cup mine \in SUBSET Q
  OBVIOUS
<1>5. SeqBefore(logs, d) = rowSeq + Cardinality(before)
  BY DEF SeqBefore
<1>6. Len(logs[d].new) \in Nat
  BY LogKeys DEF AreLogs
<1> HIDE DEF before, mine
<1>7. Cardinality(before \cup mine) = Cardinality(before) + Cardinality(mine)
  <2>1. Cardinality(before \cup mine) = Cardinality(before) + Cardinality(mine) - Cardinality({})
    BY <1>1, <1>2, <1>3, FS_Union
  <2> QED BY <1>1, <1>2, <2>1, FS_EmptySet, FS_CardinalityType
<1>8. Cardinality(before \cup mine) <= Cardinality(Q)
  BY <1>2, <1>4, FS_Subset
<1>9. Cardinality(before) \in Nat /\ Cardinality(Q) \in Nat
  BY <1>2, FS_CardinalityType
<1> QED BY <1>1, <1>5, <1>6, <1>7, <1>8, <1>9

LEMMA SeqPlaces ==
  ASSUME kind \in Kinds, rowSeq \in Nat, NEW logs, AreLogs(logs)
  PROVE  /\ Cardinality(Puts(logs)) \in Nat
         /\ \A d \in DOMAIN logs :
              /\ SeqBefore(logs, d) \in Nat /\ SeqBefore(logs, d) >= rowSeq
              /\ SeqBefore(logs, d) + Len(logs[d].new) <= rowSeq + Cardinality(Puts(logs))
         /\ \A d, e \in DOMAIN logs :
              d < e => SeqBefore(logs, d) + Len(logs[d].new) <= SeqBefore(logs, e)
<1>1. Cardinality(Puts(logs)) \in Nat
  BY PutsFinite, FS_CardinalityType
<1>2. ASSUME NEW d \in DOMAIN logs PROVE {d} \X DOMAIN logs[d].new \subseteq Puts(logs)
  BY DEF Puts
<1>3. ASSUME NEW d \in DOMAIN logs
      PROVE  /\ SeqBefore(logs, d) \in Nat /\ SeqBefore(logs, d) >= rowSeq
             /\ SeqBefore(logs, d) + Len(logs[d].new) <= rowSeq + Cardinality(Puts(logs))
  <2>1. Puts(logs) \in SUBSET Puts(logs) /\ {p \in Puts(logs) : p[1] < d} \subseteq Puts(logs)
    OBVIOUS
  <2> QED BY <1>2, <2>1, SeqRoom
<1>4. ASSUME NEW d \in DOMAIN logs, NEW e \in DOMAIN logs, d < e
      PROVE  SeqBefore(logs, d) + Len(logs[d].new) <= SeqBefore(logs, e)
  <2> DEFINE Q == {p \in Puts(logs) : p[1] < e}
  <2>1. d \in Nat /\ e \in Nat
    BY IndexAssumption DEF AreLogs
  <2>2. {d} \X DOMAIN logs[d].new \subseteq Q
    BY <1>2, <1>4
  <2>3. {p \in Puts(logs) : p[1] < d} \subseteq Q
    <3>1. SUFFICES ASSUME NEW p \in Puts(logs), p[1] < d PROVE p[1] < e
      OBVIOUS
    <3>2. PICK c \in DOMAIN logs : p \in {c} \X DOMAIN logs[c].new
      BY DEF Puts
    <3>3. p[1] = c /\ c \in Nat
      BY <3>2, IndexAssumption DEF AreLogs
    <3> QED BY <1>4, <2>1, <3>1, <3>3
  <2>4. Q \in SUBSET Puts(logs)
    OBVIOUS
  <2>5. SeqBefore(logs, e) = rowSeq + Cardinality(Q)
    BY DEF SeqBefore
  <2> HIDE DEF Q
  <2> QED BY <2>2, <2>3, <2>4, <2>5, SeqRoom
<1> QED BY <1>1, <1>3, <1>4

LEMMA AddedTyped ==
  ASSUME kind \in Kinds, NEW log, IsLog(log), NEW n \in Nat
  PROVE  \A e \in Added(log, n) :
           /\ e \in Entry /\ e.id = log.id
           /\ kind = "mango" => e.seq = 0
           /\ kind = "view" => \E i \in 1..Len(log.new) :
                e = [id |-> log.id, key |-> log.new[i], seq |-> n + i]
<1>1. SUFFICES ASSUME NEW i \in DOMAIN log.new,
                      NEW e, e = [id |-> log.id, key |-> log.new[i],
                                  seq |-> IF kind = "view" THEN n + i ELSE 0]
               PROVE  /\ e \in Entry /\ e.id = log.id
                      /\ kind = "mango" => e.seq = 0
                      /\ kind = "view" => \E j \in 1..Len(log.new) :
                           e = [id |-> log.id, key |-> log.new[j], seq |-> n + j]
  BY DEF Added
<1>2. i \in 1..Len(log.new) /\ i \in Nat /\ log.new[i] \in Keys /\ log.id \in Ids
  BY LogKeys DEF IsLog
<1>3. (IF kind = "view" THEN n + i ELSE 0) \in Nat
  BY <1>2
<1>4. e \in Entry /\ e.id = log.id
  BY <1>1, <1>2, <1>3 DEF Entry
<1> QED BY <1>1, <1>2, <1>4

LEMMA AllAddedTyped ==
  ASSUME kind \in Kinds, rowSeq \in Nat, NEW logs, AreLogs(logs)
  PROVE  /\ AllRecords(logs) = AllAdded(logs)
         /\ \A e \in AllAdded(logs) :
              /\ e \in Entry /\ e.id \in DOMAIN logs
              /\ e \in Added(logs[e.id], SeqBefore(logs, e.id))
              /\ kind = "mango" => e.seq = 0
              /\ kind = "view" => e.seq \in (rowSeq + 1)..(rowSeq + Cardinality(Puts(logs)))
         /\ kind = "view" => \A e, f \in AllAdded(logs) : e.seq = f.seq => e = f
<1> DEFINE c == Cardinality(Puts(logs))
           At(d) == SeqBefore(logs, d)
<1>1. AllRecords(logs) = AllAdded(logs)
  BY DEF AllRecords, AllAdded, Records
<1>2. c \in Nat /\ \A d \in DOMAIN logs : At(d) \in Nat
  BY SeqPlaces
<1>3. ASSUME NEW e \in AllAdded(logs)
      PROVE  /\ e \in Entry /\ e.id \in DOMAIN logs
             /\ e \in Added(logs[e.id], At(e.id))
             /\ kind = "mango" => e.seq = 0
             /\ kind = "view" => \E i \in 1..Len(logs[e.id].new) :
                  e = [id |-> e.id, key |-> logs[e.id].new[i], seq |-> At(e.id) + i]
  <2>1. PICK d \in DOMAIN logs : e \in Added(logs[d], At(d))
    BY DEF AllAdded
  <2>2. At(d) \in Nat /\ IsLog(logs[d]) /\ logs[d].id = d
    BY <1>2 DEF AreLogs
  <2>3. e \in Entry /\ e.id = d /\ (kind = "mango" => e.seq = 0)
    BY <2>1, <2>2, AddedTyped
  <2>4. kind = "view" => \E i \in 1..Len(logs[d].new) :
          e = [id |-> d, key |-> logs[d].new[i], seq |-> At(d) + i]
    <3> HIDE DEF At
    <3> QED BY <2>1, <2>2, AddedTyped
  <2> QED BY <2>1, <2>3, <2>4
<1>4. ASSUME kind = "view", NEW e \in AllAdded(logs)
      PROVE  e.seq \in (At(e.id) + 1)..(At(e.id) + Len(logs[e.id].new))
  <2>1. PICK i \in 1..Len(logs[e.id].new) :
          e = [id |-> e.id, key |-> logs[e.id].new[i], seq |-> At(e.id) + i]
    BY <1>3, <1>4
  <2>2. e.seq = At(e.id) + i
    BY <2>1
  <2>3. At(e.id) \in Nat /\ Len(logs[e.id].new) \in Nat
    BY <1>2, <1>3, LogKeys DEF AreLogs
  <2> HIDE DEF At
  <2> QED BY <2>2, <2>3
<1>5. ASSUME kind = "view", NEW e \in AllAdded(logs)
      PROVE  e.seq \in (rowSeq + 1)..(rowSeq + c)
  <2>1. /\ At(e.id) \in Nat /\ At(e.id) >= rowSeq
        /\ At(e.id) + Len(logs[e.id].new) <= rowSeq + c
    BY <1>3, SeqPlaces
  <2>2. Len(logs[e.id].new) \in Nat
    BY <1>3, LogKeys DEF AreLogs
  <2>3. e.seq \in (At(e.id) + 1)..(At(e.id) + Len(logs[e.id].new))
    BY <1>4, <1>5
  <2> HIDE DEF At, c
  <2> QED BY <1>2, <2>1, <2>2, <2>3
<1>6. ASSUME kind = "view", NEW e \in AllAdded(logs), NEW f \in AllAdded(logs), e.id < f.id
      PROVE  e.seq # f.seq
  <2>1. At(e.id) + Len(logs[e.id].new) <= At(f.id)
    BY <1>3, <1>6, SeqPlaces
  <2>2. Len(logs[e.id].new) \in Nat /\ Len(logs[f.id].new) \in Nat /\ At(e.id) \in Nat /\ At(f.id) \in Nat
    BY <1>2, <1>3, LogKeys DEF AreLogs
  <2>3. e.seq \in (At(e.id) + 1)..(At(e.id) + Len(logs[e.id].new))
    BY <1>4, <1>6
  <2>4. f.seq \in (At(f.id) + 1)..(At(f.id) + Len(logs[f.id].new))
    BY <1>4, <1>6
  <2> HIDE DEF At
  <2> QED BY <2>1, <2>2, <2>3, <2>4
<1>7. ASSUME kind = "view", NEW e \in AllAdded(logs), NEW f \in AllAdded(logs), e.seq = f.seq
      PROVE  e = f
  <2>1. e.id \in Nat /\ f.id \in Nat
    BY <1>3, IndexAssumption DEF AreLogs
  <2>2. e.id = f.id
    BY <1>6, <1>7, <2>1
  <2>3. PICK i \in 1..Len(logs[e.id].new) :
          e = [id |-> e.id, key |-> logs[e.id].new[i], seq |-> At(e.id) + i]
    BY <1>3, <1>7
  <2>4. PICK j \in 1..Len(logs[e.id].new) :
          f = [id |-> e.id, key |-> logs[e.id].new[j], seq |-> At(e.id) + j]
    BY <1>3, <1>7, <2>2
  <2>5. e.seq = At(e.id) + i /\ f.seq = At(e.id) + j
    BY <2>3, <2>4
  <2>6. At(e.id) \in Nat /\ Len(logs[e.id].new) \in Nat
    BY <1>2, <1>3, LogKeys DEF AreLogs
  <2>7. i = j
    <3>1. At(e.id) + i = At(e.id) + j
      BY <1>7, <2>5
    <3>2. i \in Nat /\ j \in Nat
      BY <2>6
    <3>3. \A n, x, y \in Nat : n + x = n + y => x = y
      OBVIOUS
    <3> HIDE DEF At
    <3> QED BY <2>6, <3>1, <3>2, <3>3
  <2> QED BY <2>3, <2>4, <2>7
<1> QED BY <1>1, <1>3, <1>5, <1>7

-----------------------------------------------------------------------------
(* What applying logs does. *)

\* As many entries under a key as the document emits it.
LEMMA AddedExact ==
  ASSUME kind \in Kinds, NEW log, IsLog(log), NEW n \in Nat, NEW k
  PROVE  EntriesUnder(k, Added(log, n)) = TimesIn(k, log.new)
<1> DEFINE places == {i \in DOMAIN log.new : log.new[i] = k}
           entries == {e \in Added(log, n) : e.key = k}
           Of(i) == [id |-> log.id, key |-> log.new[i], seq |-> IF kind = "view" THEN n + i ELSE 0]
           f == [i \in places |-> Of(i)]
<1>1. /\ DOMAIN log.new = 1..Len(log.new) /\ Len(log.new) \in Nat
      /\ kind = "mango" => Len(log.new) <= 1
  BY LogKeys
<1>2. f \in [places -> entries]
  BY DEF Added
<1>3. ASSUME NEW e \in entries PROVE \E i \in places : f[i] = e
  <2>1. PICK i \in DOMAIN log.new : e = Of(i)
    BY DEF Added
  <2>2. e.key = log.new[i]
    BY <2>1
  <2> QED BY <2>1, <2>2
<1>4. ASSUME NEW i \in places, NEW j \in places, f[i] = f[j] PROVE i = j
  <2>1. i \in 1..Len(log.new) /\ j \in 1..Len(log.new)
    BY <1>1
  <2>2. CASE kind = "mango"
    BY <1>1, <2>1, <2>2
  <2>3. CASE kind = "view"
    <3>1. Of(i) = Of(j)
      BY <1>4
    <3>2. Of(i).seq = n + i /\ Of(j).seq = n + j
      BY <2>3
    <3> QED BY <2>1, <3>1, <3>2
  <2> QED BY <2>2, <2>3 DEF Kinds
<1>5. f \in Bijection(places, entries)
  BY <1>2, <1>3, <1>4, Fun_IsBij
<1>6. IsFiniteSet(places)
  <2>1. IsFiniteSet(1..Len(log.new)) /\ places \in SUBSET (1..Len(log.new))
    BY <1>1, FS_Interval
  <2> QED BY <2>1, FS_Subset
<1>7. ExistsBijection(places, entries)
  BY <1>5 DEF ExistsBijection
<1> HIDE DEF places, entries
<1>8. Cardinality(entries) = Cardinality(places)
  BY <1>6, <1>7, FS_Bijection
<1> QED BY <1>8 DEF places, entries, EntriesUnder, TimesIn

\* Logs that were computed at some time, each of its own document.
Applies(logs) == AreLogs(logs) /\ (\A d \in DOMAIN logs : logs[d] \in Pending) /\ Apply(logs)

LEMMA ApplyStores ==
  ASSUME TypeOK, SequencesUnique, NEW logs, Applies(logs)
  PROVE  /\ rows' \cup inval' \subseteq rows \cup inval \cup AllAdded(logs)
         /\ rowSeq' = IF kind = "view" THEN rowSeq + Cardinality(Puts(logs)) ELSE rowSeq
         /\ rowSeq' \in Nat
<1>1. AllRecords(logs) = AllAdded(logs) /\ rowSeq \in Nat /\ Cardinality(Puts(logs)) \in Nat
  BY AllAddedTyped, SeqPlaces DEF TypeOK, Applies
<1>2. rowSeq' = IF kind = "view" THEN rowSeq + Cardinality(Puts(logs)) ELSE rowSeq
  BY DEF Applies, Apply
<1>3. rows' \cup inval' \subseteq rows \cup inval \cup AllAdded(logs)
  BY <1>1 DEF Applies, Apply
<1> QED BY <1>1, <1>2, <1>3

LEMMA ApplyKeepsRemovable ==
  ASSUME TypeOK, SequencesUnique, RowsRemovable, kind' = kind, NEW logs, Applies(logs)
  PROVE  RowsRemovable'
<1>1. AllRecords(logs) = AllAdded(logs)
  BY AllAddedTyped DEF TypeOK, Applies
<1>2. ASSUME NEW d \in DOMAIN logs
      PROVE  /\ logs[d].old \subseteq Known /\ IsLog(logs[d]) /\ logs[d].id = d
             /\ Dropped(logs[d]) \subseteq inval \cup logs[d].old
             /\ \A e \in Dropped(logs[d]) : e.id = d
  <2>1. logs[d] \in Pending /\ IsLog(logs[d]) /\ logs[d].id = d
    BY DEF Applies, AreLogs
  <2>2. logs[d].old \subseteq Known
    BY <2>1 DEF Known
  <2> QED BY <2>1, <2>2 DEF Dropped, OldKeys, IsLog
<1>3. CASE kind = "view"
  <2>1. ASSUME NEW d \in DOMAIN logs PROVE Dropped(logs[d]) = logs[d].old
    BY <1>3 DEF Dropped
  <2>2. ASSUME NEW r \in rows, NEW d \in DOMAIN logs, NEW e \in logs[d].old
        PROVE  SameRow(e, r) <=> r = e
    <3>1. r \in Known /\ e \in Known
      BY <1>2 DEF Known
    <3> QED BY <1>3, <3>1 DEF SequencesUnique, SameRow
  <2>3. rows = inval
    BY <1>3 DEF RowsRemovable
  <2>4. \A r \in rows : (\E d \in DOMAIN logs : \E e \in logs[d].old : SameRow(e, r)) <=>
                        r \in UNION {Dropped(logs[d]) : d \in DOMAIN logs}
    BY <2>1, <2>2
  <2>5. {r \in rows : ~ \E d \in DOMAIN logs : \E e \in logs[d].old : SameRow(e, r)} =
        inval \ UNION {Dropped(logs[d]) : d \in DOMAIN logs}
    BY <2>3, <2>4
  <2>6. rows' = inval'
    BY <1>1, <2>5 DEF Applies, Apply
  <2> QED BY <2>6 DEF RowsRemovable
<1>4. CASE kind = "mango"
  <2>1. ASSUME NEW r \in inval, NEW d \in DOMAIN logs, NEW e \in logs[d].old, SameRow(e, r)
        PROVE  r \in Dropped(logs[d])
    <3>1. logs[d].fn # NoFn /\ logs[d].id = d /\ e.id = d
      BY <1>2, <2>1 DEF IsLog
    <3>2. r.id = d
      BY <1>4, <2>1, <3>1 DEF SameRow
    <3> QED BY <1>4, <3>1, <3>2 DEF Dropped, OldKeys
  <2>2. inval' \subseteq rows'
    <3>1. inval \subseteq rows
      BY DEF RowsRemovable
    <3> QED BY <1>1, <2>1, <3>1 DEF Applies, Apply
  <2> QED BY <1>4, <2>2 DEF RowsRemovable
<1> QED BY <1>3, <1>4 DEF TypeOK, Kinds

\* Documents without a log keep their records; one whose log saw the records
\* there are is left with what the log adds.
LEMMA ApplyRecords ==
  ASSUME TypeOK, SequencesUnique, NEW logs, Applies(logs)
  PROVE  /\ \A d \in Ids \ DOMAIN logs : {e \in inval' : e.id = d} = OldKeys(d)
         /\ \A d \in DOMAIN logs : logs[d].fn # NoFn /\ logs[d].old = OldKeys(d) =>
              {e \in inval' : e.id = d} = Added(logs[d], SeqBefore(logs, d))
<1>1. AllRecords(logs) = AllAdded(logs) /\ \A e \in AllAdded(logs) :
        e.id \in DOMAIN logs /\ e \in Added(logs[e.id], SeqBefore(logs, e.id))
  BY AllAddedTyped DEF TypeOK, Applies
<1>2. \A d \in DOMAIN logs : IsLog(logs[d]) /\ logs[d].id = d /\ SeqBefore(logs, d) \in Nat
  BY SeqPlaces DEF TypeOK, Applies, AreLogs
<1>3. \A d \in DOMAIN logs : \A e \in Dropped(logs[d]) : e.id = d
  BY <1>2 DEF Dropped, OldKeys, IsLog
<1>4. inval' = (inval \ UNION {Dropped(logs[d]) : d \in DOMAIN logs}) \cup AllAdded(logs)
  BY <1>1 DEF Applies, Apply
<1>5. ASSUME NEW d \in Ids \ DOMAIN logs PROVE {e \in inval' : e.id = d} = OldKeys(d)
  BY <1>1, <1>3, <1>4 DEF OldKeys
<1>6. ASSUME NEW d \in DOMAIN logs, logs[d].fn # NoFn, logs[d].old = OldKeys(d)
      PROVE  {e \in inval' : e.id = d} = Added(logs[d], SeqBefore(logs, d))
  <2>1. Dropped(logs[d]) = OldKeys(d)
    BY <1>2, <1>6 DEF Dropped
  <2>2. Added(logs[d], SeqBefore(logs, d)) \subseteq AllAdded(logs)
    BY DEF AllAdded
  <2>3. \A e \in Added(logs[d], SeqBefore(logs, d)) : e.id = d
    BY <1>2, AddedTyped DEF TypeOK
  <2>4. \A e \in AllAdded(logs) : e.id = d => e \in Added(logs[d], SeqBefore(logs, d))
    BY <1>1
  <2>5. \A e \in inval : e.id = d => e \in UNION {Dropped(logs[c]) : c \in DOMAIN logs}
    BY <2>1 DEF OldKeys
  <2>6. \A e \in inval' : e.id = d => e \in Added(logs[d], SeqBefore(logs, d))
    BY <1>4, <2>4, <2>5
  <2> QED BY <1>4, <2>2, <2>3, <2>6
<1> QED BY <1>5, <1>6

LEMMA ApplyKeepsSequences ==
  ASSUME TypeOK, SequencesUnique, kind' = kind, NEW logs, Applies(logs),
         Known' \subseteq Known \cup AllAdded(logs)
  PROVE  SequencesUnique'
<1> DEFINE c == Cardinality(Puts(logs))
<1>1. rowSeq \in Nat /\ c \in Nat /\ kind \in Kinds
  BY SeqPlaces DEF TypeOK, Applies
<1>2. CASE kind = "mango"
  <2>1. \A e \in AllAdded(logs) : e.seq = 0
    BY <1>1, <1>2, AllAddedTyped DEF Applies
  <2> QED BY <1>2, <2>1 DEF SequencesUnique
<1>3. CASE kind = "view"
  <2>1. rowSeq' = rowSeq + c
    BY <1>3, ApplyStores
  <2>2. /\ \A e \in AllAdded(logs) : e.seq \in (rowSeq + 1)..(rowSeq + c)
        /\ \A e, f \in AllAdded(logs) : e.seq = f.seq => e = f
    BY <1>1, <1>3, AllAddedTyped DEF Applies
  <2>3. \A e \in Known : e.seq \in 1..rowSeq /\ \A f \in Known : f.seq = e.seq => f = e
    BY <1>3 DEF SequencesUnique
  <2> HIDE DEF c
  <2>4. \A e \in Known' : e.seq \in 1..(rowSeq + c)
    BY <1>1, <2>2, <2>3
  <2>5. \A e \in Known : \A f \in AllAdded(logs) : e.seq # f.seq
    BY <1>1, <2>2, <2>3
  <2>6. \A e, f \in Known' : f.seq = e.seq => f = e
    BY <2>2, <2>3, <2>5
  <2> QED BY <1>3, <2>1, <2>4, <2>6 DEF SequencesUnique
<1> QED BY <1>1, <1>2, <1>3 DEF Kinds

\* What a document is left with when its log has settled it.
LEMMA SettledIsExact ==
  ASSUME TypeOK, SequencesUnique, NEW logs, Applies(logs), NEW d \in DOMAIN logs, NEW body,
         Settles(logs[d], body) \in Fns
  PROVE  \A k : EntriesUnder(k, {e \in inval' : e.id = d}) =
                TimesIn(k, KeysOf(Settles(logs[d], body), body))
<1>1. IsLog(logs[d]) /\ logs[d].id = d /\ SeqBefore(logs, d) \in Nat /\ kind \in Kinds
  BY SeqPlaces DEF TypeOK, Applies, AreLogs
<1>2. /\ logs[d].old = OldKeys(d) /\ logs[d].body = body
      /\ Settles(logs[d], body) = logs[d].fn /\ logs[d].fn # NoFn
  BY <1>1, IndexAssumption DEF Settles
<1>3. {e \in inval' : e.id = d} = Added(logs[d], SeqBefore(logs, d))
  BY <1>2, ApplyRecords
<1>4. KeysOf(Settles(logs[d], body), body) = logs[d].new
  BY <1>1, <1>2 DEF IsLog
<1> QED BY <1>1, <1>3, <1>4, AddedExact

LEMMA ApplyKeepsExact ==
  ASSUME TypeOK, SequencesUnique, RowsRemovable, RowsExact, kind' = kind,
         NEW logs, Applies(logs),
         \A d \in Ids \ DOMAIN logs : docs'[d] = docs[d] /\ built'[d] = built[d],
         \A d \in DOMAIN logs : built'[d] = Settles(logs[d], docs'[d])
  PROVE  RowsExact'
<1>1. inval' \subseteq rows'
  BY ApplyKeepsRemovable DEF RowsRemovable
<1>2. SUFFICES ASSUME NEW d \in Ids, built'[d] \in Fns, NEW k \in Keys
               PROVE  EntriesUnder(k, {e \in inval' : e.id = d}) =
                      TimesIn(k, KeysOf(built'[d], docs'[d]))
  BY <1>1 DEF RowsExact, KeysOf, EntriesUnder, TimesIn
<1>3. CASE d \in DOMAIN logs
  BY <1>2, <1>3, SettledIsExact
<1>4. CASE d \notin DOMAIN logs
  <2>1. {e \in inval' : e.id = d} = {e \in inval : e.id = d}
    BY <1>4, ApplyRecords DEF OldKeys
  <2>2. built'[d] = built[d] /\ docs'[d] = docs[d]
    BY <1>4
  <2> QED BY <1>2, <2>1, <2>2 DEF RowsExact
<1> QED BY <1>3, <1>4

-----------------------------------------------------------------------------
(* Steps that leave the index alone, and what they open. *)

LEMMA LogIsLog ==
  ASSUME TypeOK, NEW id \in Ids, NEW body \in Bodies \cup {Deleted}
  PROVE  IsLog(Log(id, body)) /\ Log(id, body).id = id /\ Log(id, body).old \subseteq inval
<1>1. Log(id, body).old \subseteq OldKeys(id) /\ OldKeys(id) \subseteq inval
  BY DEF Log, OldKeys
<1>2. inval \subseteq Entry
  BY DEF TypeOK
<1> QED BY <1>1, <1>2 DEF Log, IsLog, OldKeys, TypeOK

\* A transaction opens, or one ends.
LEMMA WriterMoves ==
  ASSUME DOMAIN writer = Writers, NEW w \in Writers, NEW r,
         writer' = [writer EXCEPT ![w] = r], runner' = runner
  PROVE  /\ DOMAIN writer' = Writers
         /\ writer'[w] = r /\ \A v \in Writers \ {w} : writer'[v] = writer[v]
         /\ Pending' \subseteq Pending \cup (IF r.op = "doc" THEN {r.log} ELSE {})
<1>1. DOMAIN writer' = Writers /\ writer'[w] = r /\ \A v \in Writers \ {w} : writer'[v] = writer[v]
  OBVIOUS
<1>2. ASSUME NEW v \in Writers, writer'[v].op = "doc"
      PROVE  writer'[v].log \in Pending \cup (IF r.op = "doc" THEN {r.log} ELSE {})
  <2>1. CASE v = w
    BY <1>1, <1>2, <2>1
  <2>2. CASE v # w
    BY <1>1, <1>2, <2>2 DEF Pending
  <2> QED BY <2>1, <2>2
<1>3. \A log \in Pending' :
        (\E v \in Writers : writer'[v].op = "doc" /\ log = writer'[v].log) \/ log \in Pending
  BY DEF Pending
<1> QED BY <1>1, <1>2, <1>3

LEMMA RunnerMoves ==
  ASSUME writer' = writer, runner'.at # "commit"
  PROVE  Pending' \subseteq Pending
BY DEF Pending

LEMMA IndexUntouched ==
  ASSUME SequencesUnique, RowsRemovable, RowsExact,
         UNCHANGED <<kind, docs, rows, inval, rowSeq, built>>,
         \A log \in Pending' : log \in Pending \/ log.old \subseteq inval
  PROVE  SequencesUnique' /\ RowsRemovable' /\ RowsExact'
<1>1. Known' \subseteq Known
  BY DEF Known
<1>2. SequencesUnique'
  BY <1>1 DEF SequencesUnique
<1>3. RowsRemovable'
  BY DEF RowsRemovable
<1>4. RowsExact'
  BY DEF RowsExact, KeysOf, EntriesUnder, TimesIn
<1> QED BY <1>2, <1>3, <1>4

\* Types that steps of one part leave alone.
LEMMA TypesUntouched ==
  ASSUME TypeOK, UNCHANGED <<kind, rows, inval, rowSeq, built>>,
         docs' \in [Ids -> Bodies \cup {None, Deleted}],
         {ddoc', source'} \subseteq Functions,
         taskSeq' \in Nat, tasks' \subseteq 1..taskSeq',
         DOMAIN writer' = Writers,
         \A log \in Pending' : log \in Pending \/ IsLog(log)
  PROVE  TypeOK'
<1>1. \A log \in Pending' : IsLog(log)'
  <2>1. \A log \in Pending' : IsLog(log)
    BY DEF TypeOK
  <2> QED BY <2>1 DEF IsLog, KeysOf
<1> QED BY <1>1 DEF TypeOK

-----------------------------------------------------------------------------
(* The runner. *)

LEMMA TasksFinite ==
  ASSUME TypeOK, NEW S \in SUBSET tasks
  PROVE  S \in SUBSET Nat /\ IsFiniteSet(S)
<1>1. taskSeq \in Nat /\ tasks \in SUBSET (1..taskSeq)
  BY DEF TypeOK
<1>2. IsFiniteSet(1..taskSeq) /\ S \in SUBSET (1..taskSeq)
  BY <1>1, FS_Interval
<1>3. IsFiniteSet(S)
  BY <1>2, FS_Subset
<1>4. S \in SUBSET Nat
  BY <1>2
<1> QED BY <1>3, <1>4

LEMMA StoredFinite ==
  ASSUME TypeOK
  PROVE  Stored \in SUBSET Nat /\ IsFiniteSet(Stored) /\ Stored \subseteq Ids
BY IndexAssumption, FS_Subset DEF Stored

LEMMA BehindFirst ==
  ASSUME TypeOK, NEW d \in Ids, docs[d] \in Bodies
  PROVE  Behind(d, 0)
<1>1. d \in Stored
  BY IndexAssumption DEF Stored
<1>2. Rank(d, Stored) \in 1..Cardinality(Stored) /\ Cardinality(Stored) \in Nat
  BY <1>1, StoredFinite, RankRises, FS_CardinalityType
<1>3. BatchSize \in Nat
  BY IndexAssumption
<1> QED BY <1>2, <1>3 DEF Behind

Works == {"read", "update", "commit", "touch"}

LEMMA NextTaskFields ==
  ASSUME TypeOK, RunnerOK, runner.at \in Works, runner' = TaskDone(runner),
         runner.todo \subseteq tasks'
  PROVE  /\ RunnerOK'
         /\ runner'.todo = runner.todo
         /\ runner'.left = runner.left \ Smallest(1, runner.left)
         /\ runner'.page = 0
         /\ runner'.at = IF runner'.left = {} THEN "complete" ELSE "read"
<1> DEFINE r == [runner EXCEPT !.left = @ \ Smallest(1, @), !.batch = <<>>, !.logs = <<>>]
<1>1. DOMAIN runner = {"at", "todo", "left", "page", "batch", "logs"}
  BY DEF RunnerOK, Resting
<1>2. /\ DOMAIN r = DOMAIN runner /\ r.todo = runner.todo
      /\ r.left = runner.left \ Smallest(1, runner.left)
  BY <1>1
<1>3. runner' = [r EXCEPT !.at = IF r.left = {} THEN "complete" ELSE "read", !.page = 0]
  BY DEF TaskDone, NextTask
<1> HIDE DEF r
<1>4. /\ DOMAIN runner' = DOMAIN runner
      /\ runner'.todo = r.todo /\ runner'.left = r.left /\ runner'.page = 0
      /\ runner'.at = IF r.left = {} THEN "complete" ELSE "read"
  BY <1>1, <1>2, <1>3
<1>5. DOMAIN runner' = DOMAIN Resting'
  BY <1>4 DEF RunnerOK, Resting
<1>6. RunnerOK'
  BY <1>2, <1>4, <1>5 DEF RunnerOK
<1> QED BY <1>2, <1>4, <1>6

\* A document that is ahead of another task is ahead when this one is done.
LEMMA AheadOfNext ==
  ASSUME TypeOK, RunnerOK, runner.at \in Works, runner' = TaskDone(runner),
         UNCHANGED <<tasks, docs>>,
         NEW d \in Ids, docs[d] \in Bodies,
         tasks \ runner.todo # {} \/ runner.left \ Smallest(1, runner.left) # {}
  PROVE  Ahead(d)'
<1>1. /\ runner'.todo = runner.todo
      /\ runner'.left = runner.left \ Smallest(1, runner.left)
      /\ runner'.page = 0
      /\ runner'.at = IF runner'.left = {} THEN "complete" ELSE "read"
  BY NextTaskFields DEF RunnerOK
<1>2. Behind(d, 0)
  BY BehindFirst
<1>3. CASE tasks \ runner.todo # {}
  BY <1>1, <1>3 DEF Ahead
<1>4. CASE runner'.left # {}
  BY <1>1, <1>2, <1>4 DEF Ahead, Behind, Stored
<1> QED BY <1>1, <1>3, <1>4

\* What is ahead of the runner stays so while the runner rests, whatever
\* documents and tasks come.
LEMMA AheadStays ==
  ASSUME TypeOK, TypeOK', RunnerOK, StaleIsAhead, UNCHANGED <<ddoc, runner, abandoned>>,
         ~astray' => ~astray, tasks \subseteq tasks', Stored \subseteq Stored',
         ~astray' /\ ddoc # NoFn => \A d \in Ids : Stale(d)' => Stale(d)
  PROVE  StaleIsAhead'
<1>1. SUFFICES ASSUME ~abandoned, ~astray', ddoc # NoFn, NEW d \in Ids, Stale(d)'
               PROVE  Ahead(d)'
  BY DEF StaleIsAhead
<1>2. Ahead(d)
  BY <1>1 DEF StaleIsAhead
<1>3. Stored' \in SUBSET Nat /\ IsFiniteSet(Stored')
  BY IndexAssumption, FS_Subset DEF Stored
<1>4. Rank(d, Stored) \in Nat /\ Rank(d, Stored)' \in Nat /\ Rank(d, Stored) <= Rank(d, Stored)'
  <2>1. Rank(d, Stored)' = Rank(d, Stored')
    BY DEF Rank
  <2>2. Stored \in SUBSET Stored'
    OBVIOUS
  <2> QED BY <1>3, <2>1, <2>2, RankGrows
<1>5. \A p \in Nat : Behind(d, p) => Behind(d, p)'
  <2>1. \A p \in Nat : p * BatchSize \in Nat
    BY IndexAssumption
  <2>2. \A x, y, z \in Nat : x > z /\ x <= y => y > z
    OBVIOUS
  <2> QED BY <1>4, <2>1, <2>2 DEF Behind
<1>6. runner.page \in Nat /\ runner.page + 1 \in Nat
  BY DEF RunnerOK
<1>7. /\ Behind(d, runner.page) => Behind(d, runner.page)'
      /\ Behind(d, runner.page + 1) => Behind(d, runner.page + 1)'
  BY <1>5, <1>6 DEF Behind
<1> QED BY <1>2, <1>7 DEF Ahead, FullPage

-----------------------------------------------------------------------------
(* Every step keeps the invariant.  First the clients'. *)

\* What a log leaves its document indexed by.
LEMMA SettlesIn ==
  ASSUME NEW log, NEW body
  PROVE  /\ Settles(log, body) \in {log.fn, Mixed}
         /\ InStep /\ ~astray /\ ddoc # NoFn => Settles(log, body) \in {ddoc, Mixed}
BY DEF Settles, InStep

\* Steps that leave the design documents alone.
LEMMA InStepStays ==
  ASSUME InStep, UNCHANGED <<ddoc, source, astray>>, DesignOpen => DesignOpen'
  PROVE  InStep'
BY DEF InStep

LEMMA RunnerRests ==
  ASSUME RunnerOK, runner' = runner, tasks \subseteq tasks'
  PROVE  RunnerOK'
BY DEF RunnerOK, Resting

LEMMA BeginWriteKeeps ==
  ASSUME IndexInv, NEW w \in Writers, NEW id \in Ids, NEW body \in Bodies \cup {Deleted},
         BeginWrite(w, id, body)
  PROVE  IndexInv'
<1> USE DEF IndexInv
<1> DEFINE log == Log(id, body)
           r == [op |-> "doc", log |-> log]
<1>1. /\ writer' = [writer EXCEPT ![w] = r]
      /\ UNCHANGED <<kind, docs, ddoc, bucket, rows, inval, rowSeq, tasks, taskSeq, source,
                     runner, built, abandoned, astray>>
      /\ writer[w].op = "idle"
  BY DEF BeginWrite, disk, ghosts
<1>2. IsLog(log) /\ log.old \subseteq inval
  BY LogIsLog
<1>3. r.op = "doc" /\ r.log = log
  OBVIOUS
<1>4. /\ DOMAIN writer' = Writers
      /\ writer'[w] = r /\ \A v \in Writers \ {w} : writer'[v] = writer[v]
      /\ Pending' \subseteq Pending \cup {log}
  <2> HIDE DEF r
  <2> QED BY <1>1, <1>3, WriterMoves DEF TypeOK
<1> HIDE DEF log, r
<1>5. TypeOK'
  BY <1>1, <1>2, <1>4, TypesUntouched DEF TypeOK
<1>6. RunnerOK'
  BY <1>1, RunnerRests
<1>7. SequencesUnique' /\ RowsRemovable' /\ RowsExact'
  BY <1>1, <1>2, <1>4, IndexUntouched
<1>8. StoredIsRegistered'
  BY <1>1, <1>3, <1>4 DEF StoredIsRegistered
<1>9. StaleIsAhead'
  BY <1>1, <1>5, AheadStays DEF Stored, Stale
<1>10. InStep'
  <2>1. DesignOpen => DesignOpen'
    BY <1>1, <1>4 DEF DesignOpen
  <2> QED BY <1>1, <2>1, InStepStays
<1> QED BY <1>5, <1>6, <1>7, <1>8, <1>9, <1>10

LEMMA CommitWriteKeeps ==
  ASSUME IndexInv, NEW w \in Writers, CommitWrite(w)
  PROVE  IndexInv'
<1> USE DEF IndexInv
<1> DEFINE log == writer[w].log
           logs == [d \in {log.id} |-> log]
<1>1. /\ writer[w].op = "doc" /\ writer' = [writer EXCEPT ![w] = Idle]
      /\ UNCHANGED <<kind, ddoc, bucket, tasks, taskSeq, source, runner, abandoned,
                     astray>>
  BY DEF CommitWrite
<1>2. log \in Pending /\ IsLog(log)
  BY <1>1 DEF TypeOK, Pending
<1>3. /\ DOMAIN writer' = Writers
      /\ writer'[w] = Idle /\ \A v \in Writers \ {w} : writer'[v] = writer[v]
      /\ Pending' \subseteq Pending
  <2>1. Idle.op # "doc"
    BY DEF Idle
  <2> QED BY <1>1, <2>1, WriterMoves DEF TypeOK
<1>4. RunnerOK'
  BY <1>1, RunnerRests
<1>5. StoredIsRegistered' /\ InStep'
  <2>1. DesignOpen => DesignOpen'
    BY <1>1, <1>3 DEF DesignOpen
  <2> QED BY <1>1, <1>3, <2>1, InStepStays DEF StoredIsRegistered, Idle
<1>6. CASE ~Commits(logs)
  <2>1. UNCHANGED <<rows, inval, rowSeq, docs, built>>
    BY <1>6 DEF CommitWrite
  <2>2. TypeOK'
    BY <1>1, <1>3, <2>1, TypesUntouched DEF TypeOK
  <2>3. SequencesUnique' /\ RowsRemovable' /\ RowsExact'
    BY <1>1, <1>3, <2>1, IndexUntouched
  <2>4. StaleIsAhead'
    BY <1>1, <2>1, <2>2, AheadStays DEF Stored, Stale
  <2> QED BY <1>4, <1>5, <2>2, <2>3, <2>4
<1>7. CASE Commits(logs)
  <2>1. /\ Apply(logs)
        /\ docs' = [docs EXCEPT ![log.id] = log.body]
        /\ built' = [built EXCEPT ![log.id] = Settles(log, log.body)]
    BY <1>7 DEF CommitWrite
  <2>2. DOMAIN logs = {log.id} /\ logs[log.id] = log
    OBVIOUS
  <2>3. log.id \in Ids /\ log.body \in Bodies \cup {Deleted} /\ log.fn \in Functions
    BY <1>2 DEF IsLog
  <2>4. /\ ~astray /\ ddoc # NoFn => Settles(log, log.body) \in {ddoc, Mixed}
        /\ Settles(log, log.body) \in Functions \cup {Mixed}
    BY <2>3, SettlesIn
  <2>5. /\ docs'[log.id] = log.body /\ built'[log.id] = Settles(log, log.body)
        /\ \A d \in Ids \ {log.id} : docs'[d] = docs[d] /\ built'[d] = built[d]
    BY <2>1, <2>3 DEF TypeOK
  <2> HIDE DEF log
  <2>6. AreLogs(logs)
    BY <1>2, <2>2, <2>3 DEF AreLogs
  <2>7. Applies(logs)
    BY <1>2, <2>1, <2>2, <2>6 DEF Applies
  <2> HIDE DEF logs
  <2>8. rows' \cup inval' \subseteq rows \cup inval \cup AllAdded(logs) /\ rowSeq' \in Nat
    BY <2>7, ApplyStores
  <2>9. AllAdded(logs) \subseteq Entry
    BY <2>7, AllAddedTyped DEF TypeOK, Applies
  <2>10. TypeOK'
    <3>1. docs' \in [Ids -> Bodies \cup {None, Deleted}] /\ built' \in [Ids -> Functions \cup {Mixed}]
      BY <2>1, <2>3, <2>4 DEF TypeOK
    <3>2. rows' \cup inval' \subseteq Entry
      BY <2>8, <2>9 DEF TypeOK
    <3>3. \A l \in Pending' : IsLog(l)'
      <4>1. \A l \in Pending' : IsLog(l)
        BY <1>3 DEF TypeOK
      <4> QED BY <1>1, <4>1 DEF IsLog, KeysOf
    <3> QED BY <1>1, <1>3, <2>8, <3>1, <3>2, <3>3 DEF TypeOK
  <2>11. RowsRemovable'
    BY <1>1, <2>7, ApplyKeepsRemovable
  <2>12. RowsExact'
    <3>1. \A d \in Ids \ DOMAIN logs : docs'[d] = docs[d] /\ built'[d] = built[d]
      BY <2>2, <2>5
    <3>2. \A d \in DOMAIN logs : built'[d] = Settles(logs[d], docs'[d])
      BY <2>2, <2>5
    <3> QED BY <1>1, <2>7, <3>1, <3>2, ApplyKeepsExact
  <2>13. SequencesUnique'
    <3>1. Known' \subseteq Known \cup AllAdded(logs)
      BY <1>3, <2>8 DEF Known
    <3> QED BY <1>1, <2>7, <3>1, ApplyKeepsSequences
  <2>14. StaleIsAhead'
    <3>1. Stored \subseteq Stored'
      <4>1. log.body # None
        BY <2>3, IndexAssumption DEF None, Deleted
      <4> QED BY <2>5, <4>1 DEF Stored
    <3>2. ~astray /\ ddoc # NoFn => \A d \in Ids : Stale(d)' => Stale(d)
      BY <1>1, <2>4, <2>5 DEF Stale
    <3> QED BY <1>1, <2>10, <3>1, <3>2, AheadStays
  <2> QED BY <1>4, <1>5, <2>10, <2>11, <2>12, <2>13, <2>14
<1> QED BY <1>6, <1>7

LEMMA BeginDesignKeeps ==
  ASSUME IndexInv, NEW w \in Writers, NEW fn \in Functions, BeginDesign(w, fn)
  PROVE  IndexInv'
<1> USE DEF IndexInv
<1> DEFINE r == [op |-> "design", fn |-> fn, task |-> QueuesTask(fn),
                 ensure |-> fn # NoFn /\ source = NoFn]
<1>1. /\ writer' = [writer EXCEPT ![w] = r]
      /\ source' = IF fn = NoFn THEN source ELSE fn
      /\ UNCHANGED <<kind, docs, ddoc, bucket, rows, inval, rowSeq, tasks, taskSeq,
                     runner, built, abandoned, astray>>
  BY DEF BeginDesign, disk, ghosts
<1>2. r.op = "design" /\ r.fn = fn /\ (r.task <=> fn # NoFn)
  BY DEF QueuesTask
<1> HIDE DEF r
<1>3. /\ DOMAIN writer' = Writers
      /\ writer'[w] = r /\ \A v \in Writers \ {w} : writer'[v] = writer[v]
      /\ Pending' \subseteq Pending
  BY <1>1, <1>2, WriterMoves DEF TypeOK
<1>4. TypeOK'
  BY <1>1, <1>3, TypesUntouched DEF TypeOK
<1>5. RunnerOK'
  BY <1>1, RunnerRests
<1>6. SequencesUnique' /\ RowsRemovable' /\ RowsExact'
  BY <1>1, <1>3, IndexUntouched
<1>7. StoredIsRegistered'
  <2>1. source # NoFn => source' # NoFn
    BY <1>1
  <2>2. fn # NoFn => source' # NoFn
    BY <1>1
  <2> QED BY <1>1, <1>2, <1>3, <2>1, <2>2 DEF StoredIsRegistered
<1>8. StaleIsAhead'
  BY <1>1, <1>4, AheadStays DEF Stored, Stale
<1>9. InStep'
  BY <1>2, <1>3 DEF InStep, DesignOpen
<1> QED BY <1>4, <1>5, <1>6, <1>7, <1>8, <1>9

LEMMA CommitDesignKeeps ==
  ASSUME IndexInv, NEW w \in Writers, CommitDesign(w)
  PROVE  IndexInv'
<1> USE DEF IndexInv
<1>1. /\ writer[w].op = "design" /\ writer' = [writer EXCEPT ![w] = Idle]
      /\ ddoc' = writer[w].fn
      /\ tasks' = IF writer[w].task THEN tasks \cup {taskSeq + 1} ELSE tasks
      /\ taskSeq' = IF writer[w].task THEN taskSeq + 1 ELSE taskSeq
      /\ UNCHANGED <<kind, docs, rows, inval, rowSeq, source, runner, built, abandoned>>
  BY DEF CommitDesign, ghosts
<1>2. /\ writer[w].fn \in Functions
      /\ writer[w].fn # NoFn => writer[w].task /\ source # NoFn
  BY <1>1 DEF StoredIsRegistered
<1>3. /\ DOMAIN writer' = Writers
      /\ writer'[w] = Idle /\ \A v \in Writers \ {w} : writer'[v] = writer[v]
      /\ Pending' \subseteq Pending
  <2>1. Idle.op # "doc"
    BY DEF Idle
  <2> QED BY <1>1, <2>1, WriterMoves DEF TypeOK
<1>4. taskSeq \in Nat /\ tasks \subseteq 1..taskSeq
  BY DEF TypeOK
<1>5. taskSeq' \in Nat /\ tasks' \subseteq 1..taskSeq' /\ tasks \subseteq tasks'
  BY <1>1, <1>4
<1>6. TypeOK'
  BY <1>1, <1>2, <1>3, <1>5, TypesUntouched DEF TypeOK
<1>7. RunnerOK'
  BY <1>1, <1>5, RunnerRests
<1>8. SequencesUnique' /\ RowsRemovable' /\ RowsExact'
  BY <1>1, <1>3, IndexUntouched
<1>9. StoredIsRegistered'
  BY <1>1, <1>2, <1>3 DEF StoredIsRegistered, Idle
<1>10. StaleIsAhead'
  <2>1. SUFFICES ASSUME ddoc' # NoFn PROVE tasks' \ runner'.todo # {}
    BY DEF StaleIsAhead, Ahead
  <2>2. taskSeq + 1 \in tasks'
    BY <1>1, <1>2, <2>1
  <2>3. runner.todo \subseteq 1..taskSeq
    BY <1>4 DEF RunnerOK
  <2>4. taskSeq + 1 \notin 1..taskSeq
    BY <1>4
  <2> QED BY <1>1, <2>2, <2>3, <2>4
<1>11. InStep'
  BY DEF CommitDesign, GoesAstray, InStep
<1> QED BY <1>6, <1>7, <1>8, <1>9, <1>10, <1>11

LEMMA RejectDesignKeeps ==
  ASSUME IndexInv, NEW fn \in Fns, RejectDesign(fn)
  PROVE  IndexInv'
<1> USE DEF IndexInv
<1>1. /\ source' = fn /\ fn # NoFn /\ fn \in Functions
      /\ UNCHANGED <<kind, docs, ddoc, bucket, rows, inval, rowSeq, tasks, taskSeq,
                     writer, runner, built, abandoned>>
  BY IndexAssumption DEF RejectDesign, disk, ghosts, Functions
<1>2. Pending' = Pending
  BY <1>1 DEF Pending
<1>3. TypeOK'
  BY <1>1, <1>2, TypesUntouched DEF TypeOK
<1>4. RunnerOK'
  BY <1>1, RunnerRests
<1>5. SequencesUnique' /\ RowsRemovable' /\ RowsExact'
  BY <1>1, <1>2, IndexUntouched
<1>6. StoredIsRegistered'
  BY <1>1 DEF StoredIsRegistered
<1>7. GoesAstray
  BY DEF RejectDesign
<1>8. StaleIsAhead'
  <2>1. ~astray' => ~astray
    BY <1>7 DEF GoesAstray
  <2> QED BY <1>1, <1>3, <2>1, AheadStays DEF Stored, Stale
<1>9. InStep'
  BY <1>7 DEF GoesAstray, InStep
<1> QED BY <1>3, <1>4, <1>5, <1>6, <1>8, <1>9

-----------------------------------------------------------------------------
(* The steps of the runner. *)

\* Steps that change nothing but the runner, and perhaps give a rebuild up.
LEMMA OnlyRunner ==
  ASSUME IndexInv, UNCHANGED <<kind, disk, source, writer, built, astray>>,
         \A log \in Pending' : log \in Pending \/ (IsLog(log) /\ log.old \subseteq inval),
         RunnerOK', StaleIsAhead'
  PROVE  IndexInv'
<1> USE DEF IndexInv
<1>1. UNCHANGED <<kind, docs, ddoc, bucket, rows, inval, rowSeq, tasks, taskSeq, source, writer, built,
                 astray>>
  BY DEF disk
<1>2. TypeOK'
  BY <1>1, TypesUntouched DEF TypeOK
<1>3. SequencesUnique' /\ RowsRemovable' /\ RowsExact'
  BY <1>1, IndexUntouched
<1>4. StoredIsRegistered' /\ InStep'
  BY <1>1, InStepStays DEF StoredIsRegistered, DesignOpen
<1> QED BY <1>2, <1>3, <1>4

\* The task in hand is done with, whether or not it was of any use.
LEMMA TaskDoneKeeps ==
  ASSUME IndexInv, runner.at \in Works, runner' = TaskDone(runner),
         UNCHANGED <<kind, disk, source, writer, built, astray>>,
         ~abandoned' => ~abandoned,
         ~abandoned' /\ ~astray /\ ddoc # NoFn => \A d \in Ids : Stale(d) =>
           tasks \ runner.todo # {} \/ runner.left \ Smallest(1, runner.left) # {}
  PROVE  IndexInv'
<1>1. TypeOK /\ RunnerOK
  BY DEF IndexInv
<1>2. UNCHANGED <<docs, ddoc, tasks, writer, built, astray>>
  BY DEF disk
<1>3. RunnerOK' /\ runner'.at # "commit"
  BY <1>1, <1>2, NextTaskFields DEF RunnerOK
<1>4. Pending' \subseteq Pending
  BY <1>2, <1>3, RunnerMoves
<1>5. StaleIsAhead'
  <2>1. SUFFICES ASSUME ~abandoned', ~astray, ddoc # NoFn, NEW d \in Ids, Stale(d)'
               PROVE  Ahead(d)'
    BY <1>2 DEF StaleIsAhead
  <2>2. Stale(d) /\ docs[d] \in Bodies
    BY <1>2, <2>1 DEF Stale
  <2> QED BY <1>1, <1>2, <2>1, <2>2, AheadOfNext
<1> QED BY <1>3, <1>4, <1>5, OnlyRunner

LEMMA TakeTasksKeeps ==
  ASSUME IndexInv, TakeTasks
  PROVE  IndexInv'
<1> DEFINE r == [Resting EXCEPT !.todo = FirstTasks, !.left = FirstTasks]
<1>1. /\ runner.at = "idle"
      /\ UNCHANGED <<kind, disk, source, writer, built, astray>> /\ UNCHANGED abandoned
      /\ UNCHANGED <<docs, ddoc, tasks, writer, built>>
  BY DEF TakeTasks, ghosts, disk
<1>2. /\ DOMAIN r = DOMAIN Resting
      /\ r.todo = FirstTasks /\ r.left = FirstTasks
  BY DEF Resting
<1>3. runner' = [r EXCEPT !.at = IF r.left = {} THEN "complete" ELSE "read", !.page = 0]
  BY DEF TakeTasks, NextTask
<1>4. DOMAIN Resting = {"at", "todo", "left", "page", "batch", "logs"}
  BY DEF Resting
<1> HIDE DEF r
<1>5. /\ DOMAIN runner' = DOMAIN Resting'
      /\ runner'.todo = FirstTasks /\ runner'.left = FirstTasks /\ runner'.page = 0
      /\ runner'.at = IF runner'.left = {} THEN "complete" ELSE "read"
  BY <1>2, <1>3, <1>4 DEF Resting
<1>6. FirstTasks \subseteq tasks
  BY DEF FirstTasks, Smallest
<1>7. RunnerOK'
  BY <1>1, <1>5, <1>6 DEF RunnerOK
<1>8. Pending' \subseteq Pending
  BY <1>1, <1>5, RunnerMoves
<1>9. StaleIsAhead'
  <2>1. SUFFICES ASSUME ~abandoned, ~astray, ddoc # NoFn, NEW d \in Ids, Stale(d) PROVE Ahead(d)'
    BY <1>1 DEF StaleIsAhead, Stale
  <2>2. Ahead(d) /\ runner.todo = {} /\ runner.left = {}
    BY <1>1, <2>1 DEF IndexInv, StaleIsAhead, RunnerOK
  <2>3. tasks # {}
    BY <1>1, <2>2 DEF Ahead
  <2>4. CASE FirstTasks = {}
    BY <1>1, <1>5, <2>3, <2>4 DEF Ahead
  <2>5. CASE FirstTasks # {}
    <3>1. Behind(d, 0)
      BY <2>1, BehindFirst DEF IndexInv, Stale
    <3> QED BY <1>1, <1>5, <2>5, <3>1 DEF Ahead, Behind, Stored
  <2> QED BY <2>4, <2>5
<1> QED BY <1>1, <1>7, <1>8, <1>9, OnlyRunner

LEMMA NoIndexKeeps ==
  ASSUME IndexInv, NoIndex
  PROVE  IndexInv'
<1>1. /\ runner.at \in Works /\ runner' = TaskDone(runner)
      /\ UNCHANGED <<kind, disk, source, writer, built, astray>> /\ UNCHANGED abandoned
      /\ source = NoFn
  BY DEF NoIndex, ghosts, Works
<1>2. ddoc = NoFn
  BY <1>1 DEF IndexInv, StoredIsRegistered
<1> QED BY <1>1, <1>2, TaskDoneKeeps

\* A page that does not hold a document the runner has not passed is full, and
\* the document is behind the next one.
LEMMA PageReaches ==
  ASSUME TypeOK, RunnerOK, NEW d \in Ids, docs[d] \in Bodies, Behind(d, runner.page)
  PROVE  /\ PageOf(runner.page) # {}
         /\ d \in PageOf(runner.page) \/
              (Cardinality(PageOf(runner.page)) = BatchSize /\ Behind(d, runner.page + 1))
<1> DEFINE U == Unread(runner.page)
           k == runner.page * BatchSize
<1>1. Stored \in SUBSET Nat /\ IsFiniteSet(Stored)
  BY StoredFinite
<1>2. runner.page \in Nat /\ BatchSize \in Nat \ {0}
  BY IndexAssumption DEF RunnerOK
<1>3. k \in Nat /\ (runner.page + 1) * BatchSize = k + BatchSize
  BY <1>2
<1>4. d \in U
  BY IndexAssumption DEF Unread, Behind, Stored
<1>5. U \subseteq {m \in Stored : Rank(m, Stored) > k}
  BY DEF Unread
<1>6. U \in SUBSET Nat /\ IsFiniteSet(U)
  <2>1. U \in SUBSET Stored
    BY DEF Unread
  <2> HIDE DEF U
  <2> QED BY <1>1, <2>1, FS_Subset
<1>7. PageOf(runner.page) = Smallest(BatchSize, U)
  BY DEF PageOf
<1>8. PageOf(runner.page) # {}
  <2> HIDE DEF U
  <2> QED BY <1>2, <1>4, <1>6, <1>7, SmallestIn
<1>9. ASSUME d \notin Smallest(BatchSize, U)
      PROVE  Cardinality(Smallest(BatchSize, U)) = BatchSize /\ Rank(d, Stored) > k + BatchSize
  <2>1. BatchSize \in Nat
    BY <1>2
  <2> HIDE DEF U, k
  <2> QED BY <1>1, <1>3, <1>4, <1>5, <1>9, <2>1, LeftOutIsBehind
<1> QED BY <1>3, <1>7, <1>8, <1>9 DEF Behind

LEMMA ReadPageKeeps ==
  ASSUME IndexInv, ReadPage
  PROVE  IndexInv'
<1> DEFINE page == PageOf(runner.page)
           batch == [d \in page |-> docs[d]]
<1>1. /\ runner.at = "read" /\ runner.at \in Works
      /\ UNCHANGED <<kind, disk, source, writer, built, astray>> /\ UNCHANGED abandoned
      /\ UNCHANGED <<docs, ddoc, tasks, writer, built>>
      /\ runner' = IF page = {} THEN TaskDone(runner)
                   ELSE [runner EXCEPT !.at = "update", !.batch = batch]
  BY DEF ReadPage, ghosts, disk, Works
<1>2. TypeOK /\ RunnerOK
  BY DEF IndexInv
<1>3. ASSUME ~abandoned, ~astray, ddoc # NoFn, NEW d \in Ids, Stale(d)
      PROVE  \/ tasks \ runner.todo # {} \/ runner.left \ Smallest(1, runner.left) # {}
             \/ page # {} /\ (d \in page \/ (Cardinality(page) = BatchSize /\ Behind(d, runner.page + 1)))
  <2>1. Ahead(d) /\ docs[d] \in Bodies
    BY <1>3 DEF IndexInv, StaleIsAhead, Stale
  <2> QED BY <1>1, <1>2, <2>1, PageReaches DEF Ahead
<1>4. CASE page = {}
  BY <1>1, <1>3, <1>4, TaskDoneKeeps
<1>5. CASE page # {}
  <2>1. page \subseteq Ids /\ \A d \in page : docs[d] \in Bodies
    BY DEF PageOf, Unread, Smallest, Stored
  <2>2. DOMAIN batch = page /\ \A d \in page : batch[d] = docs[d]
    OBVIOUS
  <2>3. DOMAIN runner = {"at", "todo", "left", "page", "batch", "logs"}
    BY <1>2 DEF RunnerOK, Resting
  <2> HIDE DEF batch, page
  <2>4. /\ DOMAIN runner' = DOMAIN runner
        /\ runner'.at = "update" /\ runner'.batch = batch
        /\ runner'.todo = runner.todo /\ runner'.left = runner.left /\ runner'.page = runner.page
    BY <1>1, <1>5, <2>3
  <2>5. RunnerOK'
    <3>1. DOMAIN runner' = DOMAIN Resting'
      BY <1>2, <2>4 DEF RunnerOK, Resting
    <3> QED BY <1>1, <1>2, <2>1, <2>2, <2>4, <3>1 DEF RunnerOK
  <2>6. Pending' \subseteq Pending
    BY <1>1, <2>4, RunnerMoves
  <2>7. StaleIsAhead'
    <3>1. SUFFICES ASSUME ~abandoned, ~astray, ddoc # NoFn, NEW d \in Ids, Stale(d) PROVE Ahead(d)'
      BY <1>1 DEF StaleIsAhead, Stale
    <3>2. Behind(d, runner.page + 1) => Behind(d, runner.page + 1)'
      BY <1>1, <2>4 DEF Behind, Stored
    <3> QED BY <1>1, <1>3, <2>2, <2>4, <3>1, <3>2 DEF Ahead, FullPage
  <2> QED BY <1>1, <2>5, <2>6, <2>7, OnlyRunner
<1> QED BY <1>4, <1>5

LEMMA UpdatePageKeeps ==
  ASSUME IndexInv, UpdatePage
  PROVE  IndexInv'
<1> DEFINE logs == [d \in DOMAIN runner.batch |-> Log(d, runner.batch[d])]
<1>1. /\ runner.at = "update"
      /\ UNCHANGED <<kind, disk, source, writer, built, astray>> /\ UNCHANGED abandoned
      /\ UNCHANGED <<docs, ddoc, tasks, writer, built>>
      /\ runner' = [runner EXCEPT !.at = "commit", !.logs = logs]
  BY DEF UpdatePage, ghosts, disk
<1>2. TypeOK /\ RunnerOK
  BY DEF IndexInv
<1>3. DOMAIN runner.batch \subseteq Ids /\ \A d \in DOMAIN runner.batch : runner.batch[d] \in Bodies
  BY <1>1, <1>2 DEF RunnerOK
<1>4. DOMAIN logs = DOMAIN runner.batch /\ \A d \in DOMAIN logs :
        logs[d].id = d /\ IsLog(logs[d]) /\ logs[d].old \subseteq inval
  <2>1. DOMAIN logs = DOMAIN runner.batch /\ \A d \in DOMAIN logs : logs[d] = Log(d, runner.batch[d])
    OBVIOUS
  <2> HIDE DEF logs
  <2> QED BY <1>2, <1>3, <2>1, LogIsLog
<1>5. DOMAIN runner = {"at", "todo", "left", "page", "batch", "logs"}
  BY <1>2 DEF RunnerOK, Resting
<1> HIDE DEF logs
<1>6. /\ DOMAIN runner' = DOMAIN runner
      /\ runner'.at = "commit" /\ runner'.logs = logs /\ runner'.batch = runner.batch
      /\ runner'.todo = runner.todo /\ runner'.left = runner.left /\ runner'.page = runner.page
  BY <1>1, <1>5
<1>7. RunnerOK'
  <2>1. DOMAIN runner' = DOMAIN Resting'
    BY <1>2, <1>6 DEF RunnerOK, Resting
  <2> QED BY <1>1, <1>2, <1>4, <1>6, <2>1 DEF RunnerOK
<1>8. \A log \in Pending' : log \in Pending \/ (IsLog(log) /\ log.old \subseteq inval)
  BY <1>1, <1>4, <1>6 DEF Pending
<1>9. StaleIsAhead'
  <2>1. SUFFICES ASSUME ~abandoned, ~astray, ddoc # NoFn, NEW d \in Ids, Stale(d) PROVE Ahead(d)'
    BY <1>1 DEF StaleIsAhead, Stale
  <2>2. Ahead(d)
    BY <2>1 DEF IndexInv, StaleIsAhead
  <2>3. Behind(d, runner.page + 1) => Behind(d, runner.page + 1)'
    BY <1>1, <1>6 DEF Behind, Stored
  <2> QED BY <1>1, <1>6, <2>2, <2>3 DEF Ahead, FullPage
<1> QED BY <1>1, <1>7, <1>8, <1>9, OnlyRunner

LEMMA CommitPageKeeps ==
  ASSUME IndexInv, CommitPage
  PROVE  IndexInv'
<1> DEFINE logs == runner.logs
<1>1. /\ runner.at = "commit" /\ runner.at \in Works
      /\ UNCHANGED <<kind, docs, ddoc, bucket, tasks, taskSeq, source, writer, astray>>
  BY DEF CommitPage, Works
<1>2. TypeOK /\ RunnerOK /\ SequencesUnique /\ RowsRemovable /\ RowsExact
  BY DEF IndexInv
<1>3. CASE ~Commits(logs)
  <2>1. /\ runner' = TaskDone(runner) /\ abandoned'
        /\ UNCHANGED <<kind, disk, source, writer, built, astray>>
    BY <1>1, <1>3 DEF CommitPage, disk
  <2> QED BY <1>1, <2>1, TaskDoneKeeps
<1>4. CASE Commits(logs)
  <2>1. /\ Apply(logs)
        /\ built' = [d \in Ids |-> IF d \in DOMAIN logs THEN Settles(logs[d], docs[d]) ELSE built[d]]
        /\ runner' = [runner EXCEPT !.at = "touch"] /\ UNCHANGED abandoned
    BY <1>4 DEF CommitPage
  <2>2. /\ DOMAIN logs = DOMAIN runner.batch /\ DOMAIN logs \subseteq Ids
        /\ \A d \in DOMAIN logs : logs[d].id = d /\ logs[d] \in Pending /\ IsLog(logs[d])
    BY <1>1, <1>2 DEF RunnerOK, TypeOK, Pending
  <2>3. Applies(logs)
    BY <2>1, <2>2 DEF Applies, AreLogs
  <2>4. DOMAIN runner = {"at", "todo", "left", "page", "batch", "logs"}
    BY <1>2 DEF RunnerOK, Resting
  <2>5. /\ DOMAIN runner' = DOMAIN runner
        /\ runner'.at = "touch" /\ runner'.batch = runner.batch
        /\ runner'.todo = runner.todo /\ runner'.left = runner.left /\ runner'.page = runner.page
    BY <2>1, <2>4
  <2>6. RunnerOK'
    <3>1. DOMAIN runner' = DOMAIN Resting'
      BY <1>2, <2>5 DEF RunnerOK, Resting
    <3> QED BY <1>1, <1>2, <2>5, <3>1 DEF RunnerOK
  <2>7. Pending' \subseteq Pending
    BY <1>1, <2>5, RunnerMoves
  <2> HIDE DEF logs
  <2>8. rows' \cup inval' \subseteq rows \cup inval \cup AllAdded(logs) /\ rowSeq' \in Nat
    BY <1>2, <2>3, ApplyStores
  <2>9. AllAdded(logs) \subseteq Entry
    BY <1>2, <2>3, AllAddedTyped DEF TypeOK, Applies
  <2>10. \A d \in DOMAIN logs :
           /\ Settles(logs[d], docs[d]) \in Functions \cup {Mixed}
           /\ ~astray /\ ddoc # NoFn => Settles(logs[d], docs[d]) \in {ddoc, Mixed}
    BY <2>2, SettlesIn DEF IndexInv, IsLog
  <2>11. TypeOK'
    <3>1. built' \in [Ids -> Functions \cup {Mixed}]
      BY <1>2, <2>1, <2>10 DEF TypeOK
    <3>2. rows' \cup inval' \subseteq Entry
      BY <1>2, <2>8, <2>9 DEF TypeOK
    <3>3. \A l \in Pending' : IsLog(l)'
      <4>1. \A l \in Pending' : IsLog(l)
        BY <1>2, <2>7 DEF TypeOK
      <4> QED BY <1>1, <4>1 DEF IsLog, KeysOf
    <3> QED BY <1>1, <1>2, <2>8, <3>1, <3>2, <3>3 DEF TypeOK
  <2>12. RowsRemovable'
    BY <1>1, <1>2, <2>3, ApplyKeepsRemovable
  <2>13. RowsExact'
    <3>1. \A d \in Ids \ DOMAIN logs : docs'[d] = docs[d] /\ built'[d] = built[d]
      BY <1>1, <2>1
    <3>2. \A d \in DOMAIN logs : built'[d] = Settles(logs[d], docs'[d])
      BY <1>1, <2>1, <2>2
    <3> QED BY <1>1, <1>2, <2>3, <3>1, <3>2, ApplyKeepsExact
  <2>14. SequencesUnique'
    <3>1. Known' \subseteq Known \cup AllAdded(logs)
      BY <2>7, <2>8 DEF Known
    <3> QED BY <1>1, <1>2, <2>3, <3>1, ApplyKeepsSequences
  <2>15. StoredIsRegistered' /\ InStep'
    BY <1>1, InStepStays DEF IndexInv, StoredIsRegistered, DesignOpen
  <2>16. StaleIsAhead'
    <3>1. SUFFICES ASSUME ~abandoned, ~astray, ddoc # NoFn, NEW d \in Ids, Stale(d)' PROVE Ahead(d)'
      BY <1>1, <2>1 DEF StaleIsAhead
    <3>2. d \notin DOMAIN logs
      BY <1>1, <2>1, <2>10, <3>1 DEF Stale
    <3>3. Stale(d)
      BY <1>1, <2>1, <3>1, <3>2 DEF Stale
    <3>4. Ahead(d)
      BY <3>1, <3>3 DEF IndexInv, StaleIsAhead
    <3>5. Behind(d, runner.page + 1) => Behind(d, runner.page + 1)'
      BY <1>1, <2>5 DEF Behind, Stored
    <3> QED BY <1>1, <2>2, <2>5, <3>2, <3>4, <3>5 DEF Ahead, FullPage
  <2> QED BY <2>6, <2>11, <2>12, <2>13, <2>14, <2>15, <2>16 DEF IndexInv
<1> QED BY <1>3, <1>4

LEMMA SaveProgressKeeps ==
  ASSUME IndexInv, SaveProgress
  PROVE  IndexInv'
<1>1. TypeOK /\ RunnerOK
  BY DEF IndexInv
<1>2. Smallest(1, runner.left) \subseteq tasks
  BY <1>1 DEF RunnerOK, Smallest
<1>3. /\ runner.at = "touch" /\ runner.at \in Works
      /\ tasks' = tasks
      /\ runner' = IF Cardinality(DOMAIN runner.batch) < BatchSize THEN TaskDone(runner)
                   ELSE [runner EXCEPT !.at = "read", !.page = @ + 1, !.batch = <<>>, !.logs = <<>>]
      /\ UNCHANGED <<kind, docs, ddoc, bucket, rows, inval, rowSeq, taskSeq, source, writer>>
      /\ UNCHANGED <<built, abandoned, astray>>
  BY <1>2 DEF SaveProgress, Works, ghosts
<1>4. UNCHANGED <<kind, disk, source, writer, built, astray>>
  BY <1>3 DEF disk
<1>5. ASSUME ~abandoned, ~astray, ddoc # NoFn, NEW d \in Ids, Stale(d)
      PROVE  \/ tasks \ runner.todo # {} \/ runner.left \ Smallest(1, runner.left) # {}
             \/ FullPage /\ Behind(d, runner.page + 1)
  BY <1>3, <1>5 DEF IndexInv, StaleIsAhead, Ahead
<1>6. CASE Cardinality(DOMAIN runner.batch) < BatchSize
  <2>1. ~FullPage
    BY <1>6, IndexAssumption DEF FullPage
  <2> QED BY <1>3, <1>4, <1>5, <1>6, <2>1, TaskDoneKeeps
<1>7. CASE ~(Cardinality(DOMAIN runner.batch) < BatchSize)
  <2>1. DOMAIN runner = {"at", "todo", "left", "page", "batch", "logs"}
    BY <1>1 DEF RunnerOK, Resting
  <2>2. /\ DOMAIN runner' = DOMAIN runner
        /\ runner'.at = "read" /\ runner'.page = runner.page + 1
        /\ runner'.todo = runner.todo /\ runner'.left = runner.left
    BY <1>3, <1>7, <2>1
  <2>3. RunnerOK'
    <3>1. DOMAIN runner' = DOMAIN Resting'
      BY <1>1, <2>2 DEF RunnerOK, Resting
    <3>2. runner.page + 1 \in Nat
      BY <1>1 DEF RunnerOK
    <3> QED BY <1>1, <1>3, <2>2, <3>1, <3>2 DEF RunnerOK
  <2>4. Pending' \subseteq Pending
    BY <1>3, <2>2, RunnerMoves
  <2>5. StaleIsAhead'
    <3>1. SUFFICES ASSUME ~abandoned, ~astray, ddoc # NoFn, NEW d \in Ids, Stale(d) PROVE Ahead(d)'
      BY <1>3 DEF StaleIsAhead, Stale
    <3>2. Behind(d, runner.page + 1) => Behind(d, runner.page)'
      BY <1>3, <2>2 DEF Behind, Stored
    <3> QED BY <1>3, <1>5, <2>2, <3>1, <3>2 DEF Ahead
  <2> QED BY <1>4, <2>3, <2>4, <2>5, OnlyRunner
<1> QED BY <1>6, <1>7

LEMMA RebuildFailsKeeps ==
  ASSUME IndexInv, RebuildFails
  PROVE  IndexInv'
<1>1. /\ runner.at \in Works /\ runner' = TaskDone(runner) /\ abandoned'
      /\ UNCHANGED <<kind, disk, source, writer, built, astray>>
  BY DEF RebuildFails, Works
<1> QED BY <1>1, TaskDoneKeeps

LEMMA RestingIdle ==
  ASSUME runner' = Resting
  PROVE  /\ RunnerOK'
         /\ runner'.at = "idle" /\ runner'.todo = {} /\ runner'.left = {}
BY DEF RunnerOK, Resting

LEMMA CompleteTasksKeeps ==
  ASSUME IndexInv, CompleteTasks
  PROVE  IndexInv'
<1> USE DEF IndexInv
<1>1. /\ runner.at = "complete" /\ runner.left = {}
      /\ tasks' = tasks \ runner.todo /\ runner' = Resting
      /\ UNCHANGED <<kind, docs, ddoc, bucket, rows, inval, rowSeq, taskSeq, source, writer,
                     built, abandoned, astray>>
  BY DEF CompleteTasks, Completed, ghosts, RunnerOK
<1>2. RunnerOK' /\ runner'.at = "idle" /\ runner'.todo = {}
  BY <1>1, RestingIdle
<1>3. Pending' \subseteq Pending
  BY <1>1, <1>2, RunnerMoves
<1>4. TypeOK'
  BY <1>1, <1>3, TypesUntouched DEF TypeOK
<1>5. SequencesUnique' /\ RowsRemovable' /\ RowsExact'
  BY <1>1, <1>3, IndexUntouched
<1>6. StoredIsRegistered' /\ InStep'
  BY <1>1, InStepStays DEF StoredIsRegistered, DesignOpen
<1>7. StaleIsAhead'
  <2>1. SUFFICES ASSUME ~abandoned, ~astray, ddoc # NoFn, NEW d \in Ids, Stale(d) PROVE Ahead(d)'
    BY <1>1 DEF StaleIsAhead, Stale
  <2>2. Ahead(d)
    BY <2>1 DEF StaleIsAhead
  <2> QED BY <1>1, <1>2, <2>2 DEF Ahead
<1> QED BY <1>2, <1>4, <1>5, <1>6, <1>7

LEMMA RestartKeeps ==
  ASSUME IndexInv, Restart
  PROVE  IndexInv'
<1> USE DEF IndexInv
<1>1. /\ source' = ddoc /\ runner' = Resting /\ writer' = [w \in Writers |-> Idle]
      /\ UNCHANGED <<kind, docs, ddoc, rows, inval, rowSeq, tasks, taskSeq, built, abandoned,
                     astray>>
  BY DEF Restart, ghosts
<1>2. RunnerOK' /\ runner'.at = "idle" /\ runner'.todo = {}
  BY <1>1, RestingIdle
<1>3. DOMAIN writer' = Writers /\ \A w \in Writers : writer'[w].op = "idle"
  BY <1>1 DEF Idle
<1>4. Pending' = {}
  BY <1>2, <1>3 DEF Pending
<1>5. TypeOK'
  BY <1>1, <1>3, <1>4, TypesUntouched DEF TypeOK
<1>6. SequencesUnique' /\ RowsRemovable' /\ RowsExact'
  BY <1>1, <1>4, IndexUntouched
<1>7. StoredIsRegistered' /\ InStep'
  BY <1>1, <1>3 DEF StoredIsRegistered, InStep
<1>8. StaleIsAhead'
  <2>1. SUFFICES ASSUME ~abandoned, ~astray, ddoc # NoFn, NEW d \in Ids, Stale(d) PROVE Ahead(d)'
    BY <1>1 DEF StaleIsAhead, Stale
  <2>2. Ahead(d)
    BY <2>1 DEF StaleIsAhead
  <2>3. tasks # {}
    BY <2>2 DEF Ahead, RunnerOK
  <2> QED BY <1>1, <1>2, <2>3 DEF Ahead
<1> QED BY <1>2, <1>5, <1>6, <1>7, <1>8

-----------------------------------------------------------------------------
(* The theorems. *)

LEMMA InitOK ==
  ASSUME Init
  PROVE  IndexInv
<1>1. /\ kind \in Kinds /\ docs = [d \in Ids |-> None]
      /\ ddoc = NoFn /\ source = NoFn /\ rows = {} /\ inval = {} /\ rowSeq = 0
      /\ tasks = {} /\ taskSeq = 0 /\ writer = [w \in Writers |-> Idle] /\ runner = Resting
      /\ built = [d \in Ids |-> NoFn]
  BY DEF Init
<1>2. runner.at = "idle" /\ \A w \in Writers : writer[w].op = "idle"
  BY <1>1 DEF Resting, Idle
<1>3. Pending = {} /\ Known = {}
  BY <1>1, <1>2 DEF Pending, Known
<1>4. TypeOK
  BY <1>1, <1>3 DEF TypeOK, Functions
<1>5. RunnerOK
  BY <1>1 DEF RunnerOK, Resting
<1>6. SequencesUnique /\ RowsRemovable
  BY <1>1, <1>3 DEF SequencesUnique, RowsRemovable
<1>7. RowsExact
  BY <1>1, IndexAssumption DEF RowsExact
<1>8. StoredIsRegistered /\ InStep
  BY <1>1, <1>2 DEF StoredIsRegistered, InStep
<1>9. StaleIsAhead
  BY <1>1 DEF StaleIsAhead
<1> QED BY <1>4, <1>5, <1>6, <1>7, <1>8, <1>9 DEF IndexInv

LEMMA StutterKeeps ==
  ASSUME IndexInv, UNCHANGED vars
  PROVE  IndexInv'
<1>1. Pending' = Pending /\ UNCHANGED <<kind, disk, source, writer, runner, built, abandoned, astray>>
  BY DEF vars, Pending, disk, ghosts
<1>2. UNCHANGED <<docs, ddoc, tasks>>
  BY <1>1 DEF disk
<1>3. RunnerOK'
  BY <1>1, <1>2, RunnerRests DEF IndexInv
<1>4. StaleIsAhead'
  BY <1>1, <1>2 DEF IndexInv, StaleIsAhead, Stale, Ahead, FullPage, Behind, Stored
<1> QED BY <1>1, <1>3, <1>4, OnlyRunner

\* Writers, design changes, rebuilds, crashes and failures keep the index
\* consistent with its records, its documents and its tasks.
THEOREM IndexInvariant == Spec => []IndexInv
<1>1. Init => IndexInv
  BY InitOK
<1>2. IndexInv /\ [Next]_vars => IndexInv'
  <2> SUFFICES ASSUME IndexInv, [Next]_vars PROVE IndexInv'
    OBVIOUS
  <2>1. ASSUME NEW w \in Writers, NEW id \in Ids, NEW body \in Bodies \cup {Deleted},
               BeginWrite(w, id, body)
        PROVE  IndexInv'
    BY <2>1, BeginWriteKeeps
  <2>2. ASSUME NEW w \in Writers, CommitWrite(w) PROVE IndexInv'
    BY <2>2, CommitWriteKeeps
  <2>3. ASSUME NEW w \in Writers, NEW fn \in Fns \cup {NoFn}, BeginDesign(w, fn)
        PROVE  IndexInv'
    BY <2>3, BeginDesignKeeps DEF Functions
  <2>4. ASSUME NEW w \in Writers, CommitDesign(w) PROVE IndexInv'
    BY <2>4, CommitDesignKeeps
  <2>5. ASSUME NEW fn \in Fns, RejectDesign(fn) PROVE IndexInv'
    BY <2>5, RejectDesignKeeps
  <2>6. CASE RunnerStep
    BY <2>6, TakeTasksKeeps, NoIndexKeeps, ReadPageKeeps, UpdatePageKeeps, CommitPageKeeps,
       SaveProgressKeeps, CompleteTasksKeeps DEF RunnerStep
  <2>7. CASE RebuildFails
    BY <2>7, RebuildFailsKeeps
  <2>8. CASE Restart
    BY <2>8, RestartKeeps
  <2>9. CASE UNCHANGED vars
    BY <2>9, StutterKeeps
  <2> QED BY <2>1, <2>2, <2>3, <2>4, <2>5, <2>6, <2>7, <2>8, <2>9 DEF Next
<1> QED BY <1>1, <1>2, PTL DEF Spec

\* No row of a view is ever out of reach of the next write of its document,
\* and every invalidation record points to a row.
THEOREM RowsStayRemovable == Spec => []RowsRemovable
<1>1. IndexInv => RowsRemovable
  BY DEF IndexInv
<1> QED BY <1>1, IndexInvariant, PTL

\* A document that was last indexed without being overtaken has in the index
\* exactly what the function emits for it.
THEOREM RowsStayExact == Spec => []RowsExact
<1>1. IndexInv => RowsExact
  BY DEF IndexInv
<1> QED BY <1>1, IndexInvariant, PTL

\* Without tasks, without a rebuild that failed and as long as the function in
\* memory never went astray, every live document was indexed by the stored
\* function or by an overlapping write.
THEOREM NoTaskIsBuilt == Spec => []NoTaskMeansBuilt
<1>1. IndexInv => NoTaskMeansBuilt
  <2>1. SUFFICES ASSUME IndexInv, tasks = {}, ~abandoned, ~astray, ddoc # NoFn,
                        NEW d \in Ids
                 PROVE  ~Stale(d)
    BY DEF NoTaskMeansBuilt, Stale
  <2>2. runner.left = {} /\ runner.at \in {"idle", "complete"}
    BY <2>1 DEF IndexInv, RunnerOK
  <2>3. ~Ahead(d)
    BY <2>1, <2>2 DEF Ahead
  <2> QED BY <2>1, <2>3 DEF IndexInv, StaleIsAhead
<1> QED BY <1>1, IndexInvariant, PTL

=============================================================================
