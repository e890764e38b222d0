------------------------------ MODULE Changes ------------------------------
(***************************************************************************)
(* Reading the changes feed of a database (Database.Changes): the entries  *)
(* after a sequence, in order, each answered with the document it names as *)
(* it is now, not as it was when the entry was written.                    *)
(***************************************************************************)
EXTENDS DocTx

\* the most entries one reading answers with: changesBatchSize, or ?limit=
CONSTANT Limit

ASSUME ChangesAssumption == Limit \in Nat \ {0}

Start    == 0    \* since is "", "0" or a sequence: 1 and up
MinusOne == -1   \* since is "-1", which parses as 0 but is not "0"
Now      == -2   \* since is "now"

\* Mutant: the cursor starts at the last entry and moves back.
EntriesBackwards(b) ==
  LET Rank(e) == Cardinality({f \in b.changes : f.seq >= e.seq})
  IN  [i \in 1..Cardinality(b.changes) |-> CHOOSE e \in b.changes : Rank(e) = i]

\* The entries in the order of their sequences.
Entries(b) ==
  LET Rank(e) == Cardinality({f \in b.changes : f.seq <= e.seq})
  IN  [i \in 1..Cardinality(b.changes) |-> CHOOSE e \in b.changes : Rank(e) = i]

\* The cursor is placed on the first entry at or after since, and moved on by
\* one entry: how many entries it leaves out.
Passed(b, since) ==
  IF since \in {Start, Now} THEN 0
  ELSE Cardinality({e \in b.changes : e.seq < since}) + 1

After(b, since) ==
  SubSeq(Entries(b), Passed(b, since) + 1, Cardinality(b.changes))

\* The answer gives a document's own sequence, whichever entry led to it.
Result(b, d) == [id |-> d, rev |-> b.docs[d].rev, seq |-> b.inval[d]]

Changes(b, since, limit) ==
  LET entries == After(b, since)
      count   == Min({limit, Len(entries)})
  IN  [docs    |-> [i \in 1..count |-> Result(b, entries[i].id)],
       pending |-> Len(entries) - count]

\* The greatest sequence of the answer, or otherwise when it is empty.
LastSeq(answer, otherwise) ==
  IF answer.docs = <<>> THEN otherwise
  ELSE Max({answer.docs[i].seq : i \in DOMAIN answer.docs})

\* got, updated with the answer.
Received(got, answer) ==
  [d \in DOMAIN got |->
     LET mine == {i \in DOMAIN answer.docs : answer.docs[i].id = d}
     IN  IF mine = {} THEN got[d] ELSE answer.docs[Max(mine)].rev]

=============================================================================
