-------------------------- MODULE AttachmentsProofs --------------------------
(***************************************************************************)
(* That a content in use is not removed, until two requests that touch it  *)
(* overlap, it is stored as a stub where it was not, or it is delivered    *)
(* for two attachments at once.                                            *)
(***************************************************************************)
EXTENDS Attachments, FiniteSetTheorems, TLAPS

-----------------------------------------------------------------------------
(* Counting references. *)

LEMMA ReferencesFinite ==
  ASSUME NEW a, NEW x
  PROVE  IsFiniteSet(ReferencesIn(a, x))
<1>1. IsFiniteSet(Docs \X Names)
  BY AttachmentsAssumption, FS_Product
<1>2. ReferencesIn(a, x) \subseteq Docs \X Names
  BY DEF ReferencesIn
<1> QED BY <1>1, <1>2, FS_Subset

LEMMA CountsAreNat ==
  ASSUME NEW a, NEW x
  PROVE  Cardinality(ReferencesIn(a, x)) \in Nat
BY ReferencesFinite, FS_CardinalityType

LEMMA NoMoreReferences ==
  ASSUME NEW a, NEW b, NEW x, ReferencesIn(b, x) \subseteq ReferencesIn(a, x)
  PROVE  Cardinality(ReferencesIn(b, x)) <= Cardinality(ReferencesIn(a, x))
BY ReferencesFinite, FS_Subset

LEMMA OneReferenceMore ==
  ASSUME NEW a, NEW b, NEW x, NEW p,
         ReferencesIn(b, x) \subseteq ReferencesIn(a, x) \cup {p}
  PROVE  Cardinality(ReferencesIn(b, x)) <= Cardinality(ReferencesIn(a, x)) + 1
<1>1. /\ IsFiniteSet(ReferencesIn(a, x) \cup {p})
      /\ Cardinality(ReferencesIn(a, x) \cup {p})
           <= Cardinality(ReferencesIn(a, x)) + 1
  BY ReferencesFinite, CountsAreNat, FS_AddElement
<1>2. Cardinality(ReferencesIn(b, x)) <= Cardinality(ReferencesIn(a, x) \cup {p})
  BY <1>1, FS_Subset
<1>3. Cardinality(ReferencesIn(a, x) \cup {p}) \in Nat
  BY <1>1, FS_CardinalityType
<1> QED BY <1>1, <1>2, <1>3, CountsAreNat

LEMMA OneReferenceLess ==
  ASSUME NEW a, NEW b, NEW x, NEW p \in ReferencesIn(a, x),
         ReferencesIn(b, x) \subseteq ReferencesIn(a, x) \ {p}
  PROVE  Cardinality(ReferencesIn(b, x)) <= Cardinality(ReferencesIn(a, x)) - 1
<1>1. /\ IsFiniteSet(ReferencesIn(a, x) \ {p})
      /\ Cardinality(ReferencesIn(a, x) \ {p})
           = Cardinality(ReferencesIn(a, x)) - 1
  BY ReferencesFinite, FS_RemoveElement
<1> QED BY <1>1, FS_Subset

-----------------------------------------------------------------------------
(* Types. *)

LEMMA RawIsAttachment ==
  /\ \A x \in Digests : /\ Raw(x) \in Attachment
                        /\ Raw(x) # None
                        /\ Raw(x).of = x
                        /\ Raw(x).md5 = 0
  /\ None \notin Attachment
BY AttachmentsAssumption DEF Raw, Attachment

LEMMA CountsAreTyped ==
  ASSUME TypeOK, NEW x \in Digests
  PROVE  /\ decAttRef(x) \in 0..MaxRef
         /\ refs[x] < MaxRef => incAttRef(x) \in 0..MaxRef
         /\ refs[x] \in 0..MaxRef
BY AttachmentsAssumption DEF TypeOK, decAttRef, incAttRef

LEMMA Phases ==
  ASSUME TypeOK, NEW w \in Writers
  PROVE  /\ writer[w] \in WriterState
         /\ writer[w].phase = "moved" =>
              /\ writer[w].id \in Docs /\ writer[w].name \in Names
              /\ writer[w].digest \in Digests
         /\ writer[w].phase = "pending" => writer[w].op \in OpLog
         /\ writer[w].phase = "committed" => writer[w].clean \subseteq Digests
BY DEF TypeOK, WriterState

LEMMA LogsAreTyped ==
  ASSUME NEW op \in OpLog
  PROVE  /\ DOMAIN op.doc \subseteq Docs
         /\ \A d \in DOMAIN op.doc : op.doc[d] \in Attached
         /\ op.puts \in [Digests -> -1..MaxRef]
         /\ op.clean \subseteq Digests
BY DEF OpLog

\* A log of a function of some documents, of counts, and of what to remove.
LEMMA LogIsTyped ==
  ASSUME NEW ds \in SUBSET Docs, NEW doc \in [ds -> Attached],
         NEW puts \in [Digests -> -1..MaxRef], NEW clean \in SUBSET Digests
  PROVE  [doc |-> doc, puts |-> puts, clean |-> clean] \in OpLog
BY DEF OpLog

LEMMA EntryIsTyped ==
  ASSUME TypeOK, NEW d \in Docs, NEW n \in Names
  PROVE  /\ atts[d] \in Attached
         /\ atts[d][n] = None \/ atts[d][n] \in Attachment
         /\ atts[d][n] # None => atts[d][n].of \in Digests
BY DEF TypeOK, Attached, Attachment

-----------------------------------------------------------------------------
(* What the requests have in common. *)

\* A content that is referred to is counted.
LEMMA ReferencedIsCounted ==
  ASSUME TypeOK, NEW x \in Digests, Covered(atts, refs, x),
         NEW p \in ReferencesIn(atts, x)
  PROVE  refs[x] >= 1
<1>1. Cardinality(ReferencesIn(atts, x)) # 0
  BY ReferencesFinite, FS_EmptySet
<1>2. refs[x] >= Cardinality(ReferencesIn(atts, x))
  BY DEF Covered
<1> QED BY <1>1, <1>2, CountsAreNat, CountsAreTyped

LEMMA DisturbedIsTyped ==
  ASSUME TypeOK
  PROVE  /\ disturbed.stub \subseteq Digests
         /\ disturbed.twice \subseteq Digests
         /\ disturbed.race \subseteq Digests
BY DEF TypeOK, Causes

LEMMA SoundStays ==
  ASSUME NEW s, NEW x, Sound(s, x), UNCHANGED <<atts, refs>>, files \subseteq files'
  PROVE  Sound(s, x)'
BY DEF Sound, Covers, Covered, Plain, AttsAfter, RefsAfter, ReferencesIn

\* The invariant is kept by a request that goes on to state s, while it is sound
\* in s about the contents it touches and nothing disturbs.
LEMMA BeginsKeepsInv ==
  ASSUME AttachmentsInv, NEW w \in Writers, NEW s \in WriterState,
         NEW stubs, stubs \subseteq Digests, NEW twice, twice \subseteq Digests,
         Begins(w, s, stubs, twice),
         UNCHANGED <<stored, atts, refs>>,
         files \subseteq files', files' \subseteq Digests,
         \A x \in Touched(s) \ (Disturbed \cup stubs \cup twice) :
           Undisturbed(x) => Sound(s, x)'
  PROVE  AttachmentsInv'
<1>1. TypeOK
  BY DEF AttachmentsInv
<1>2. Touched(s) \subseteq Digests
  BY DEF Touched
<1>3. /\ writer' = [writer EXCEPT ![w] = s]
      /\ disturbed' =
           [stub  |-> disturbed.stub \cup stubs,
            twice |-> disturbed.twice \cup twice,
            race  |-> disturbed.race \cup
                        {x \in Touched(s) : \E v \in Writers \ {w} : x \in Touched(writer[v])}]
  BY DEF Begins
<1>4. TypeOK'
  <2>1. disturbed' \in Causes
    BY <1>1, <1>2, <1>3, DisturbedIsTyped DEF Causes
  <2>2. writer' \in [Writers -> WriterState]
    BY <1>1, <1>3 DEF TypeOK
  <2> QED BY <1>1, <2>1, <2>2 DEF TypeOK
<1>5. ASSUME NEW x \in Digests, x \notin Disturbed'
      PROVE  Undisturbed(x)'
  <2>1. /\ x \notin Disturbed \cup stubs \cup twice
        /\ x \in Touched(s) => \A v \in Writers \ {w} : x \notin Touched(writer[v])
    BY <1>3, <1>5 DEF Disturbed
  <2>2. Undisturbed(x)
    BY <2>1 DEF AttachmentsInv
  <2>3. Covered(atts, refs, x)' /\ Plain(atts, x)'
    BY <2>2 DEF Undisturbed, Covered, ReferencesIn, Plain
  <2>4. writer'[w] = s /\ \A v \in Writers \ {w} : writer'[v] = writer[v]
    BY <1>1, <1>3 DEF TypeOK
  <2>5. \A v \in Writers : Touched(writer[v])' = Touched(writer'[v])
    BY DEF Touched
  <2>6. OneAtATime(x)'
    BY <2>1, <2>2, <2>4, <2>5 DEF Undisturbed, OneAtATime
  <2>7. TouchedSoundly(x)'
    <3>1. SUFFICES ASSUME NEW v \in Writers, x \in Touched(writer'[v])
                   PROVE  Sound(writer[v], x)'
      BY <2>5 DEF TouchedSoundly
    <3>2. CASE v = w
      <4>1. Sound(s, x)'
        BY <2>1, <2>2, <2>4, <3>1, <3>2
      <4> QED BY <2>4, <3>2, <4>1 DEF Sound, Covers, Covered, Plain, AttsAfter, RefsAfter
    <3>3. CASE v # w
      <4>1. PICK r \in WriterState : r = writer[v]
        BY <1>1 DEF TypeOK
      <4>2. Sound(writer[v], x) /\ writer'[v] = r
        BY <2>2, <2>4, <3>1, <3>3, <4>1 DEF Undisturbed, TouchedSoundly
      <4>3. Sound(r, x)
        BY <4>1, <4>2
      <4>4. Sound(r, x)'
        BY <4>3, SoundStays
      <4> QED BY <4>2, <4>4 DEF Sound, Covers, Covered, Plain, AttsAfter, RefsAfter
    <3> QED BY <3>2, <3>3
  <2> QED BY <2>3, <2>6, <2>7 DEF Undisturbed
<1> QED BY <1>4, <1>5 DEF AttachmentsInv

\* What applying a log does to the references to x: those of the documents it
\* stores are new, the others stay.
LEMMA AfterOne ==
  ASSUME TypeOK, NEW d \in Docs, NEW doc \in Attached, NEW op, op.doc = [e \in {d} |-> doc]
  PROVE  AttsAfter(op)[d] = doc /\ \A e \in Docs \ {d} : AttsAfter(op)[e] = atts[e]
BY DEF AttsAfter

\* A pending log is sound about x when it covers x now.
LEMMA PendingIsSound ==
  ASSUME NEW op \in OpLog, NEW x \in Digests,
         UNCHANGED <<atts, refs>>, files \subseteq files',
         RefsAfter(op)[x] >= Cardinality(ReferencesIn(AttsAfter(op), x)),
         RefsAfter(op)[x] > 0 => x \in files',
         Plain(AttsAfter(op), x),
         x \in op.clean => RefsAfter(op)[x] = 0
  PROVE  Sound([phase |-> "pending", op |-> op], x)'
BY DEF Sound, Covers, Covered, Plain, AttsAfter, RefsAfter, ReferencesIn

-----------------------------------------------------------------------------
(* The requests. *)

LEMMA MoveUploadKeepsInv ==
  ASSUME AttachmentsInv, NEW w \in Writers, NEW d \in Docs, NEW n \in Names,
         NEW x \in Digests, MoveUpload(w, d, n, x)
  PROVE  AttachmentsInv'
<1>1. PICK s \in WriterState : s = [phase |-> "moved", id |-> d, name |-> n, digest |-> x]
  BY DEF WriterState
<1>2. Begins(w, s, {}, {}) /\ UNCHANGED <<stored, atts, refs>> /\ files' = files \cup {x}
  BY <1>1 DEF MoveUpload
<1>3. files \subseteq files' /\ files' \subseteq Digests
  BY <1>2 DEF AttachmentsInv, TypeOK
<1>4. \A y \in Touched(s) : Sound(s, y)'
  BY <1>1, <1>2 DEF Touched, Sound
<1> QED BY <1>2, <1>3, <1>4, BeginsKeepsInv

\* The content put is counted once more before it has one more reference; the
\* content replaced loses a count with a reference.
LEMMA PutAttachmentKeepsInv ==
  ASSUME AttachmentsInv, NEW w \in Writers, PutAttachment(w)
  PROVE  AttachmentsInv'
<1> DEFINE d == writer[w].id
           n == writer[w].name
           x == writer[w].digest
           old == atts[d][n]
           replaced == {a.of : a \in {old} \ {None, Raw(x)}}
           puts == [y \in Digests |-> IF y \in replaced THEN decAttRef(y)
                                      ELSE IF y = x THEN incAttRef(y) ELSE -1]
           clean == {y \in replaced : decAttRef(y) = 0}
           doc == [atts[d] EXCEPT ![n] = Raw(x)]
           log == [doc |-> [e \in {d} |-> doc], puts |-> puts, clean |-> clean]
<1>1. TypeOK
  BY DEF AttachmentsInv
<1>2. d \in Docs /\ n \in Names /\ x \in Digests
  BY <1>1, Phases DEF PutAttachment
<1>3. /\ refs[x] < MaxRef /\ Pends(w, log, {}, {})
      /\ UNCHANGED <<stored, atts, refs, files>>
      /\ writer[w].phase = "moved"
  BY DEF PutAttachment
<1>4. /\ atts[d] \in Attached
      /\ old = None \/ old \in Attachment
      /\ old # None => old.of \in Digests
  BY <1>1, <1>2, EntryIsTyped
<1>5. replaced \subseteq Digests
  BY <1>4
<1>6. PICK op \in OpLog : op = log
  <2>1. doc \in Attached
    BY <1>1, <1>2, EntryIsTyped, RawIsAttachment DEF Attached
  <2>2. puts \in [Digests -> -1..MaxRef]
    <3>1. \A y \in Digests : decAttRef(y) \in -1..MaxRef
      BY <1>1, CountsAreTyped, AttachmentsAssumption
    <3>2. incAttRef(x) \in -1..MaxRef
      BY <1>1, <1>2, <1>3, CountsAreTyped, AttachmentsAssumption
    <3> QED BY <3>1, <3>2, AttachmentsAssumption
  <2>3. clean \in SUBSET Digests
    BY <1>5
  <2>4. {d} \in SUBSET Docs /\ [e \in {d} |-> doc] \in [{d} -> Attached]
    BY <1>2, <2>1
  <2>5. log \in OpLog
    BY <2>2, <2>3, <2>4, LogIsTyped
  <2> QED BY <2>5
<1>7. PICK s \in WriterState : s = [phase |-> "pending", op |-> op]
  BY DEF WriterState
<1>8. ASSUME NEW y \in Touched(s), y \notin Disturbed, Undisturbed(y)
      PROVE  Sound(s, y)'
  <2>1. y \in Digests /\ Covered(atts, refs, y) /\ Plain(atts, y)
    BY <1>8 DEF Touched, Undisturbed
  <2>2. x \in Touched(writer[w])
    BY <1>2, <1>3 DEF Touched
  <2>3. y = x => y \in files
    BY <1>3, <1>8, <2>2 DEF Undisturbed, TouchedSoundly, Sound
  <2>4. AttsAfter(op)[d] = doc /\ \A e \in Docs \ {d} : AttsAfter(op)[e] = atts[e]
    BY <1>2, <1>6 DEF AttsAfter
  <2>5. doc[n] = Raw(x) /\ \A m \in Names \ {n} : doc[m] = atts[d][m]
    BY <1>1, <1>2, EntryIsTyped DEF Attached
  <2>6. RefsAfter(op)[y] = IF y \in replaced THEN decAttRef(y)
                           ELSE IF y = x THEN refs[y] + 1 ELSE refs[y]
    BY <1>1, <1>2, <1>6, <2>1, CountsAreTyped DEF RefsAfter, incAttRef
  <2>7. y \in replaced => old # None /\ y = old.of /\ y # x
    BY <1>2, <2>1 DEF Plain
  <2>8. ASSUME NEW e \in Docs, NEW m \in Names
        PROVE  \/ e = d /\ m = n /\ AttsAfter(op)[e][m] = Raw(x)
               \/ ~(e = d /\ m = n) /\ AttsAfter(op)[e][m] = atts[e][m]
    BY <1>2, <2>4, <2>5
  <2>9. \A p \in ReferencesIn(AttsAfter(op), y) :
          \/ p = <<d, n>> /\ y = x
          \/ p \in ReferencesIn(atts, y) /\ p # <<d, n>>
    <3>1. SUFFICES ASSUME NEW e \in Docs, NEW m \in Names,
                          AttsAfter(op)[e][m] # None, AttsAfter(op)[e][m].of = y
                   PROVE  \/ e = d /\ m = n /\ y = x
                          \/ /\ atts[e][m] # None /\ atts[e][m].of = y
                             /\ ~(e = d /\ m = n)
      BY DEF ReferencesIn
    <3> QED BY <1>2, <2>8, <3>1, RawIsAttachment
  <2>10. /\ refs[y] >= Cardinality(ReferencesIn(atts, y))
         /\ refs[y] > 0 => y \in files
         /\ refs[y] \in Nat
    BY <1>1, <2>1, CountsAreTyped DEF Covered
  <2>11. /\ Cardinality(ReferencesIn(atts, y)) \in Nat
         /\ Cardinality(ReferencesIn(AttsAfter(op), y)) \in Nat
    BY CountsAreNat
  <2>12. /\ RefsAfter(op)[y] >= Cardinality(ReferencesIn(AttsAfter(op), y))
         /\ RefsAfter(op)[y] > 0 => y \in files
    <3>1. CASE y \in replaced
      <4>1. <<d, n>> \in ReferencesIn(atts, y)
        BY <1>2, <2>7, <3>1 DEF ReferencesIn
      <4>2. ReferencesIn(AttsAfter(op), y) \subseteq ReferencesIn(atts, y) \ {<<d, n>>}
        BY <2>7, <2>9, <3>1
      <4>3. Cardinality(ReferencesIn(AttsAfter(op), y))
              <= Cardinality(ReferencesIn(atts, y)) - 1
        BY <4>1, <4>2, OneReferenceLess
      <4>4. refs[y] >= 1
        BY <1>1, <2>1, <4>1, ReferencedIsCounted
      <4>5. RefsAfter(op)[y] = IF refs[y] > 1 THEN refs[y] - 1 ELSE 0
        BY <2>6, <3>1 DEF decAttRef
      <4> QED BY <2>10, <2>11, <4>3, <4>4, <4>5
    <3>2. CASE y \notin replaced /\ y = x
      <4>1. Cardinality(ReferencesIn(AttsAfter(op), y))
              <= Cardinality(ReferencesIn(atts, y)) + 1
        BY <2>9, OneReferenceMore
      <4>2. RefsAfter(op)[y] = refs[y] + 1
        BY <2>6, <3>2
      <4> QED BY <2>3, <2>10, <2>11, <3>2, <4>1, <4>2
    <3>3. CASE y \notin replaced /\ y # x
      <4>1. Cardinality(ReferencesIn(AttsAfter(op), y))
              <= Cardinality(ReferencesIn(atts, y))
        BY <2>9, <3>3, NoMoreReferences
      <4>2. RefsAfter(op)[y] = refs[y]
        BY <2>6, <3>3
      <4> QED BY <2>10, <2>11, <4>1, <4>2
    <3> QED BY <3>1, <3>2, <3>3
  <2>13. Plain(AttsAfter(op), y)
    BY <1>2, <2>1, <2>8, RawIsAttachment DEF Plain
  <2>14. y \in op.clean => RefsAfter(op)[y] = 0
    BY <1>6, <2>6
  <2>15. files \subseteq files' /\ (RefsAfter(op)[y] > 0 => y \in files')
    BY <1>3, <2>12
  <2> HIDE DEF log
  <2> QED BY <1>3, <1>7, <2>1, <2>12, <2>13, <2>14, <2>15, PendingIsSound
<1>9. Begins(w, s, {}, {})
  BY <1>3, <1>6, <1>7 DEF Pends
<1>10. files \subseteq files' /\ files' \subseteq Digests
  BY <1>1, <1>3 DEF TypeOK
<1> HIDE DEF log
<1> QED BY <1>3, <1>8, <1>9, <1>10, BeginsKeepsInv

LEMMA DeleteAttachmentKeepsInv ==
  ASSUME AttachmentsInv, NEW w \in Writers, NEW d \in Docs, NEW n \in Names,
         DeleteAttachment(w, d, n)
  PROVE  AttachmentsInv'
<1> DEFINE x == atts[d][n].of
           doc == [atts[d] EXCEPT ![n] = None]
           puts == [NoPuts EXCEPT ![x] = decAttRef(x)]
           log == [doc |-> [e \in {d} |-> doc], puts |-> puts,
                   clean |-> {y \in {x} : decAttRef(y) = 0}]
<1>1. TypeOK
  BY DEF AttachmentsInv
<1>2. /\ Pends(w, log, {}, {}) /\ UNCHANGED <<stored, atts, refs, files>>
      /\ atts[d][n] # None
  BY DEF DeleteAttachment
<1>3. x \in Digests
  BY <1>1, <1>2, EntryIsTyped
<1>4. PICK op \in OpLog : op = log
  <2>1. doc \in Attached
    BY <1>1, EntryIsTyped DEF Attached
  <2>2. puts \in [Digests -> -1..MaxRef]
    <3>1. decAttRef(x) \in -1..MaxRef
      BY <1>1, <1>3, CountsAreTyped, AttachmentsAssumption
    <3>2. NoPuts \in [Digests -> -1..MaxRef]
      BY AttachmentsAssumption DEF NoPuts
    <3> QED BY <3>1, <3>2
  <2>3. {d} \in SUBSET Docs /\ [e \in {d} |-> doc] \in [{d} -> Attached]
    BY <2>1
  <2>4. log \in OpLog
    BY <1>3, <2>2, <2>3, LogIsTyped
  <2> QED BY <2>4
<1>5. PICK s \in WriterState : s = [phase |-> "pending", op |-> op]
  BY DEF WriterState
<1>6. ASSUME NEW y \in Touched(s), y \notin Disturbed, Undisturbed(y)
      PROVE  Sound(s, y)'
  <2>1. y \in Digests /\ Covered(atts, refs, y) /\ Plain(atts, y)
    BY <1>6 DEF Touched, Undisturbed
  <2>2. AttsAfter(op)[d] = doc /\ \A e \in Docs \ {d} : AttsAfter(op)[e] = atts[e]
    BY <1>4 DEF AttsAfter
  <2>3. doc[n] = None /\ \A m \in Names \ {n} : doc[m] = atts[d][m]
    BY <1>1, EntryIsTyped DEF Attached
  <2>4. RefsAfter(op)[y] = IF y = x THEN decAttRef(y) ELSE refs[y]
    BY <1>1, <1>3, <1>4, <2>1, CountsAreTyped DEF RefsAfter, NoPuts
  <2>5. /\ refs[y] >= Cardinality(ReferencesIn(atts, y))
        /\ refs[y] > 0 => y \in files
        /\ refs[y] \in Nat
    BY <1>1, <2>1, CountsAreTyped DEF Covered
  <2>6. /\ Cardinality(ReferencesIn(atts, y)) \in Nat
        /\ Cardinality(ReferencesIn(AttsAfter(op), y)) \in Nat
    BY CountsAreNat
  <2>7. ReferencesIn(AttsAfter(op), y) \subseteq ReferencesIn(atts, y) \ {<<d, n>>}
    <3>1. SUFFICES ASSUME NEW e \in Docs, NEW m \in Names,
                          AttsAfter(op)[e][m] # None, AttsAfter(op)[e][m].of = y
                   PROVE  /\ atts[e][m] # None /\ atts[e][m].of = y
                          /\ ~(e = d /\ m = n)
      BY DEF ReferencesIn
    <3> QED BY <2>2, <2>3, <3>1
  <2>8. /\ RefsAfter(op)[y] >= Cardinality(ReferencesIn(AttsAfter(op), y))
        /\ RefsAfter(op)[y] > 0 => y \in files
    <3>1. CASE y = x
      <4>1. <<d, n>> \in ReferencesIn(atts, y)
        BY <1>2, <3>1 DEF ReferencesIn
      <4>2. Cardinality(ReferencesIn(AttsAfter(op), y))
              <= Cardinality(ReferencesIn(atts, y)) - 1
        BY <2>7, <4>1, OneReferenceLess
      <4>3. refs[y] >= 1
        BY <1>1, <2>1, <4>1, ReferencedIsCounted
      <4>4. RefsAfter(op)[y] = IF refs[y] > 1 THEN refs[y] - 1 ELSE 0
        BY <2>4, <3>1 DEF decAttRef
      <4> QED BY <2>5, <2>6, <4>2, <4>3, <4>4
    <3>2. CASE y # x
      <4>1. Cardinality(ReferencesIn(AttsAfter(op), y))
              <= Cardinality(ReferencesIn(atts, y))
        BY <2>7, NoMoreReferences
      <4> QED BY <2>4, <2>5, <2>6, <3>2, <4>1
    <3> QED BY <3>1, <3>2
  <2>9. Plain(AttsAfter(op), y)
    <3>1. ASSUME NEW e \in Docs, NEW m \in Names
          PROVE  AttsAfter(op)[e][m] \in {atts[e][m], None}
      BY <2>2, <2>3
    <3> QED BY <2>1, <3>1 DEF Plain
  <2>10. y \in op.clean => RefsAfter(op)[y] = 0
    BY <1>4, <2>4
  <2>11. files \subseteq files' /\ (RefsAfter(op)[y] > 0 => y \in files')
    BY <1>2, <2>8
  <2> HIDE DEF log
  <2> QED BY <1>2, <1>5, <2>1, <2>8, <2>9, <2>10, <2>11, PendingIsSound
<1>7. Begins(w, s, {}, {})
  BY <1>2, <1>4, <1>5 DEF Pends
<1>8. files \subseteq files' /\ files' \subseteq Digests
  BY <1>1, <1>2 DEF TypeOK
<1> HIDE DEF log
<1> QED BY <1>2, <1>6, <1>7, <1>8, BeginsKeepsInv

\* What is not a new stub is what the document has there, or nothing.
LEMMA NoNewStub ==
  ASSUME NEW d \in Docs, NEW doc, NEW ns \in SUBSET Names, NEW n \in ns,
         doc[n] # None, doc[n].of \notin NewStubs(d, doc, ns)
  PROVE  doc[n] = atts[d][n]
BY DEF NewStubs

LEMMA NewStubsAreContents ==
  ASSUME NEW d \in Docs, NEW doc \in Attached, NEW ns \in SUBSET Names
  PROVE  NewStubs(d, doc, ns) \subseteq Digests
BY DEF NewStubs, Attached, Attachment

\* A document put with stubs has no more references to what it does not stub
\* anew.
LEMMA PutDocumentKeepsInv ==
  ASSUME AttachmentsInv, NEW w \in Writers, NEW d \in Docs, NEW doc \in Attached,
         PutDocument(w, d, doc)
  PROVE  AttachmentsInv'
<1> DEFINE log == [doc |-> [e \in {d} |-> doc], puts |-> NoPuts, clean |-> {}]
           stubs == NewStubs(d, doc, Names)
<1>1. TypeOK
  BY DEF AttachmentsInv
<1>2. Pends(w, log, stubs, {}) /\ UNCHANGED <<stored, atts, refs, files>>
  BY DEF PutDocument
<1>3. PICK op \in OpLog : op = log
  <2>1. NoPuts \in [Digests -> -1..MaxRef]
    BY AttachmentsAssumption DEF NoPuts
  <2>2. {d} \in SUBSET Docs /\ [e \in {d} |-> doc] \in [{d} -> Attached]
    OBVIOUS
  <2>3. log \in OpLog
    BY <2>1, <2>2, LogIsTyped
  <2> QED BY <2>3
<1>4. PICK s \in WriterState : s = [phase |-> "pending", op |-> op]
  BY DEF WriterState
<1>5. ASSUME NEW y \in Touched(s), y \notin Disturbed \cup stubs, Undisturbed(y)
      PROVE  Sound(s, y)'
  <2>1. y \in Digests /\ Covered(atts, refs, y) /\ Plain(atts, y)
    BY <1>5 DEF Touched, Undisturbed
  <2>2. AttsAfter(op)[d] = doc /\ \A e \in Docs \ {d} : AttsAfter(op)[e] = atts[e]
    BY <1>3 DEF AttsAfter
  <2>3. ASSUME NEW e \in Docs, NEW m \in Names, AttsAfter(op)[e][m] # None,
               AttsAfter(op)[e][m].of = y
        PROVE  AttsAfter(op)[e][m] = atts[e][m]
    <3>1. CASE e = d
      BY <1>5, <2>2, <2>3, <3>1, NoNewStub
    <3>2. CASE e # d
      BY <2>2, <3>2
    <3> QED BY <3>1, <3>2
  <2>4. RefsAfter(op)[y] = refs[y]
    BY <1>3, <2>1 DEF RefsAfter, NoPuts
  <2>5. ReferencesIn(AttsAfter(op), y) \subseteq ReferencesIn(atts, y)
    <3>1. SUFFICES ASSUME NEW e \in Docs, NEW m \in Names,
                          AttsAfter(op)[e][m] # None, AttsAfter(op)[e][m].of = y
                   PROVE  atts[e][m] # None /\ atts[e][m].of = y
      BY DEF ReferencesIn
    <3> QED BY <2>3, <3>1
  <2>6. /\ RefsAfter(op)[y] >= Cardinality(ReferencesIn(AttsAfter(op), y))
        /\ RefsAfter(op)[y] > 0 => y \in files
    <3>1. Cardinality(ReferencesIn(AttsAfter(op), y))
            <= Cardinality(ReferencesIn(atts, y))
      BY <2>5, NoMoreReferences
    <3>2. /\ refs[y] >= Cardinality(ReferencesIn(atts, y))
          /\ refs[y] > 0 => y \in files
          /\ refs[y] \in Nat
      BY <1>1, <2>1, CountsAreTyped DEF Covered
    <3> QED BY <2>4, <3>1, <3>2, CountsAreNat
  <2>7. Plain(AttsAfter(op), y)
    BY <2>1, <2>3 DEF Plain
  <2>8. y \notin op.clean
    BY <1>3
  <2>9. files \subseteq files' /\ (RefsAfter(op)[y] > 0 => y \in files')
    BY <1>2, <2>6
  <2> HIDE DEF log
  <2> QED BY <1>2, <1>4, <2>1, <2>6, <2>7, <2>8, <2>9, PendingIsSound
<1>6. Begins(w, s, stubs, {})
  BY <1>2, <1>3, <1>4 DEF Pends
<1>7. files \subseteq files' /\ files' \subseteq Digests /\ stubs \subseteq Digests
  BY <1>1, <1>2, NewStubsAreContents DEF TypeOK
<1> HIDE DEF log, stubs
<1> QED BY <1>2, <1>5, <1>6, <1>7, BeginsKeepsInv

LEMMA DeliveriesAreTyped ==
  ASSUME NEW batch \in Deliveries
  PROVE  /\ DOMAIN batch \subseteq Docs
         /\ \A d \in DOMAIN batch :
              /\ batch[d].doc \in Attached
              /\ batch[d].data \subseteq Names
              /\ \A n \in batch[d].data : \E x \in Digests : batch[d].doc[n] = Raw(x)
BY AttachmentsAssumption

\* Of a content that is delivered for one attachment at most, and not as a new
\* stub, the stored documents have at most that one reference more.
LEMMA DeliveredOnce ==
  ASSUME TypeOK, NEW batch \in Deliveries, NEW winners \in SUBSET DOMAIN batch,
         NEW op, op.doc = [d \in winners |-> batch[d].doc],
         NEW y \in Digests,
         \A d \in winners : y \notin NewStubs(d, batch[d].doc, Names \ batch[d].data),
         \A p, q \in DeliveredFor(batch, winners, y) : p = q
  PROVE  /\ \A d \in Docs, n \in Names :
              AttsAfter(op)[d][n] # None /\ AttsAfter(op)[d][n].of = y =>
                AttsAfter(op)[d][n] \in {atts[d][n], Raw(y)}
         /\ Cardinality(ReferencesIn(AttsAfter(op), y))
              <= IF DeliveredFor(batch, DOMAIN batch, y) = {}
                   THEN Cardinality(ReferencesIn(atts, y))
                   ELSE Cardinality(ReferencesIn(atts, y)) + 1
<1>1. ASSUME NEW d \in Docs, NEW n \in Names, AttsAfter(op)[d][n] # None,
             AttsAfter(op)[d][n].of = y
      PROVE  \/ AttsAfter(op)[d][n] = atts[d][n]
             \/ /\ AttsAfter(op)[d][n] = Raw(y)
                /\ <<d, n>> \in DeliveredFor(batch, winners, y)
  <2>1. CASE d \notin winners
    BY <2>1 DEF AttsAfter
  <2>2. CASE d \in winners /\ n \in batch[d].data
    <3>1. AttsAfter(op)[d][n] = batch[d].doc[n]
      BY <2>2 DEF AttsAfter
    <3>2. PICK x \in Digests : batch[d].doc[n] = Raw(x)
      BY <2>2, DeliveriesAreTyped
    <3>3. x = y
      BY <1>1, <3>1, <3>2, RawIsAttachment
    <3> QED BY <2>2, <3>1, <3>2, <3>3 DEF DeliveredFor
  <2>3. CASE d \in winners /\ n \notin batch[d].data
    <3>1. AttsAfter(op)[d][n] = batch[d].doc[n]
      BY <2>3 DEF AttsAfter
    <3>2. PICK doc \in {batch[d].doc}, ns \in {Names \ batch[d].data} : TRUE
      OBVIOUS
    <3>3. /\ n \in ns /\ doc[n] # None
          /\ doc[n].of \notin NewStubs(d, doc, ns)
      BY <1>1, <2>3, <3>1, <3>2
    <3>4. doc[n] = atts[d][n]
      BY <3>3, NoNewStub
    <3> QED BY <3>1, <3>2, <3>4
  <2> QED BY <2>1, <2>2, <2>3
<1>2. ASSUME NEW p \in ReferencesIn(AttsAfter(op), y)
      PROVE  p \in ReferencesIn(atts, y) \/ p \in DeliveredFor(batch, winners, y)
  <2>1. PICK d \in Docs, n \in Names : p = <<d, n>>
    BY <1>2 DEF ReferencesIn
  <2>2. AttsAfter(op)[d][n] # None /\ AttsAfter(op)[d][n].of = y
    BY <1>2, <2>1 DEF ReferencesIn
  <2>3. CASE AttsAfter(op)[d][n] = atts[d][n]
    BY <2>1, <2>2, <2>3 DEF ReferencesIn
  <2>4. CASE <<d, n>> \in DeliveredFor(batch, winners, y)
    BY <2>1, <2>4
  <2> QED BY <1>1, <2>2, <2>3, <2>4
<1>3. \A d \in Docs, n \in Names :
        AttsAfter(op)[d][n] # None /\ AttsAfter(op)[d][n].of = y =>
          AttsAfter(op)[d][n] \in {atts[d][n], Raw(y)}
  BY <1>1
<1>4. CASE DeliveredFor(batch, winners, y) = {}
  <2>1. Cardinality(ReferencesIn(AttsAfter(op), y)) <= Cardinality(ReferencesIn(atts, y))
    BY <1>2, <1>4, NoMoreReferences
  <2>2. Cardinality(ReferencesIn(atts, y)) \in Nat /\ Cardinality(ReferencesIn(AttsAfter(op), y)) \in Nat
    BY CountsAreNat
  <2> QED BY <1>3, <2>1, <2>2
<1>5. CASE DeliveredFor(batch, winners, y) # {}
  <2>1. PICK p : p \in DeliveredFor(batch, winners, y)
    BY <1>5
  <2>2. p \in DeliveredFor(batch, DOMAIN batch, y)
    BY <2>1 DEF DeliveredFor
  <2>3. ReferencesIn(AttsAfter(op), y) \subseteq ReferencesIn(atts, y) \cup {p}
    BY <1>2, <2>1
  <2>4. Cardinality(ReferencesIn(AttsAfter(op), y)) <= Cardinality(ReferencesIn(atts, y)) + 1
    BY <2>3, OneReferenceMore
  <2> QED BY <1>3, <2>2, <2>4
<1> QED BY <1>4, <1>5

\* A delivery counts each of its contents once, and of those it neither stubs
\* anew nor stores twice it adds one reference at most.
LEMMA PutDocumentForReplicationKeepsInv ==
  ASSUME AttachmentsInv, NEW w \in Writers, NEW batch \in Deliveries,
         NEW winners \in SUBSET DOMAIN batch,
         PutDocumentForReplication(w, batch, winners)
  PROVE  AttachmentsInv'
<1> DEFINE xs == {x \in Digests : DeliveredFor(batch, DOMAIN batch, x) # {}}
           doc == [d \in winners |-> batch[d].doc]
           puts == [x \in Digests |-> IF x \in xs THEN incAttRef(x) ELSE -1]
           log == [doc |-> doc, puts |-> puts, clean |-> {}]
           stubs == UNION {NewStubs(d, batch[d].doc, Names \ batch[d].data) : d \in winners}
           twice == {x \in xs : \E p, q \in DeliveredFor(batch, winners, x) : p # q}
<1>1. TypeOK
  BY DEF AttachmentsInv
<1>2. /\ Pends(w, log, stubs, twice) /\ UNCHANGED <<stored, atts, refs>>
      /\ files' = files \cup xs
      /\ \A x \in xs : refs[x] < MaxRef
  BY DEF PutDocumentForReplication
<1>3. winners \in SUBSET Docs /\ \A d \in winners : batch[d].doc \in Attached
  BY DeliveriesAreTyped
<1>4. PICK op \in OpLog : op = log
  <2>1. puts \in [Digests -> -1..MaxRef]
    <3>1. \A x \in xs : incAttRef(x) \in -1..MaxRef
      BY <1>1, <1>2, CountsAreTyped, AttachmentsAssumption
    <3> QED BY <3>1, AttachmentsAssumption
  <2>2. doc \in [winners -> Attached]
    BY <1>3
  <2>3. log \in OpLog
    BY <1>3, <2>1, <2>2, LogIsTyped
  <2> QED BY <2>3
<1>5. PICK s \in WriterState : s = [phase |-> "pending", op |-> op]
  BY DEF WriterState
<1>6. ASSUME NEW y \in Touched(s), y \notin Disturbed \cup stubs \cup twice, Undisturbed(y)
      PROVE  Sound(s, y)'
  <2>1. y \in Digests /\ Covered(atts, refs, y) /\ Plain(atts, y)
    BY <1>6 DEF Touched, Undisturbed
  <2>2. \A p, q \in DeliveredFor(batch, winners, y) : p = q
    <3>1. SUFFICES ASSUME NEW p \in DeliveredFor(batch, winners, y),
                          NEW q \in DeliveredFor(batch, winners, y), p # q
                   PROVE  FALSE
      OBVIOUS
    <3>2. p \in DeliveredFor(batch, DOMAIN batch, y)
      BY DEF DeliveredFor
    <3> QED BY <1>6, <2>1, <3>1, <3>2
  <2>3. \A d \in winners : y \notin NewStubs(d, batch[d].doc, Names \ batch[d].data)
    BY <1>6
  <2>4. op.doc = doc
    BY <1>4
  <2>5. /\ \A d \in Docs, n \in Names :
             AttsAfter(op)[d][n] # None /\ AttsAfter(op)[d][n].of = y =>
               AttsAfter(op)[d][n] \in {atts[d][n], Raw(y)}
        /\ Cardinality(ReferencesIn(AttsAfter(op), y))
             <= IF DeliveredFor(batch, DOMAIN batch, y) = {}
                  THEN Cardinality(ReferencesIn(atts, y))
                  ELSE Cardinality(ReferencesIn(atts, y)) + 1
    BY <1>1, <2>1, <2>2, <2>3, <2>4, DeliveredOnce
  <2>6. RefsAfter(op)[y] = IF y \in xs THEN refs[y] + 1 ELSE refs[y]
    BY <1>1, <1>4, <2>1, CountsAreTyped DEF RefsAfter, incAttRef
  <2>7. /\ refs[y] >= Cardinality(ReferencesIn(atts, y))
        /\ refs[y] > 0 => y \in files
        /\ refs[y] \in Nat
    BY <1>1, <2>1, CountsAreTyped DEF Covered
  <2>8. y \in xs <=> DeliveredFor(batch, DOMAIN batch, y) # {}
    BY <2>1
  <2>9. /\ Cardinality(ReferencesIn(atts, y)) \in Nat
        /\ Cardinality(ReferencesIn(AttsAfter(op), y)) \in Nat
    BY CountsAreNat
  <2> HIDE DEF xs
  <2>10. RefsAfter(op)[y] >= Cardinality(ReferencesIn(AttsAfter(op), y))
    BY <2>5, <2>6, <2>7, <2>8, <2>9
  <2>11. files \subseteq files' /\ (RefsAfter(op)[y] > 0 => y \in files')
    BY <1>2, <2>6, <2>7
  <2>12. Plain(AttsAfter(op), y)
    BY <2>1, <2>5 DEF Plain
  <2>13. y \notin op.clean
    BY <1>4
  <2> HIDE DEF log
  <2> QED BY <1>2, <1>5, <2>1, <2>10, <2>11, <2>12, <2>13, PendingIsSound
<1>7. Begins(w, s, stubs, twice)
  BY <1>2, <1>4, <1>5 DEF Pends
<1>8. files \subseteq files' /\ files' \subseteq Digests
  BY <1>1, <1>2 DEF TypeOK
<1>9. stubs \subseteq Digests /\ twice \subseteq Digests
  <2>1. ASSUME NEW d \in winners
        PROVE  NewStubs(d, batch[d].doc, Names \ batch[d].data) \subseteq Digests
    BY <1>3, NewStubsAreContents
  <2> QED BY <2>1
<1> HIDE DEF log, stubs, twice
<1> QED BY <1>2, <1>6, <1>7, <1>8, <1>9, BeginsKeepsInv

-----------------------------------------------------------------------------
(* The end of a request. *)

\* A log that does not touch x takes references to it away, if anything.
LEMMA UntouchedLog ==
  ASSUME TypeOK, NEW op \in OpLog, NEW x \in Digests,
         x \notin Touched([phase |-> "pending", op |-> op])
  PROVE  /\ RefsAfter(op)[x] = refs[x]
         /\ \A d \in Docs, n \in Names :
              AttsAfter(op)[d][n] # None /\ AttsAfter(op)[d][n].of = x =>
                AttsAfter(op)[d][n] = atts[d][n]
<1>1. /\ op.puts[x] = -1
      /\ \A d \in DOMAIN op.doc : x \notin Contents(op.doc[d])
  BY DEF Touched
<1>2. RefsAfter(op)[x] = refs[x]
  BY <1>1 DEF RefsAfter
<1>3. ASSUME NEW d \in Docs, NEW n \in Names,
             AttsAfter(op)[d][n] # None, AttsAfter(op)[d][n].of = x
      PROVE  AttsAfter(op)[d][n] = atts[d][n]
  BY <1>1, <1>3 DEF AttsAfter, Contents
<1> QED BY <1>2, <1>3

\* Any log covers x still once references to it are gone and its count is not
\* changed.
LEMMA CoversWithLess ==
  ASSUME NEW op \in OpLog, NEW x \in Digests, Covers(op, x), TypeOK,
         files' = files, refs'[x] = refs[x], DOMAIN refs' = DOMAIN refs,
         \A d \in Docs, n \in Names :
           atts'[d][n] # None /\ atts'[d][n].of = x => atts'[d][n] = atts[d][n]
  PROVE  Covers(op, x)'
<1>1. RefsAfter(op)'[x] = RefsAfter(op)[x]
  BY DEF RefsAfter
<1>2. ASSUME NEW d \in Docs, NEW n \in Names,
             AttsAfter(op)'[d][n] # None, AttsAfter(op)'[d][n].of = x
      PROVE  AttsAfter(op)'[d][n] = AttsAfter(op)[d][n]
  BY <1>2 DEF AttsAfter
<1>3. ReferencesIn(AttsAfter(op)', x) \subseteq ReferencesIn(AttsAfter(op), x)
  BY <1>2 DEF ReferencesIn
<1>4. Cardinality(ReferencesIn(AttsAfter(op)', x)) <= Cardinality(ReferencesIn(AttsAfter(op), x))
  BY <1>3, NoMoreReferences
<1>5. /\ RefsAfter(op)[x] >= Cardinality(ReferencesIn(AttsAfter(op), x))
      /\ RefsAfter(op)[x] > 0 => x \in files
      /\ Plain(AttsAfter(op), x)
      /\ x \in op.clean => RefsAfter(op)[x] = 0
  BY DEF Covers, Covered
<1>6. ReferencesIn(AttsAfter(op), x)' = ReferencesIn(AttsAfter(op)', x)
  BY DEF ReferencesIn
<1>7. Covered(AttsAfter(op), RefsAfter(op), x)'
  <2>1. RefsAfter(op)'[x] >= Cardinality(ReferencesIn(AttsAfter(op)', x))
    <3>1. /\ Cardinality(ReferencesIn(AttsAfter(op), x)) \in Nat
          /\ Cardinality(ReferencesIn(AttsAfter(op)', x)) \in Nat
      BY CountsAreNat
    <3>2. RefsAfter(op)[x] \in Int
      BY CountsAreTyped, LogsAreTyped DEF RefsAfter
    <3> QED BY <1>1, <1>4, <1>5, <3>1, <3>2
  <2>2. RefsAfter(op)'[x] > 0 => x \in files'
    BY <1>1, <1>5
  <2> QED BY <1>6, <2>1, <2>2 DEF Covered
<1>8. Plain(AttsAfter(op), x)'
  BY <1>2, <1>5 DEF Plain
<1> QED BY <1>1, <1>5, <1>7, <1>8 DEF Covers

LEMMA CommitKeepsInv ==
  ASSUME AttachmentsInv, NEW w \in Writers, Commit(w)
  PROVE  AttachmentsInv'
<1>1. TypeOK
  BY DEF AttachmentsInv
<1>2. PICK op \in OpLog : op = writer[w].op
  BY <1>1, Phases DEF Commit
<1>3. PICK done \in WriterState : done = [phase |-> "committed", clean |-> op.clean]
  BY LogsAreTyped DEF WriterState
<1>4. /\ writer[w].phase = "pending"
      /\ stored' = stored \cup DOMAIN op.doc
      /\ atts' = AttsAfter(op) /\ refs' = RefsAfter(op)
      /\ writer' = [writer EXCEPT ![w] = done]
      /\ UNCHANGED <<files, disturbed>>
  BY <1>2, <1>3 DEF Commit
<1>5. TypeOK'
  <2>1. stored' \subseteq Docs
    BY <1>1, <1>4, LogsAreTyped DEF TypeOK
  <2>2. atts' \in [Docs -> Attached]
    BY <1>1, <1>4, LogsAreTyped DEF TypeOK, AttsAfter
  <2>3. refs' \in [Digests -> 0..MaxRef]
    BY <1>1, <1>4, LogsAreTyped, AttachmentsAssumption DEF TypeOK, RefsAfter
  <2>4. writer' \in [Writers -> WriterState]
    BY <1>1, <1>4 DEF TypeOK
  <2> QED BY <1>1, <1>4, <2>1, <2>2, <2>3, <2>4 DEF TypeOK
<1>6. writer'[w] = done /\ \A v \in Writers \ {w} : writer'[v] = writer[v]
  BY <1>1, <1>4 DEF TypeOK
<1>7. Touched(writer[w]) = Touched([phase |-> "pending", op |-> op])
  BY <1>2, <1>4 DEF Touched
<1>8. \A v \in Writers : Touched(writer[v])' = Touched(writer'[v])
  BY DEF Touched
<1>9. \A x \in Touched(done) : x \in op.clean
  BY <1>3 DEF Touched
<1>10. ASSUME NEW x \in Digests, x \notin Disturbed', x \in Touched(writer[w])
       PROVE  Undisturbed(x)'
  <2>1. Undisturbed(x)
    BY <1>4, <1>10 DEF AttachmentsInv, Disturbed
  <2>2. Covers(op, x)
    BY <1>2, <1>4, <1>10, <2>1 DEF Undisturbed, TouchedSoundly, Sound
  <2>3. Covered(atts, refs, x)' /\ Plain(atts, x)'
    BY <1>4, <2>2 DEF Covers, Covered, Plain, ReferencesIn
  <2>4. \A v \in Writers \ {w} : x \notin Touched(writer[v])
    BY <1>10, <2>1 DEF Undisturbed, OneAtATime
  <2>5. \A v \in Writers : x \in Touched(writer'[v]) => v = w
    BY <1>6, <2>4
  <2>6. OneAtATime(x)'
    BY <1>8, <2>5 DEF OneAtATime
  <2>7. x \in Touched(done) => refs'[x] = 0
    BY <1>4, <1>9, <2>2 DEF Covers
  <2>8. TouchedSoundly(x)'
    BY <1>3, <1>6, <1>8, <2>5, <2>7 DEF TouchedSoundly, Sound
  <2> QED BY <2>3, <2>6, <2>8 DEF Undisturbed
<1>11. ASSUME NEW x \in Digests, x \notin Disturbed', x \notin Touched(writer[w])
       PROVE  Undisturbed(x)'
  <2>1. Undisturbed(x)
    BY <1>4, <1>11 DEF AttachmentsInv, Disturbed
  <2>2. /\ refs'[x] = refs[x]
        /\ \A d \in Docs, n \in Names :
             atts'[d][n] # None /\ atts'[d][n].of = x => atts'[d][n] = atts[d][n]
    BY <1>1, <1>4, <1>7, <1>11, UntouchedLog
  <2>3. x \notin Touched(done)
    <3>1. x \notin op.clean
      BY <1>7, <1>11 DEF Touched
    <3> QED BY <1>9, <3>1
  <2>4. Covered(atts, refs, x)'
    <3>1. ReferencesIn(atts', x) \subseteq ReferencesIn(atts, x)
      BY <2>2 DEF ReferencesIn
    <3>2. Cardinality(ReferencesIn(atts', x)) <= Cardinality(ReferencesIn(atts, x))
      BY <3>1, NoMoreReferences
    <3>3. /\ refs[x] >= Cardinality(ReferencesIn(atts, x)) /\ refs[x] \in Nat
          /\ refs[x] > 0 => x \in files
      BY <1>1, <2>1, CountsAreTyped DEF Undisturbed, Covered
    <3>4. refs'[x] >= Cardinality(ReferencesIn(atts', x))
      BY <2>2, <3>2, <3>3, CountsAreNat
    <3> QED BY <1>4, <2>2, <3>3, <3>4 DEF Covered, ReferencesIn
  <2>5. Plain(atts, x)'
    BY <2>1, <2>2 DEF Undisturbed, Plain
  <2>6. OneAtATime(x)'
    BY <1>6, <1>8, <2>1, <2>3 DEF Undisturbed, OneAtATime
  <2>7. TouchedSoundly(x)'
    <3>1. SUFFICES ASSUME NEW v \in Writers, x \in Touched(writer'[v])
                   PROVE  Sound(writer[v], x)'
      BY <1>8 DEF TouchedSoundly
    <3>2. v # w /\ writer'[v] = writer[v]
      BY <1>6, <2>3, <3>1
    <3>3. PICK r \in WriterState : r = writer[v]
      BY <1>1 DEF TypeOK
    <3>4. Sound(r, x)
      BY <2>1, <3>1, <3>2, <3>3 DEF Undisturbed, TouchedSoundly
    <3>5. Sound(r, x)'
      <4>1. r.phase = "moved" => x \in files'
        BY <1>4, <3>4 DEF Sound
      <4>2. r.phase = "committed" => refs'[x] = 0
        BY <2>2, <3>4 DEF Sound
      <4>3. r.phase = "pending" => Covers(r.op, x)'
        <5>1. SUFFICES ASSUME NEW o \in OpLog, o = r.op, r.phase = "pending"
                       PROVE  Covers(o, x)'
          BY <1>1, <3>3, Phases
        <5>2. Covers(o, x)
          BY <3>4, <5>1 DEF Sound
        <5>3. DOMAIN refs' = DOMAIN refs
          BY <1>1, <1>5 DEF TypeOK
        <5> QED BY <1>1, <1>4, <2>2, <5>2, <5>3, CoversWithLess
      <4> QED BY <4>1, <4>2, <4>3 DEF Sound
    <3> QED BY <3>2, <3>3, <3>5 DEF Sound, Covers, Covered, Plain, AttsAfter, RefsAfter
  <2> QED BY <2>4, <2>5, <2>6, <2>7 DEF Undisturbed
<1> QED BY <1>5, <1>10, <1>11 DEF AttachmentsInv

\* What is removed is not counted.
LEMMA RemoveBlobKeepsInv ==
  ASSUME AttachmentsInv, NEW w \in Writers, RemoveBlob(w)
  PROVE  AttachmentsInv'
<1>1. TypeOK
  BY DEF AttachmentsInv
<1>2. /\ writer[w].phase = "committed" /\ files' = files \ writer[w].clean
      /\ writer' = [writer EXCEPT ![w] = Idle]
      /\ UNCHANGED <<stored, atts, refs, disturbed>>
  BY DEF RemoveBlob
<1>3. TypeOK'
  BY <1>1, <1>2 DEF TypeOK, WriterState, Idle
<1>4. \A v \in Writers : Touched(writer[v])' = Touched(writer'[v])
  BY DEF Touched
<1>5. writer'[w] = Idle /\ \A v \in Writers \ {w} : writer'[v] = writer[v]
  BY <1>1, <1>2 DEF TypeOK
<1>6. Touched(Idle) = {}
  BY DEF Touched, Idle
<1>7. ASSUME NEW x \in Digests, x \notin Disturbed'
      PROVE  Undisturbed(x)'
  <2>1. Undisturbed(x)
    BY <1>2, <1>7 DEF AttachmentsInv, Disturbed
  <2>2. x \in writer[w].clean =>
          refs[x] = 0 /\ \A v \in Writers \ {w} : x \notin Touched(writer[v])
    BY <1>2, <2>1 DEF Undisturbed, OneAtATime, TouchedSoundly, Touched, Sound
  <2>3. x \notin writer[w].clean => (x \in files' <=> x \in files)
    BY <1>2
  <2>4. Covered(atts, refs, x)' /\ Plain(atts, x)'
    BY <1>2, <2>1, <2>2, <2>3 DEF Undisturbed, Covered, ReferencesIn, Plain
  <2>5. OneAtATime(x)'
    BY <1>4, <1>5, <1>6, <2>1 DEF Undisturbed, OneAtATime
  <2>6. TouchedSoundly(x)'
    <3>1. SUFFICES ASSUME NEW v \in Writers, x \in Touched(writer'[v])
                   PROVE  Sound(writer[v], x)'
      BY <1>4 DEF TouchedSoundly
    <3>2. v # w /\ writer'[v] = writer[v] /\ x \notin writer[w].clean
      BY <1>5, <1>6, <2>2, <3>1
    <3>3. PICK r \in WriterState : r = writer[v]
      BY <1>1 DEF TypeOK
    <3>4. Sound(r, x)
      BY <2>1, <3>1, <3>2, <3>3 DEF Undisturbed, TouchedSoundly
    <3>5. Sound(r, x)'
      BY <1>2, <2>3, <3>2, <3>4
      DEF Sound, Covers, Covered, Plain, AttsAfter, RefsAfter, ReferencesIn
    <3> QED BY <3>2, <3>3, <3>5 DEF Sound, Covers, Covered, Plain, AttsAfter, RefsAfter
  <2> QED BY <2>4, <2>5, <2>6 DEF Undisturbed
<1> QED BY <1>3, <1>7 DEF AttachmentsInv

\* A request that ends without a transaction leaves nothing behind that was
\* not allowed before it, nor does the end of all of them.
LEMMA EndKeepsInv ==
  ASSUME AttachmentsInv, UNCHANGED <<stored, atts, refs, files, disturbed>>,
         writer' \in [Writers -> WriterState],
         \A w \in Writers : writer'[w] \in {Idle, writer[w]}
  PROVE  AttachmentsInv'
<1>1. TypeOK
  BY DEF AttachmentsInv
<1>2. TypeOK'
  BY <1>1 DEF TypeOK
<1>3. \A v \in Writers : Touched(writer[v])' = Touched(writer'[v])
  BY DEF Touched
<1>4. Touched(Idle) = {}
  BY DEF Touched, Idle
<1>5. ASSUME NEW x \in Digests, x \notin Disturbed'
      PROVE  Undisturbed(x)'
  <2>1. Undisturbed(x)
    BY <1>5 DEF AttachmentsInv, Disturbed
  <2>2. \A v \in Writers : x \in Touched(writer'[v]) => writer'[v] = writer[v]
    BY <1>4
  <2>3. Covered(atts, refs, x)' /\ Plain(atts, x)'
    BY <2>1 DEF Undisturbed, Covered, ReferencesIn, Plain
  <2>4. OneAtATime(x)'
    BY <1>3, <2>1, <2>2 DEF Undisturbed, OneAtATime
  <2>5. TouchedSoundly(x)'
    <3>1. SUFFICES ASSUME NEW v \in Writers, x \in Touched(writer'[v])
                   PROVE  Sound(writer[v], x)'
      BY <1>3 DEF TouchedSoundly
    <3>2. PICK r \in WriterState : r = writer[v]
      BY <1>1 DEF TypeOK
    <3>3. writer'[v] = r /\ Sound(r, x)
      BY <2>1, <2>2, <3>1, <3>2 DEF Undisturbed, TouchedSoundly
    <3>4. Sound(r, x)'
      BY <3>3, SoundStays
    <3> QED BY <3>3, <3>4 DEF Sound, Covers, Covered, Plain, AttsAfter, RefsAfter
  <2> QED BY <2>3, <2>4, <2>5 DEF Undisturbed
<1> QED BY <1>2, <1>5 DEF AttachmentsInv

-----------------------------------------------------------------------------
(* The theorems. *)

LEMMA InitEstablishesInv ==
  ASSUME Init
  PROVE  AttachmentsInv
<1>1. Idle \in WriterState
  BY DEF Idle, WriterState
<1>2. Nothing \in Attached
  BY DEF Nothing, Attached
<1>3. TypeOK
  <2>1. atts \in [Docs -> Attached] /\ writer \in [Writers -> WriterState]
    BY <1>1, <1>2 DEF Init
  <2>2. refs \in [Digests -> 0..MaxRef] /\ disturbed \in Causes
    BY AttachmentsAssumption DEF Init, Causes
  <2> QED BY <2>1, <2>2 DEF Init, TypeOK
<1>4. ASSUME NEW x \in Digests
      PROVE  Undisturbed(x)
  <2>1. ReferencesIn(atts, x) = {}
    BY DEF Init, ReferencesIn, Nothing
  <2>2. Covered(atts, refs, x)
    BY <2>1, FS_EmptySet DEF Init, Covered
  <2>3. Plain(atts, x)
    BY DEF Init, Plain, Nothing
  <2>4. \A w \in Writers : Touched(writer[w]) = {}
    BY DEF Init, Idle, Touched
  <2> QED BY <2>2, <2>3, <2>4 DEF Undisturbed, OneAtATime, TouchedSoundly
<1> QED BY <1>3, <1>4 DEF AttachmentsInv

LEMMA StepKeepsInv ==
  ASSUME AttachmentsInv, [Next]_vars
  PROVE  AttachmentsInv'
<1>1. TypeOK
  BY DEF AttachmentsInv
<1>2. ASSUME NEW w \in Writers, PutAttachmentFails(w) PROVE AttachmentsInv'
  <2>1. writer' \in [Writers -> WriterState]
    BY <1>1, <1>2 DEF TypeOK, WriterState, Idle, PutAttachmentFails
  <2> QED BY <1>1, <1>2, <2>1, EndKeepsInv DEF PutAttachmentFails, TypeOK
<1>3. ASSUME NEW w \in Writers, PutAttachment(w) PROVE AttachmentsInv'
  BY <1>3, PutAttachmentKeepsInv
<1>4. ASSUME NEW w \in Writers, Commit(w) PROVE AttachmentsInv'
  BY <1>4, CommitKeepsInv
<1>5. ASSUME NEW w \in Writers, RemoveBlob(w) PROVE AttachmentsInv'
  BY <1>5, RemoveBlobKeepsInv
<1>6. ASSUME NEW w \in Writers, NEW d \in Docs, NEW n \in Names,
             \/ \E x \in Digests : MoveUpload(w, d, n, x)
             \/ DeleteAttachment(w, d, n)
      PROVE  AttachmentsInv'
  BY <1>6, MoveUploadKeepsInv, DeleteAttachmentKeepsInv
<1>7. ASSUME NEW w \in Writers, NEW d \in Docs, NEW doc \in Attached,
             PutDocument(w, d, doc)
      PROVE  AttachmentsInv'
  BY <1>7, PutDocumentKeepsInv
<1>8. ASSUME NEW w \in Writers, NEW d \in Docs, DeleteDocument(w, d)
      PROVE  AttachmentsInv'
  <2>1. Nothing \in Attached
    BY DEF Nothing, Attached
  <2> QED BY <1>8, <2>1, PutDocumentKeepsInv DEF DeleteDocument
<1>9. ASSUME NEW w \in Writers, NEW batch \in Deliveries,
             NEW winners \in SUBSET DOMAIN batch,
             PutDocumentForReplication(w, batch, winners)
      PROVE  AttachmentsInv'
  BY <1>9, PutDocumentForReplicationKeepsInv
<1>10. ASSUME Crash PROVE AttachmentsInv'
  <2>1. writer' \in [Writers -> WriterState]
    BY <1>10 DEF WriterState, Idle, Crash
  <2> QED BY <1>10, <2>1, EndKeepsInv DEF Crash
<1>11. ASSUME UNCHANGED vars PROVE AttachmentsInv'
  BY <1>1, <1>11, EndKeepsInv DEF vars, TypeOK
<1> QED BY <1>2, <1>3, <1>4, <1>5, <1>6, <1>7, <1>8, <1>9, <1>10, <1>11 DEF Next

\* A content that nothing disturbed is counted as often as it is referred to,
\* on disk when it is counted, and uncounted when it is removed, after every
\* step of every request, whatever happens to other contents at the same time;
\* for any documents, names, contents, requests and deliveries.
THEOREM AttachmentsInductive == Spec => []AttachmentsInv
<1>1. Init => AttachmentsInv
  BY InitEstablishesInv
<1>2. AttachmentsInv /\ [Next]_vars => AttachmentsInv'
  BY StepKeepsInv
<1> QED BY <1>1, <1>2, PTL DEF Spec

\* A blob is counted at least as often as documents refer to it, and what is
\* counted is on disk, also in the middle of a request and after a crash, until
\* requests that touch it overlap, or it is stubbed anew or delivered twice.
THEOREM CountsCoverReferences == Spec => []RefsCoverReferences
<1>1. AttachmentsInv => RefsCoverReferences
  BY DEF AttachmentsInv, Undisturbed, Covered, RefsCoverReferences, References
<1> QED BY <1>1, AttachmentsInductive, PTL

\* Until then, the content of every attachment of a document is on disk.
THEOREM BlobsAlwaysPersist == Spec => []BlobsPersist
<1>1. ASSUME AttachmentsInv, NEW x \in Digests, x \notin Disturbed, References(x) # {}
      PROVE  x \in files
  <2>1. TypeOK /\ Covered(atts, refs, x)
    BY <1>1 DEF AttachmentsInv, Undisturbed
  <2>2. PICK p : p \in ReferencesIn(atts, x)
    BY <1>1 DEF References
  <2>3. refs[x] >= 1
    BY <2>1, <2>2, ReferencedIsCounted
  <2> QED BY <2>1, <2>3, CountsAreTyped DEF Covered
<1>2. AttachmentsInv => BlobsPersist
  BY <1>1 DEF BlobsPersist, Persists
<1> QED BY <1>2, AttachmentsInductive, PTL

=============================================================================
