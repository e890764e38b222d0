---------------------------- MODULE MCAttachments ----------------------------
(* Instances of Attachments for TLC. *)
EXTENDS Attachments, TLC

CONSTANTS d1, d2, n1, n2, x1, x2, w1, w2

Symmetry ==
  Permutations(Docs) \cup Permutations(Names) \cup Permutations(Digests)
    \cup Permutations(Writers)

\* What a peer may deliver at one name: nothing, a stub, or a content.
Entries ==
  [att : Attachment \cup {None}, data : {FALSE}] \cup [att : {Raw(x) : x \in Digests}, data : {TRUE}]

\* Deliveries of all documents with at most two attachments.
FewAttachments ==
  {[d \in Docs |-> [doc  |-> [n \in Names |-> f[d][n].att],
                    data |-> {n \in Names : f[d][n].data}]] :
     f \in {g \in [Docs -> [Names -> Entries]] :
              Cardinality({p \in Docs \X Names : g[p[1]][p[2]].att # None}) <= 2}}

\* The attachments that are, or that an open request is about to store.
InUse ==
  {p \in Docs \X Names :
     \/ atts[p[1]][p[2]] # None
     \/ \E w \in Writers :
          \/ writer[w].phase = "moved" /\ p = <<writer[w].id, writer[w].name>>
          \/ writer[w].phase = "pending" /\ AttsAfter(writer[w].op)[p[1]][p[2]] # None}

\* Bound: three attachments in use, and one once a content is disturbed, while
\* another one is not; the properties leave out what is disturbed.
Calm ==
  /\ Disturbed # Digests
  /\ Cardinality(InUse) <= IF Disturbed = {} THEN 3 ELSE 1

=============================================================================
