------------------------------ MODULE LiveFeed ------------------------------
(***************************************************************************)
(* The push side of the changes feed.  Every committed document write      *)
(* starts a goroutine that calls the registered change listeners one after *)
(* the other.  Streams are continuous and eventsource requests: they       *)
(* register a listener, read the feed once and then write out what the     *)
(* listener buffered.  Polls are longpoll requests: Database.Changes waits *)
(* on a channel that its listener and its timer both send to.              *)
(***************************************************************************)
EXTENDS DocStore, Changes

CONSTANTS Streams,   \* continuous and eventsource requests
          Polls,     \* longpoll requests
          Capacity,  \* the length of a stream's buffer (10 in the code)
          MaxNotes   \* bound: notification goroutines at one time

ASSUME LiveFeedAssumption ==
  /\ Streams \cap (Polls \X {1, 2}) = {}
  /\ Capacity \in Nat \ {0}
  /\ MaxNotes \in Nat

VARIABLES listener,  \* the registered listeners
          notes,     \* the notification goroutines that have not ended
          stream,    \* the state of each stream
          poll       \* the state of each poll

liveVars == <<vars, listener, notes, stream, poll>>

\* A poll that found nothing waits, and reads, once more; each time it makes
\* a channel, a timer and a listener of its own.
Attempts == {1, 2}

Listeners == Streams \cup (Polls \X Attempts)

\* all: the listeners there were when the goroutine began to range over them;
\* seen: those it called; sending: the one whose channel it is sending to, if
\* any; gone: those it will delete when it is done.
NoteState ==
  [id : Docs, ranging : BOOLEAN, all : SUBSET Listeners,
   seen : SUBSET Listeners, sending : SUBSET Listeners, gone : SUBSET Listeners]

\* buf: what the listener passed on; since: the sequence written last; got:
\* the revisions written; dropped: history, the buffer was once full.
StreamState ==
  [phase : {"off", "registered", "live", "closed"},
   buf : BoundedSeq(Docs, Capacity), since : 0..MaxSeq,
   got : [Docs -> Rev \cup {NoRev}], dropped : BOOLEAN]

\* asked: the since of the request; since: options.Since, which the listener
\* overwrites; ch: how many values each channel holds; woken: history, the
\* documents the listener was called with; answer: the documents answered.
PollState ==
  [phase : {"idle", "waiting", "reading", "answered"},
   asked : {Now} \cup 0..MaxSeq, since : {Now, MinusOne} \cup 0..MaxSeq,
   attempt : 0..2, ch : [Attempts -> 0..1],
   timer : [Attempts -> {"off", "armed", "sending"}],
   woken : SUBSET Docs, answer : SUBSET Docs]

LiveTypeOK ==
  /\ TypeOK
  /\ listener \subseteq Listeners
  /\ \A i \in DOMAIN notes : notes[i] \in NoteState
  /\ stream \in [Streams -> StreamState]
  /\ poll \in [Polls -> PollState]

LiveInit ==
  /\ Init
  /\ listener = {}
  /\ notes = <<>>
  /\ stream = [s \in Streams |->
                 [phase |-> "off", buf |-> <<>>, since |-> 0,
                  got |-> [d \in Docs |-> NoRev], dropped |-> FALSE]]
  /\ poll = [p \in Polls |->
               [phase |-> "idle", asked |-> Now, since |-> Now, attempt |-> 0,
                ch |-> [a \in Attempts |-> 0],
                timer |-> [a \in Attempts |-> "off"],
                woken |-> {}, answer |-> {}]]

-----------------------------------------------------------------------------
(* Writing documents. *)

NotifyDocumentUpdate(d) ==
  /\ Len(notes) < MaxNotes
  /\ notes' = Append(notes, [id |-> d, ranging |-> FALSE, all |-> {},
                             seen |-> {}, sending |-> {}, gone |-> {}])

CommitAndNotify(w, p) == Commit(w, p) /\ NotifyDocumentUpdate(p.op.id)

\* Mutant: the writer notifies when its transaction begins.
NotifyEarly ==
  /\ UNCHANGED <<listener, stream, poll>>
  /\ \/ /\ BeginEdit
        /\ \E w \in Writers : \E p \in pend'[w] :
             p \notin pend[w] /\ NotifyDocumentUpdate(p.op.id)
     \/ CommitNext /\ UNCHANGED notes

\* A write whose transaction was committed notifies, whether or not it
\* changed the winning revision.
Write ==
  /\ UNCHANGED <<listener, stream, poll>>
  /\ \/ BeginEdit /\ UNCHANGED notes
     \/ \E w \in Writers : \E p \in pend[w] : CommitAndNotify(w, p)

-----------------------------------------------------------------------------
(* A notification goroutine: note i ranges over the listeners. *)

RangeBegins(i) ==
  /\ ~notes[i].ranging
  /\ notes' = [notes EXCEPT ![i].ranging = TRUE, ![i].all = listener]
  /\ UNCHANGED <<vars, listener, stream, poll>>

\* The range meets a listener at most once, and may or may not meet one that
\* was added or deleted since it began.
Meets(i, l) ==
  /\ notes[i].ranging
  /\ notes[i].sending = {}
  /\ l \in (listener \cup notes[i].all) \ notes[i].seen

\* The listener of a stream never waits: a full buffer drops the document.
\* Once the request is over, the select may still find room in the buffer.
CallStream(i, s) ==
  /\ Meets(i, s)
  /\ LET full == Len(stream[s].buf) = Capacity
         push == [stream EXCEPT ![s].buf = Append(@, notes[i].id)]
     IN  \/ /\ stream[s].phase # "closed"
            /\ stream' = IF full THEN [stream EXCEPT ![s].dropped = TRUE]
                         ELSE push
            /\ notes' = [notes EXCEPT ![i].seen = @ \cup {s}]
         \/ /\ stream[s].phase = "closed"
            /\ \E gone \in {{}, {s}} :
                 notes' = [notes EXCEPT ![i].seen = @ \cup {s},
                                        ![i].gone = @ \cup gone]
            /\ UNCHANGED stream
  /\ UNCHANGED <<vars, listener, poll>>

\* The listener of a poll first overwrites options.Since: the notified document
\* has no local sequence, which makes it "-1".
CallPoll(i, l) ==
  /\ Meets(i, l)
  /\ poll' = [poll EXCEPT ![l[1]].since = MinusOne,
                          ![l[1]].woken = @ \cup {notes[i].id}]
  /\ notes' = [notes EXCEPT ![i].seen = @ \cup {l}, ![i].sending = {l}]
  /\ UNCHANGED <<vars, listener, stream>>

\* Then it sends, as soon as the channel has room.
PollListenerSends(i, l) ==
  /\ l \in notes[i].sending
  /\ poll[l[1]].ch[l[2]] = 0
  /\ poll' = [poll EXCEPT ![l[1]].ch[l[2]] = 1]
  /\ notes' = [notes EXCEPT ![i].sending = {}, ![i].gone = @ \cup {l}]
  /\ UNCHANGED <<vars, listener, stream>>

RangeEnds(i) ==
  /\ notes[i].ranging
  /\ notes[i].sending = {}
  /\ notes[i].all \cap listener \subseteq notes[i].seen
  /\ listener' = listener \ notes[i].gone
  /\ notes' = RemoveAt(notes, i)
  /\ UNCHANGED <<vars, stream, poll>>

Notify ==
  \E i \in DOMAIN notes :
    \/ RangeBegins(i)
    \/ \E s \in Streams : CallStream(i, s)
    \/ \E l \in Polls \X Attempts : CallPoll(i, l) \/ PollListenerSends(i, l)
    \/ RangeEnds(i)

-----------------------------------------------------------------------------
(* A stream. *)

StreamRegisters(s) ==
  /\ stream[s].phase = "off"
  /\ stream' = [stream EXCEPT ![s].phase = "registered"]
  /\ listener' = listener \cup {s}
  /\ UNCHANGED <<vars, notes, poll>>

StreamReads(s) ==
  /\ stream[s].phase = "registered"
  /\ \E answer \in {Changes(db, Start, Limit)} :
       stream' = [stream EXCEPT
         ![s].phase = "live",
         ![s].got = Received(@, answer),
         ![s].since = IF answer.docs = <<>> THEN @
                      ELSE answer.docs[Len(answer.docs)].seq]
  /\ UNCHANGED <<vars, listener, notes, poll>>

\* The document is read again; what is not after since is skipped.
StreamTakes(s) ==
  /\ stream[s].phase = "live"
  /\ stream[s].buf # <<>>
  /\ LET d   == Head(stream[s].buf)
         doc == Result(db, d)
     IN  stream' = [stream EXCEPT
           ![s].buf = Tail(@),
           ![s].since = IF doc.seq > @ THEN doc.seq ELSE @,
           ![s].got[d] = IF doc.seq > stream[s].since THEN doc.rev ELSE @]
  /\ UNCHANGED <<vars, listener, notes, poll>>

\* The client goes away or the stream was idle for its timeout.
StreamCloses(s) ==
  /\ stream[s].phase = "live"
  /\ stream' = [stream EXCEPT ![s].phase = "closed", ![s].buf = <<>>]
  /\ UNCHANGED <<vars, listener, notes, poll>>

-----------------------------------------------------------------------------
(* A longpoll request. *)

\* options.Since is as asked; a since other than "now" is read at once.
PollAsks(p) ==
  /\ poll[p].phase = "idle"
  /\ \E since \in {Now} \cup 0..db.changesSeq :
       IF since = Now
       THEN /\ poll' = [poll EXCEPT ![p].phase = "waiting", ![p].attempt = 1,
                                    ![p].timer[1] = "armed"]
            /\ listener' = listener \cup {<<p, 1>>}
       ELSE /\ poll' = [poll EXCEPT ![p].phase = "reading", ![p].asked = since,
                                    ![p].since = since]
            /\ UNCHANGED listener
  /\ UNCHANGED <<vars, notes, stream>>

TimerExpires(p) ==
  \E a \in Attempts :
    /\ poll[p].timer[a] = "armed"
    /\ poll' = [poll EXCEPT ![p].timer[a] = "sending"]
    /\ UNCHANGED <<vars, listener, notes, stream>>

TimerSends(p) ==
  \E a \in Attempts :
    /\ poll[p].timer[a] = "sending"
    /\ poll[p].ch[a] = 0
    /\ poll' = [poll EXCEPT ![p].timer[a] = "off", ![p].ch[a] = 1]
    /\ UNCHANGED <<vars, listener, notes, stream>>

\* The timer is stopped, unless it expired already.
PollWakes(p) ==
  LET a == poll[p].attempt
  IN  /\ poll[p].phase = "waiting"
      /\ poll[p].ch[a] = 1
      /\ poll' = [poll EXCEPT
           ![p].phase = "reading", ![p].ch[a] = 0,
           ![p].timer[a] = IF @ = "armed" THEN "off" ELSE @]
      /\ UNCHANGED <<vars, listener, notes, stream>>

\* Mutant: the second time, no listener is registered.
RetrySilently(p) ==
  /\ poll' = [poll EXCEPT ![p].phase = "waiting", ![p].attempt = 2,
                          ![p].timer[2] = "armed"]
  /\ UNCHANGED listener

Retry(p) ==
  /\ poll' = [poll EXCEPT ![p].phase = "waiting", ![p].attempt = 2,
                          ![p].timer[2] = "armed"]
  /\ listener' = listener \cup {<<p, 2>>}

Answer(p, answer) ==
  /\ poll' = [poll EXCEPT ![p].phase = "answered",
                          ![p].answer = {r.id : r \in ToSet(answer.docs)}]
  /\ UNCHANGED listener

\* Mutant: a poll that finds nothing waits until it finds something.
PollReadsAgain(p) ==
  /\ poll[p].phase = "reading"
  /\ \E answer \in {Changes(db, poll[p].since, Limit)} :
       IF answer.docs = <<>> THEN Retry(p) ELSE Answer(p, answer)
  /\ UNCHANGED <<vars, notes, stream>>

\* A poll that finds nothing waits, but for the second time it answers.
PollReads(p) ==
  /\ poll[p].phase = "reading"
  /\ \E answer \in {Changes(db, poll[p].since, Limit)} :
       IF answer.docs = <<>> /\ poll[p].attempt < 2
       THEN Retry(p) ELSE Answer(p, answer)
  /\ UNCHANGED <<vars, notes, stream>>

-----------------------------------------------------------------------------

StreamNext ==
  \E s \in Streams :
    StreamRegisters(s) \/ StreamReads(s) \/ StreamTakes(s) \/ StreamCloses(s)

PollRuns(p) == TimerExpires(p) \/ TimerSends(p) \/ PollWakes(p) \/ PollReads(p)

PollNext == \E p \in Polls : PollAsks(p) \/ PollRuns(p)

LiveNext == Write \/ Notify \/ StreamNext \/ PollNext

\* Goroutines that can go on do so, and timers expire; writers and clients
\* may stop at any time.
LiveFairness ==
  /\ WF_liveVars(Notify)
  /\ \A s \in Streams : WF_liveVars(StreamReads(s) \/ StreamTakes(s))
  /\ \A p \in Polls : WF_liveVars(PollRuns(p))

LiveSpec == LiveInit /\ [][LiveNext]_liveVars /\ LiveFairness

-----------------------------------------------------------------------------
(* Streams. *)

\* A stream that stays open and never had a full buffer comes to have written
\* the current revision of the document changed last: the listener is there
\* before the feed is read, and what it passes on is read again when written,
\* so neither the change made in between nor a late notification is missed.
LastChangeDelivered ==
  \A s \in Streams :
    <>[](stream[s].phase = "live" /\ ~stream[s].dropped =>
           \A d \in Docs : db.docs[d] # NoDoc /\ db.inval[d] = db.changesSeq =>
             stream[s].got[d] = db.docs[d].rev)

-----------------------------------------------------------------------------
(* Polls. *)

\* A poll that waits will be woken by the next change: its listener is
\* registered, or has been called.  A goroutine deletes the keys of the
\* listeners it called only at the end of its range, and never the key of a
\* later attempt.
WaitingIsListening ==
  \A p \in Polls :
    LET l == <<p, poll[p].attempt>>
    IN  poll[p].phase = "waiting" =>
          \/ l \in listener
          \/ poll[p].ch[l[2]] = 1
          \/ \E i \in DOMAIN notes : l \in notes[i].sending

\* Every poll is answered, by the second timer at the latest.
PollsAnswer ==
  \A p \in Polls : poll[p].phase # "idle" ~> poll[p].phase = "answered"

\* A poll asked with "now" and not woken by a change is answered with nothing
\* (db_changes_test.go: "Should return empty results after timeout").
TimeoutReturnsNothing ==
  \A p \in Polls :
    poll[p].phase = "answered" /\ poll[p].asked = Now /\ poll[p].woken = {} =>
      poll[p].answer = {}

\* A poll asked with "now" and woken by a change is answered with it
\* (db_changes_test.go: "Should receive the new document").
PollReturnsNew ==
  \A p \in Polls :
    poll[p].phase = "answered" /\ poll[p].asked = Now =>
      poll[p].woken \subseteq poll[p].answer

\* No goroutine sends to a channel that is full and that nobody will receive
\* from again (db_changes.go: "buffered: both timer and listener may send").
NotifierNeverStuck ==
  \A i \in DOMAIN notes : \A l \in notes[i].sending :
    \/ poll[l[1]].ch[l[2]] = 0
    \/ poll[l[1]].phase = "waiting" /\ poll[l[1]].attempt = l[2]

-----------------------------------------------------------------------------
(* The inductive invariant behind WaitingIsListening; DatabaseProofs shows *)
(* that it is inductive.                                                   *)

\* What the invariant needs of the types; what polls answer is left open.
ListenTypeOK ==
  /\ listener \subseteq Listeners
  /\ notes \in Seq(NoteState)
  /\ DOMAIN poll = Polls
  /\ \A p \in Polls :
       /\ DOMAIN poll[p] = {"phase", "asked", "since", "attempt", "ch", "timer",
                            "woken", "answer"}
       /\ poll[p].attempt \in 0..2
       /\ poll[p].ch \in [Attempts -> 0..1]
       /\ poll[p].phase = "idle" => poll[p].attempt = 0
       /\ poll[p].phase = "waiting" => poll[p].attempt \in Attempts

\* A goroutine sends to one channel at a time.
OneSend == \A i \in DOMAIN notes : \A l, m \in notes[i].sending : l = m

Held(note) == note.all \cup note.sending \cup note.gone

\* No goroutine holds a listener of an attempt that has yet to be made.
NoneAhead ==
  \A p \in Polls, a \in Attempts :
    poll[p].attempt < a =>
      /\ <<p, a>> \notin listener
      /\ \A i \in DOMAIN notes : <<p, a>> \notin Held(notes[i])

\* A goroutine that will delete the listener a poll waits for has sent to its
\* channel, which nobody received from since.
GoneHasSent ==
  \A p \in Polls : \A i \in DOMAIN notes :
    /\ poll[p].phase = "waiting"
    /\ <<p, poll[p].attempt>> \in notes[i].gone
    => poll[p].ch[poll[p].attempt] = 1

ListenInv ==
  ListenTypeOK /\ OneSend /\ NoneAhead /\ GoneHasSent /\ WaitingIsListening

=============================================================================
