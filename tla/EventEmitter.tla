---------------------------- MODULE EventEmitter ----------------------------
(***************************************************************************)
(* MemoryEventEmitter, packages/stream/src/flux0_stream/emitter/memory.py: *)
(* agents put chunks and status events on one queue; a worker applies each *)
(* to the event store (EventStore) and notifies the subscribers of its     *)
(* correlation id; shutdown stops the worker and drains what is left.      *)
(*                                                                         *)
(* The subscribers of the repository put what they get on an unbounded     *)
(* queue of their own (inbox) and never suspend, so a message is processed *)
(* without interruption and the order of a subscriber list does not show.  *)
(***************************************************************************)
EXTENDS EventStore, SequencesExt

CONSTANTS Corrs,     \* correlation ids, one per request
          CorrOf,    \* the correlation id under which each event is emitted
          Subs,      \* subscribers
          SubCorr,   \* the correlation id each subscriber listens to
          NoEvent,   \* a status event without event id
          MaxSent    \* bound: messages put on the queue

ASSUME CorrOfType == CorrOf \in [Events -> Corrs]
ASSUME SubCorrType == SubCorr \in [Subs -> Corrs]
ASSUME NoEventFresh == NoEvent \notin Events
ASSUME MaxSentNat == MaxSent \in Nat

VARIABLES
  queue,      \* queue
  chunkSubs,  \* the members of processed_subscribers
  finalSubs,  \* the members of final_subscribers
  inbox,      \* what each subscriber has been notified of, in order
  shown,      \* history: the operations of an event's document each has been notified of
  missed,     \* history: the events whose document each found begun when it subscribed
  phase,      \* "up" while the worker lives, "draining" in shutdown, then "down"
  sent        \* the number of messages put on the queue

vars == <<docs, tracker, finalized, offered, queue, chunkSubs, finalSubs, inbox,
          shown, missed, phase, sent>>
told == <<inbox, shown, missed>>

\* SessionStatus: the emitter passes on all but "ready" alike; "completed" stands for them.
Statuses == {"ready", "completed"}
ChunkMsg == [n : 1..MaxSent, corr : Corrs, chunk : Chunks]
StatusMsg == [n : 1..MaxSent, corr : Corrs, ev : Events \cup {NoEvent}, status : Statuses]

Init == /\ StoreInit
        /\ queue = <<>>
        /\ chunkSubs = {} /\ finalSubs = {}
        /\ inbox = [s \in Subs |-> <<>>]
        /\ shown = [s \in Subs |-> [e \in Events |-> <<>>]]
        /\ missed = [s \in Subs |-> {}]
        /\ phase = "up"
        /\ sent = 0

IsChunk(m) == "chunk" \in DOMAIN m

---------------------------------------------------------------------------
Put(m) == /\ sent < MaxSent
          /\ sent' = sent + 1
          /\ queue' = Append(queue, m)
          /\ UNCHANGED <<storeVars, chunkSubs, finalSubs, told, phase>>

EnqueueChunk(c) ==
  Put([n |-> sent + 1, corr |-> CorrOf[c.ev], chunk |-> c])

\* Mutant of EnqueueStatus: status events overtake the chunks.
EnqueueStatus_Overtakes(corr, ev, status) ==
  /\ sent < MaxSent
  /\ sent' = sent + 1
  /\ queue' = <<[n |-> sent + 1, corr |-> corr, ev |-> ev, status |-> status]>> \o queue
  /\ UNCHANGED <<storeVars, chunkSubs, finalSubs, told, phase>>

EnqueueStatus(corr, ev, status) ==
  Put([n |-> sent + 1, corr |-> corr, ev |-> ev, status |-> status])

\* A subscriber may come at any time, also in the middle of an event, and come back.
SubscribeProcessed(s) ==
  /\ s \notin chunkSubs
  /\ chunkSubs' = chunkSubs \cup {s}
  /\ missed' = [missed EXCEPT ![s] = @ \cup {e \in Events : docs[e] # Absent}]
  /\ UNCHANGED <<storeVars, queue, finalSubs, inbox, shown, phase, sent>>

SubscribeFinal(s) ==
  /\ s \notin finalSubs
  /\ finalSubs' = finalSubs \cup {s}
  /\ UNCHANGED <<storeVars, queue, chunkSubs, told, phase, sent>>

UnsubscribeProcessed(s) ==
  /\ s \in chunkSubs
  /\ chunkSubs' = chunkSubs \ {s}
  /\ UNCHANGED <<storeVars, queue, finalSubs, told, phase, sent>>

UnsubscribeFinal(s) ==
  /\ s \in finalSubs
  /\ finalSubs' = finalSubs \ {s}
  /\ UNCHANGED <<storeVars, queue, chunkSubs, told, phase, sent>>

---------------------------------------------------------------------------
Notify(S, corr, d) ==
  inbox' = [s \in Subs |-> IF s \in S /\ SubCorr[s] = corr THEN Append(inbox[s], d)
                           ELSE inbox[s]]

NotifyProcessed(m) ==
  /\ Notify(chunkSubs, m.corr, [n |-> m.n, chunk |-> m.chunk])
  /\ shown' = [s \in Subs |-> IF s \in chunkSubs /\ SubCorr[s] = m.corr
                              THEN [shown[s] EXCEPT ![m.chunk.ev] =
                                                    @ \o Items(m.chunk, m.chunk.ops)]
                              ELSE shown[s]]
  /\ UNCHANGED missed

\* Mutant of ProcessChunk: the subscribers are notified before the store is asked.
ProcessChunk_NotifiesFirst(m) == AddChunk(m.chunk) /\ NotifyProcessed(m)

ProcessChunk(m) ==
  /\ AddChunk(m.chunk)
  /\ IF Accepted(m.chunk) THEN NotifyProcessed(m) ELSE UNCHANGED told

NotifyStatus(m) == /\ Notify(finalSubs, m.corr, [n |-> m.n, status |-> m.status])
                   /\ UNCHANGED <<storeVars, shown, missed>>

\* Whatever finalize_event makes of it, the event's document is begun anew after it.
FinalizeEvent(m) ==
  /\ Finalize(m.ev)
  /\ shown' = [s \in Subs |-> [shown[s] EXCEPT ![m.ev] = <<>>]]
  /\ missed' = [s \in Subs |-> missed[s] \ {m.ev}]
  /\ IF Finalizes(m.ev)
     THEN Notify(finalSubs, m.corr,
                 [n |-> m.n, ev |-> m.ev, content |-> FinalContent(m.ev)])
     ELSE UNCHANGED inbox

\* Mutant of ProcessStatus: a "ready" without an event is passed on as it is.
ProcessStatus_ForwardsReady(m) ==
  IF m.status # "ready" \/ m.ev = NoEvent THEN NotifyStatus(m) ELSE FinalizeEvent(m)

\* Only "ready" finalizes; every other status goes to the final subscribers as it is.
ProcessStatus(m) ==
  IF m.status # "ready" THEN NotifyStatus(m)
  ELSE IF m.ev = NoEvent THEN UNCHANGED <<storeVars, told>> ELSE FinalizeEvent(m)

Process(m) == IF IsChunk(m) THEN ProcessChunk(m) ELSE ProcessStatus(m)

\* Whether processing m raises.
Raises(m) == IF IsChunk(m) THEN ~Accepted(m.chunk)
             ELSE m.status = "ready" /\ (m.ev = NoEvent \/ ~Finalizes(m.ev))

\* Mutant of WorkerStep: a message that raised stays at the head of the queue.
WorkerStep_RetriesOnError ==
  /\ phase = "up" /\ queue # <<>>
  /\ Process(Head(queue))
  /\ queue' = IF Raises(Head(queue)) THEN queue ELSE Tail(queue)
  /\ UNCHANGED <<chunkSubs, finalSubs, phase, sent>>

\* The worker takes the next message; an exception is logged and the loop goes on.
WorkerStep ==
  /\ phase = "up" /\ queue # <<>>
  /\ Process(Head(queue))
  /\ queue' = Tail(queue)
  /\ UNCHANGED <<chunkSubs, finalSubs, phase, sent>>

\* shutdown cancels the worker, which is suspended in queue.get and takes no message.
Shutdown ==
  /\ phase = "up"
  /\ phase' = "draining"
  /\ UNCHANGED <<storeVars, queue, chunkSubs, finalSubs, told, sent>>

\* The drain: its `try` is around the loop, so the first exception ends it.
DrainStep ==
  /\ phase = "draining" /\ queue # <<>>
  /\ Process(Head(queue))
  /\ queue' = Tail(queue)
  /\ phase' = IF Raises(Head(queue)) THEN "down" ELSE phase
  /\ UNCHANGED <<chunkSubs, finalSubs, sent>>

DrainEnd ==
  /\ phase = "draining" /\ queue = <<>>
  /\ phase' = "down"
  /\ UNCHANGED <<storeVars, queue, chunkSubs, finalSubs, told, sent>>

Next ==
  \/ \E c \in Chunks : EnqueueChunk(c)
  \/ \E corr \in Corrs, status \in Statuses \ {"ready"} : EnqueueStatus(corr, NoEvent, status)
  \/ \E e \in Events, status \in Statuses : EnqueueStatus(CorrOf[e], e, status)
  \/ \E corr \in Corrs : EnqueueStatus(corr, NoEvent, "ready")
  \/ \E s \in Subs : \/ SubscribeProcessed(s) \/ SubscribeFinal(s)
                     \/ UnsubscribeProcessed(s) \/ UnsubscribeFinal(s)
  \/ WorkerStep \/ Shutdown \/ DrainStep \/ DrainEnd

Spec == Init /\ [][Next]_vars

\* The event loop runs the worker whenever its queue has a message.
FairSpec == Spec /\ WF_vars(WorkerStep)

---------------------------------------------------------------------------
Delivery == [n : 1..MaxSent, chunk : Chunks]
            \cup [n : 1..MaxSent, ev : Events, content : Content]
            \cup [n : 1..MaxSent, status : Statuses \ {"ready"}]

TypeOK == /\ StoreTypeOK
          /\ queue \in Seq(ChunkMsg \cup StatusMsg)
          /\ chunkSubs \subseteq Subs /\ finalSubs \subseteq Subs
          /\ inbox \in [Subs -> Seq(Delivery)]
          /\ shown \in [Subs -> [Events -> Seq(Item)]]
          /\ missed \in [Subs -> SUBSET Events]
          /\ phase \in {"up", "draining", "down"}
          /\ sent \in 0..MaxSent

\* A subscriber sees what is sent under its correlation id in the order it was sent,
\* each message at most once: chunks, statuses and finalized events alike, across
\* the change from the worker to the drain.
InOrder == \A s \in Subs : \A i, j \in DOMAIN inbox[s] :
             i < j => inbox[s][i].n < inbox[s][j].n

\* A chunk that appends and sets keys may fail midway in a list, see FailureKeepsPrefix.
Mixed(e) == \E c \in Chunks : c.ev = e /\ IsAppend(c) /\ \E i \in DOMAIN c.ops : c.ops[i] # "append"

\* What a client is shown is what is kept: whoever is notified of an event's final content and
\* has listened to its chunks since its document was begun has been notified of just that
\* content, nothing missing, repeated or added.
FinalWasStreamed ==
  [][\A s \in chunkSubs : inbox'[s] # inbox[s] =>
       LET d == Last(inbox'[s])
       IN /\ "content" \in DOMAIN d
          /\ d.ev \notin missed[s]
          /\ d.content.type = "dict" \/ ~Mixed(d.ev)
          => d.content.items = shown[s][d.ev]]_vars

\* An exception costs one message only: unless it is shut down, the worker always
\* comes to the end of its queue.
QueueDrains == <>[](phase = "up") => []<>(queue = <<>>)
=============================================================================
