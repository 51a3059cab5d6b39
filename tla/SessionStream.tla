--------------------------- MODULE SessionStream ---------------------------
(***************************************************************************)
(* The life of a streaming request, from POST to the end of its response:  *)
(* packages/api/src/flux0_api/sessions.py (create_event_and_stream,        *)
(* event_stream) and session_service.py (post_event, the dispatcher that   *)
(* waits for the subscription, _process_session, the cancellation).        *)
(*                                                                         *)
(* A request r is its correlation id.  The other components appear as what *)
(* they are shown to be elsewhere: the background task service as one slot *)
(* per session (TaskSlots, which BackgroundTasks implements) behind a lock *)
(* that a restart holds while it awaits the old run; the event emitter as  *)
(* a FIFO queue whose messages may be refused (EventEmitter); the session  *)
(* store as a log per session, which delete_session clears at once, as     *)
(* SessionStore shows, and for good: ids are not used again here.          *)
(*                                                                         *)
(* What a run emits is numbered by its place in the run's script, the      *)
(* user's message by 0, so that the order of events can be stated.         *)
(***************************************************************************)
EXTENDS Naturals, Sequences, SequencesExt

CONSTANTS Requests,
          Sessions,
          SessionOf,      \* the session each request posts to
          Script,         \* what each request's run emits when nothing stops it
          None,           \* "no request"
          MayDisconnect,  \* the requests whose clients may go away
          MayFail,        \* the requests whose run may raise
          MayDelete       \* the sessions that may be deleted

\* What a run makes the emitter deliver: statuses, chunks, the finalized message or tool
\* event of a "ready", and the status that ends the response.
Kinds == {"status", "chunk", "message", "completed"}
Emitted == [n : Nat \ {0}, kind : Kinds \cup {"empty"}]
Nothing == [n |-> 0, kind |-> "none"]

ASSUME SessionOfType == SessionOf \in [Requests -> Sessions]
ASSUME ScriptType == Script \in [Requests -> Seq(Kinds)]
ASSUME NoneFresh == None \notin Requests
ASSUME FaultsType == /\ MayDisconnect \subseteq Requests /\ MayFail \subseteq Requests
                     /\ MayDelete \subseteq Sessions

VARIABLES
  log,         \* the events of each session, in order of their offset
  deleted,     \* the sessions that have been deleted
  ready,       \* the requests whose subscription_ready is set
  dispatcher,  \* _dispatch_processing_task_when_ready of each request
  slot,        \* the request whose run is the session's unfinished task, or None
  stopping,    \* the requests whose run has been cancelled and has not ended
  lock,        \* the request whose restart holds the service's lock, or None
  emitted,     \* how much of the script each run has emitted
  queue,       \* the emitter's queue
  lost,        \* the messages there is nothing to store of, as <<request, number>>
  chunkSubs, finalSubs,  \* the requests subscribed to chunks, to final events
  inbox,       \* the queue of each event_stream
  item,        \* what each event_stream took from its queue last
  stream       \* where each event_stream is

vars == <<log, deleted, ready, dispatcher, slot, stopping, lock, emitted, queue, lost,
          chunkSubs, finalSubs, inbox, item, stream>>
store == <<log, deleted>>
service == <<dispatcher, slot, stopping, lock>>
emitter == <<queue, lost, chunkSubs, finalSubs>>

Slots == INSTANCE TaskSlots WITH Tags <- Sessions, Tasks <- Requests, NoTask <- None

Init ==
  /\ log = [s \in Sessions |-> <<>>]
  /\ deleted = {}
  /\ ready = {}
  /\ dispatcher = [r \in Requests |-> "none"]
  /\ Slots!Init
  /\ lock = None
  /\ emitted = [r \in Requests |-> 0]
  /\ queue = <<>> /\ lost = {}
  /\ chunkSubs = {} /\ finalSubs = {}
  /\ inbox = [r \in Requests |-> <<>>]
  /\ item = [r \in Requests |-> Nothing]
  /\ stream = [r \in Requests |-> "none"]

\* create_event, which raises when the session is not there.
Record(r, n, kind) ==
  /\ SessionOf[r] \notin deleted
  /\ log' = [log EXCEPT ![SessionOf[r]] = Append(@, [req |-> r, n |-> n, kind |-> kind])]
  /\ UNCHANGED deleted

\* delete_session, with the session's events.
DeleteSession(s) ==
  /\ s \in MayDelete \ deleted
  /\ deleted' = deleted \cup {s}
  /\ log' = [log EXCEPT ![s] = <<>>]
  /\ UNCHANGED <<ready, service, emitted, emitter, inbox, item, stream>>

---------------------------------------------------------------------------
(* The request: post_event stores the user's message and leaves the rest   *)
(* to a task of its own, which waits until the response is being streamed. *)
Post(r) ==
  /\ stream[r] = "none" /\ dispatcher[r] = "none"
  /\ stream' = [stream EXCEPT ![r] = "pending"]
  /\ dispatcher' = [dispatcher EXCEPT ![r] = "waiting"]
  /\ Record(r, 0, "user")
  /\ UNCHANGED <<ready, slot, stopping, lock, emitted, emitter, inbox, item>>

\* Mutant of StreamStarts: subscription_ready is never set.
StreamStarts_Silent(r) ==
  /\ stream[r] = "pending"
  /\ stream' = [stream EXCEPT ![r] = "listening"]
  /\ chunkSubs' = chunkSubs \cup {r}
  /\ finalSubs' = finalSubs \cup {r}
  /\ UNCHANGED <<store, ready, service, emitted, queue, lost, inbox, item>>

StreamStarts(r) ==
  /\ stream[r] = "pending"
  /\ stream' = [stream EXCEPT ![r] = "listening"]
  /\ chunkSubs' = chunkSubs \cup {r}
  /\ finalSubs' = finalSubs \cup {r}
  /\ ready' = ready \cup {r}
  /\ UNCHANGED <<store, service, emitted, queue, lost, inbox, item>>

\* Mutant of Dispatch: processing does not wait for the subscription.
Dispatch_AtOnce(r) ==
  /\ dispatcher[r] = "waiting"
  /\ dispatcher' = [dispatcher EXCEPT ![r] = "restarting"]
  /\ UNCHANGED <<store, ready, slot, stopping, lock, emitted, emitter, inbox, item, stream>>

Dispatch(r) ==
  /\ dispatcher[r] = "waiting"
  /\ r \in ready
  /\ dispatcher' = [dispatcher EXCEPT ![r] = "restarting"]
  /\ UNCHANGED <<store, ready, slot, stopping, lock, emitted, emitter, inbox, item, stream>>

\* Mutant of Restart: the session's run is awaited but not cancelled.
Restart_NoCancel(r) ==
  /\ dispatcher[r] = "restarting"
  /\ lock = None
  /\ \/ /\ slot[SessionOf[r]] = None
        /\ Slots!Begin(SessionOf[r], r)
        /\ dispatcher' = [dispatcher EXCEPT ![r] = "done"]
        /\ UNCHANGED lock
     \/ /\ slot[SessionOf[r]] # None
        /\ UNCHANGED <<slot, stopping>>
        /\ dispatcher' = [dispatcher EXCEPT ![r] = "replacing"]
        /\ lock' = r
  /\ UNCHANGED <<store, ready, emitted, emitter, inbox, item, stream>>

\* BackgroundTaskService.restart: at once, or after the session's run has been stopped.
Restart(r) ==
  /\ dispatcher[r] = "restarting"
  /\ lock = None
  /\ \/ /\ slot[SessionOf[r]] = None
        /\ Slots!Begin(SessionOf[r], r)
        /\ dispatcher' = [dispatcher EXCEPT ![r] = "done"]
        /\ UNCHANGED lock
     \/ /\ slot[SessionOf[r]] # None
        /\ Slots!Stop({slot[SessionOf[r]]})
        /\ dispatcher' = [dispatcher EXCEPT ![r] = "replacing"]
        /\ lock' = r
  /\ UNCHANGED <<store, ready, emitted, emitter, inbox, item, stream>>

\* Mutant of RestartGoesOn: the lock is not released.
RestartGoesOn_KeepsLock(r) ==
  /\ dispatcher[r] = "replacing"
  /\ slot[SessionOf[r]] = None
  /\ Slots!Begin(SessionOf[r], r)
  /\ dispatcher' = [dispatcher EXCEPT ![r] = "done"]
  /\ UNCHANGED <<store, ready, lock, emitted, emitter, inbox, item, stream>>

RestartGoesOn(r) ==
  /\ dispatcher[r] = "replacing"
  /\ slot[SessionOf[r]] = None
  /\ Slots!Begin(SessionOf[r], r)
  /\ dispatcher' = [dispatcher EXCEPT ![r] = "done"]
  /\ lock' = None
  /\ UNCHANGED <<store, ready, emitted, emitter, inbox, item, stream>>

---------------------------------------------------------------------------
(* The run: the agent's code, which emits its script under r.              *)
Running(r) == slot[SessionOf[r]] = r

Emit(r) ==
  /\ Running(r) /\ r \notin stopping
  /\ emitted[r] < Len(Script[r])
  /\ emitted' = [emitted EXCEPT ![r] = @ + 1]
  /\ queue' = Append(queue, [req |-> r, n |-> emitted[r] + 1, kind |-> Script[r][emitted[r] + 1]])
  /\ UNCHANGED <<store, ready, service, lost, chunkSubs, finalSubs, inbox, item, stream>>

\* It ends when it has emitted everything, when it is cancelled, or by raising.
RunEnds(r) ==
  /\ Running(r)
  /\ emitted[r] = Len(Script[r]) \/ r \in stopping \cup MayFail
  /\ Slots!End(SessionOf[r])
  /\ UNCHANGED <<store, ready, dispatcher, lock, emitted, emitter, inbox, item, stream>>

\* The emitter's worker notifies the subscribers of the message's correlation id...
Notify(m, kind) ==
  inbox' = IF m.req \in IF kind = "chunk" THEN chunkSubs ELSE finalSubs
           THEN [inbox EXCEPT ![m.req] = Append(@, [n |-> m.n, kind |-> kind])]
           ELSE inbox

\* ... unless it raises first: the store refuses a chunk, or cannot finalize a message.
\* What it finalizes may also be a message without parts.
Deliver ==
  /\ queue # <<>>
  /\ LET m == Head(queue)
         Void == m.kind = "message" /\ lost' = lost \cup {<<m.req, m.n>>}
     IN \/ Notify(m, m.kind) /\ UNCHANGED lost
        \/ Void /\ Notify(m, "empty")
        \/ Void /\ UNCHANGED inbox
        \/ m.kind = "chunk" /\ UNCHANGED <<lost, inbox>>
  /\ queue' = Tail(queue)
  /\ UNCHANGED <<store, ready, service, emitted, chunkSubs, finalSubs, item, stream>>

---------------------------------------------------------------------------
(* event_stream: take, store, send.                                        *)
\* Whatever ends the generator runs its `finally`: the chunks are unsubscribed.
EndStream(r, how) ==
  /\ stream' = [stream EXCEPT ![r] = how]
  /\ chunkSubs' = chunkSubs \ {r}

\* What it does with the item it takes: a message without parts is passed over.
Doing(kind) == CASE kind = "chunk" -> "sending" [] kind = "empty" -> "listening"
                 [] OTHER -> "storing"

\* Mutant of Take: finalized messages are passed over like those without parts.
Take_MessageUnstored(r) ==
  /\ stream[r] = "listening" /\ inbox[r] # <<>>
  /\ inbox' = [inbox EXCEPT ![r] = Tail(@)]
  /\ item' = [item EXCEPT ![r] = Head(inbox[r])]
  /\ IF Head(inbox[r]).kind = "completed" THEN EndStream(r, "completed")
     ELSE /\ stream' = [stream EXCEPT ![r] =
               IF Head(inbox[r]).kind = "message" THEN "listening" ELSE Doing(Head(inbox[r]).kind)]
          /\ UNCHANGED chunkSubs
  /\ UNCHANGED <<store, ready, service, emitted, queue, lost, finalSubs>>

Take(r) ==
  /\ stream[r] = "listening" /\ inbox[r] # <<>>
  /\ inbox' = [inbox EXCEPT ![r] = Tail(@)]
  /\ item' = [item EXCEPT ![r] = Head(inbox[r])]
  /\ IF Head(inbox[r]).kind = "completed" THEN EndStream(r, "completed")
     ELSE /\ stream' = [stream EXCEPT ![r] = Doing(Head(inbox[r]).kind)]
          /\ UNCHANGED chunkSubs
  /\ UNCHANGED <<store, ready, service, emitted, queue, lost, finalSubs>>

\* create_event; statuses are also sent, finalized messages are not.
StoreItem(r) ==
  /\ stream[r] = "storing"
  /\ Record(r, item[r].n, item[r].kind)
  /\ stream' = [stream EXCEPT ![r] = IF item[r].kind = "status" THEN "sending" ELSE "listening"]
  /\ UNCHANGED <<ready, service, emitted, emitter, inbox, item>>

\* If the session is gone create_event raises, which ends the generator and the response.
StoreItemFails(r) ==
  /\ stream[r] = "storing"
  /\ SessionOf[r] \in deleted
  /\ EndStream(r, "failed")
  /\ UNCHANGED <<store, ready, service, emitted, queue, lost, finalSubs, inbox, item>>

Sent(r) ==
  /\ stream[r] = "sending"
  /\ stream' = [stream EXCEPT ![r] = "listening"]
  /\ UNCHANGED <<store, ready, service, emitted, emitter, inbox, item>>

\* The client goes away.  Before the generator starts nothing of it ever runs; in an
\* await of its own it gets CancelledError; at a yield it is just closed.
Disconnect(r) ==
  /\ r \in MayDisconnect
  /\ \/ stream[r] = "pending" /\ stream' = [stream EXCEPT ![r] = "gone"] /\ UNCHANGED chunkSubs
     \/ stream[r] \in {"listening", "storing"}
        /\ stream' = [stream EXCEPT ![r] = "cancelling"] /\ UNCHANGED chunkSubs
     \/ stream[r] = "sending" /\ EndStream(r, "gone")
  /\ UNCHANGED <<store, ready, service, emitted, queue, lost, finalSubs, inbox, item>>

\* Mutant of CancelRun: the tag is not looked up before its task is cancelled.
CancelRun_Unchecked(r) ==
  /\ stream[r] = "cancelling"
  /\ lock = None
  /\ stopping' = stopping \cup {slot[SessionOf[r]]}
  /\ EndStream(r, "gone")
  /\ UNCHANGED <<store, ready, dispatcher, slot, lock, emitted, queue, lost, finalSubs, inbox, item>>

\* The handler of CancelledError cancels whatever run its session has.
CancelRun(r) ==
  /\ stream[r] = "cancelling"
  /\ lock = None
  /\ Slots!Stop({slot[SessionOf[r]]} \ {None})
  /\ EndStream(r, "gone")
  /\ UNCHANGED <<store, ready, dispatcher, lock, emitted, queue, lost, finalSubs, inbox, item>>

\* If the lock is taken the handler would suspend, and is cancelled once more there.
CancelRunInterrupted(r) ==
  /\ stream[r] = "cancelling"
  /\ lock # None
  /\ EndStream(r, "gone")
  /\ UNCHANGED <<store, ready, service, emitted, queue, lost, finalSubs, inbox, item>>

StreamStep(r) == StreamStarts(r) \/ Take(r) \/ StoreItem(r) \/ StoreItemFails(r)
                 \/ Sent(r) \/ CancelRun(r) \/ CancelRunInterrupted(r)
RunStep(r) == Emit(r) \/ RunEnds(r)
DispatchStep(r) == Dispatch(r) \/ Restart(r) \/ RestartGoesOn(r)

\* What clients and others do, and what the event loop has to run.
Environment == \/ \E r \in Requests : Post(r) \/ Disconnect(r)
               \/ \E s \in Sessions : DeleteSession(s)
LoopStep == \/ \E r \in Requests : DispatchStep(r) \/ RunStep(r) \/ StreamStep(r)
            \/ Deliver

Next == Environment \/ LoopStep

Spec == Init /\ [][Next]_vars

\* While some coroutine can go on the event loop runs one; agents run their script.
FairSpec == Spec /\ WF_vars(LoopStep)

---------------------------------------------------------------------------
Phases == {"none", "pending", "listening", "storing", "sending", "cancelling",
           "completed", "gone", "failed"}

TypeOK ==
  /\ log \in [Sessions -> Seq([req : Requests, n : Nat, kind : Kinds \cup {"user"}])]
  /\ deleted \subseteq Sessions
  /\ ready \subseteq Requests
  /\ dispatcher \in [Requests -> {"none", "waiting", "restarting", "replacing", "done"}]
  /\ slot \in [Sessions -> Requests \cup {None}]
  /\ stopping \subseteq Requests
  /\ lock \in Requests \cup {None}
  /\ \A r \in Requests : emitted[r] \in 0..Len(Script[r])
  /\ queue \in Seq([req : Requests, n : Nat \ {0}, kind : Kinds])
  /\ lost \subseteq Requests \X (Nat \ {0})
  /\ chunkSubs \subseteq Requests /\ finalSubs \subseteq Requests
  /\ inbox \in [Requests -> Seq(Emitted)]
  /\ item \in [Requests -> Emitted \cup {Nothing}]
  /\ stream \in [Requests -> Phases]

\* Where the session's log has events of request r, and which of the user's message and
\* what its run emits they are.
Log(r) == log[SessionOf[r]]
Places(r) == {i \in DOMAIN Log(r) : Log(r)[i].req = r}
Stored(r) == {Log(r)[i].n : i \in Places(r)}

\* What is to be stored of request r when its run has got to its m-th event: the statuses,
\* and the messages but for those that could not be finalized or have no parts.
ToStore(r, m) ==
  {0} \cup {k \in 1..m : Script[r][k] \in {"status", "message"} /\ <<r, k>> \notin lost}

\* An event is stored once, as what it is, and after those before it.
StoredInOrder(r) ==
  \A i \in Places(r) :
    /\ Log(r)[i].kind = IF Log(r)[i].n = 0 THEN "user" ELSE Script[r][Log(r)[i].n]
    /\ \A j \in Places(r) : i < j => Log(r)[i].n < Log(r)[j].n

\* However a request ends - completed, replaced by a newer one, failed or left by its
\* client - its session holds the user's message and then a prefix of what the run
\* produced, in order and without a gap but for messages there is nothing to store of: no
\* event is emitted before somebody listens.  Of a deleted session nothing is left or comes back.
StoredIsPrefix ==
  \A r \in Requests : stream[r] # "none" =>
    IF SessionOf[r] \in deleted THEN Places(r) = {}
    ELSE StoredInOrder(r) /\ \E m \in 0..emitted[r] : Stored(r) = ToStore(r, m)

\* A response ends by itself only when all that the run produced up to its "completed"
\* has been stored, if there was something to store and the session is still there.
CompletedIsStored ==
  \A r \in Requests :
    stream[r] = "completed" /\ SessionOf[r] \notin deleted =>
      \E m \in 1..emitted[r] : Script[r][m] = "completed" /\ Stored(r) = ToStore(r, m)

\* The lock is held across an await by a restart only, which then is the one that goes on,
\* and only while the session's old run, told to stop, comes to its end: it is neither kept
\* after the restart nor held for a run nobody has stopped.
LockIsForStopping ==
  /\ \A r \in Requests : dispatcher[r] = "replacing" => lock = r
  /\ lock # None => /\ dispatcher[lock] = "replacing"
                    /\ slot[SessionOf[lock]] \in stopping \cup {None}

\* Every response comes to its end by itself and for good, unless its client leaves it, its
\* session is deleted under it or its run was cut short - replaced, cancelled or failed -
\* before it could say "completed".  (There comes a time when no more requests are posted.)
CutShort(r) == dispatcher[r] = "done" /\ ~Running(r) /\ emitted[r] < Len(Script[r])
Ended(r) == \/ stream[r] \in {"none", "completed", "gone"} \/ CutShort(r)
            \/ stream[r] = "failed" /\ SessionOf[r] \in deleted
ResponseCompletes == <>[](\A r \in Requests : Ended(r))

Open(r) == stream[r] \in {"listening", "storing", "sending"}

\* Status "cancelled": "The agent has aborted its response midway, typically due to
\* new data being added to the session": the response of an aborted run ends, or is told.
AbortIsReported ==
  \A r \in Requests : r \in stopping /\ Open(r) ~>
     ~Open(r) \/ \E i \in Places(r) : Log(r)[i].kind = "cancelled"
=============================================================================
