------------------------- MODULE SessionStream_proof -------------------------
(***************************************************************************)
(* Proofs, for any requests, sessions and scripts, whatever clients leave  *)
(* whatever runs fail, messages are refused and sessions deleted: the lock *)
(* of the task service is held only to stop the session's earlier run; and *)
(* what is stored of a request is, in order and without a gap, what its    *)
(* run emitted up to some event, but for messages with nothing to store.   *)
(***************************************************************************)
EXTENDS SessionStream, SequenceTheorems, TLAPS

Dispatchers == {"none", "waiting", "restarting", "replacing", "done"}

Types0 == /\ dispatcher \in [Requests -> Dispatchers]
          /\ slot \in [Sessions -> Requests \cup {None}]
          /\ stopping \subseteq Requests
          /\ lock \in Requests \cup {None}

\* A run is only ever in the slot of its own session.
InOwnSlot == \A s \in Sessions : slot[s] # None => SessionOf[slot[s]] = s

SInv == Types0 /\ InOwnSlot /\ LockIsForStopping

LEMMA Initially ==
  ASSUME Init
  PROVE  SInv
BY DEF Init, Slots!Init, SInv, Types0, Dispatchers, InOwnSlot, LockIsForStopping

(* A step that leaves the service alone.                                    *)
LEMMA Aside ==
  ASSUME SInv, UNCHANGED service
  PROVE  SInv'
BY DEF service, SInv, Types0, InOwnSlot, LockIsForStopping

(* One that moves a dispatcher before it has anything to do with the lock.  *)
LEMMA Before ==
  ASSUME SInv, UNCHANGED <<slot, stopping, lock>>,
         NEW r \in Requests, dispatcher[r] # "replacing", NEW d \in {"waiting", "restarting"},
         dispatcher' = [dispatcher EXCEPT ![r] = d]
  PROVE  SInv'
<1>1. /\ dispatcher'[r] = d
      /\ \A q \in Requests : q # r => dispatcher'[q] = dispatcher[q]
  BY DEF SInv, Types0
<1>2. dispatcher' \in [Requests -> Dispatchers]
  BY DEF SInv, Types0, Dispatchers
<1> QED
  BY <1>1, <1>2 DEF SInv, Types0, InOwnSlot, LockIsForStopping

(* A run begins: nobody is replacing but, it may be, its own dispatcher.    *)
LEMMA Begins ==
  ASSUME SInv, NEW r \in Requests, Slots!Begin(SessionOf[r], r),
         dispatcher' = [dispatcher EXCEPT ![r] = "done"],
         \A q \in Requests : dispatcher[q] = "replacing" => q = r, lock' = None
  PROVE  SInv'
<1>1. SessionOf[r] \in Sessions
  BY SessionOfType
<1>2. /\ slot' = [slot EXCEPT ![SessionOf[r]] = r]
      /\ stopping' = stopping
  BY DEF Slots!Begin
<1>3. dispatcher' \in [Requests -> Dispatchers]
  BY DEF SInv, Types0, Dispatchers
<1>4. \A q \in Requests : dispatcher'[q] # "replacing"
  BY DEF SInv, Types0
<1>5. slot' \in [Sessions -> Requests \cup {None}] /\ InOwnSlot'
  BY <1>1, <1>2 DEF SInv, Types0, InOwnSlot
<1> QED
  BY <1>2, <1>3, <1>4, <1>5 DEF SInv, Types0, LockIsForStopping

LEMMA RestartKeeps ==
  ASSUME SInv, NEW r \in Requests, Restart(r)
  PROVE  SInv'
<1>1. SessionOf[r] \in Sessions
  BY SessionOfType
<1>2. \A q \in Requests : dispatcher[q] # "replacing"
  BY NoneFresh DEF Restart, SInv, LockIsForStopping
<1>3. CASE slot[SessionOf[r]] = None
  <2>1. /\ Slots!Begin(SessionOf[r], r) /\ lock' = None
        /\ dispatcher' = [dispatcher EXCEPT ![r] = "done"]
    BY <1>3 DEF Restart
  <2> QED
    BY <1>2, <2>1, Begins
<1>4. CASE slot[SessionOf[r]] # None
  <2>1. /\ slot' = slot /\ stopping' = stopping \cup {slot[SessionOf[r]]} /\ lock' = r
        /\ dispatcher' = [dispatcher EXCEPT ![r] = "replacing"]
    BY <1>4 DEF Restart, Slots!Stop
  <2>2. /\ \A q \in Requests : dispatcher'[q] = "replacing" => q = r
        /\ dispatcher' \in [Requests -> Dispatchers]
    BY <1>2, <2>1 DEF SInv, Types0, Dispatchers
  <2>3. stopping' \subseteq Requests
    BY <1>1, <1>4, <2>1 DEF SInv, Types0
  <2>4. dispatcher'[r] = "replacing" /\ slot'[SessionOf[r]] \in stopping'
    BY <2>1 DEF SInv, Types0
  <2> QED
    BY <2>1, <2>2, <2>3, <2>4 DEF SInv, Types0, InOwnSlot, LockIsForStopping
<1> QED
  BY <1>3, <1>4

LEMMA RunEndsKeeps ==
  ASSUME SInv, NEW r \in Requests, RunEnds(r)
  PROVE  SInv'
<1> DEFINE s == SessionOf[r]
<1>1. s \in Sessions
  BY SessionOfType
<1>2. /\ slot' = [slot EXCEPT ![s] = None] /\ stopping' = stopping \ {slot[s]}
      /\ UNCHANGED <<dispatcher, lock>>
  BY DEF RunEnds, Slots!End
<1>3. \A t \in Sessions : t # s /\ slot[t] # None => slot[t] # slot[s]
  BY <1>1 DEF SInv, InOwnSlot
<1>4. \A t \in Sessions : slot'[t] = IF t = s THEN None ELSE slot[t]
  BY <1>2 DEF SInv, Types0
<1>5. \A q \in Requests : SessionOf[q] \in Sessions
  BY SessionOfType
<1>6. slot' \in [Sessions -> Requests \cup {None}] /\ InOwnSlot'
  BY <1>2, <1>4 DEF SInv, Types0, InOwnSlot
<1>7. LockIsForStopping'
  <2>1. lock # None => /\ SessionOf[lock] \in Sessions /\ dispatcher[lock] = "replacing"
                       /\ slot[SessionOf[lock]] \in stopping \cup {None}
    BY <1>5 DEF SInv, Types0, LockIsForStopping
  <2> QED
    BY <1>2, <1>3, <1>4, <2>1 DEF SInv, LockIsForStopping
<1> QED
  BY <1>2, <1>6, <1>7 DEF SInv, Types0

LEMMA CancelRunKeeps ==
  ASSUME SInv, NEW r \in Requests, CancelRun(r)
  PROVE  SInv'
<1>1. SessionOf[r] \in Sessions
  BY SessionOfType
<1>2. /\ stopping' = stopping \cup ({slot[SessionOf[r]]} \ {None})
      /\ UNCHANGED <<dispatcher, slot, lock>>
  BY DEF CancelRun, Slots!Stop
<1> QED
  BY <1>1, <1>2 DEF SInv, Types0, InOwnSlot, LockIsForStopping

LEMMA Preserved ==
  ASSUME SInv, [Next]_vars
  PROVE  SInv'
<1> USE DEF service
<1>1. CASE Deliver
  BY <1>1, Aside DEF Deliver
<1>2. CASE UNCHANGED vars
  BY <1>2, Aside DEF vars
<1>4. ASSUME NEW s \in Sessions, DeleteSession(s)
      PROVE  SInv'
  BY <1>4, Aside DEF DeleteSession
<1>3. ASSUME NEW r \in Requests,
             Post(r) \/ DispatchStep(r) \/ RunStep(r) \/ StreamStep(r) \/ Disconnect(r)
      PROVE  SInv'
  <2>1. CASE Post(r)
    BY <2>1, Before DEF Post
  <2>2. CASE Dispatch(r)
    BY <2>2, Before DEF Dispatch
  <2>3. CASE Restart(r)
    BY <2>3, RestartKeeps
  <2>4. CASE RestartGoesOn(r)
    <3>1. \A q \in Requests : dispatcher[q] = "replacing" => q = r
      BY <2>4 DEF RestartGoesOn, SInv, LockIsForStopping
    <3> QED
      BY <2>4, <3>1, Begins DEF RestartGoesOn
  <2>5. CASE Emit(r)
    BY <2>5, Aside DEF Emit
  <2>6. CASE RunEnds(r)
    BY <2>6, RunEndsKeeps
  <2>7. CASE StreamStarts(r) \/ Take(r) \/ StoreItem(r) \/ StoreItemFails(r) \/ Sent(r) \/ CancelRunInterrupted(r)
    BY <2>7, Aside DEF StreamStarts, Take, StoreItem, StoreItemFails, Sent, CancelRunInterrupted
  <2>8. CASE CancelRun(r)
    BY <2>8, CancelRunKeeps
  <2>9. CASE Disconnect(r)
    BY <2>9, Aside DEF Disconnect
  <2> QED
    BY <1>3, <2>1, <2>2, <2>3, <2>4, <2>5, <2>6, <2>7, <2>8, <2>9 DEF DispatchStep, RunStep, StreamStep
<1> QED
  BY <1>1, <1>2, <1>3, <1>4 DEF Next, Environment, LoopStep

-----------------------------------------------------------------------------
(* The service's lock is held across an await by a restart that is waiting, *)
(* and by nothing else, and a restart waits only while the run it replaces  *)
(* has been cancelled, until that has ended (lines 85-90 of                 *)
(* core/background_tasks_service.py): the lock is not kept after a restart, *)
(* nor while a run goes on that nobody has told to stop, so what other      *)
(* dispatchers and cancellations wait for does end.                         *)
THEOREM LockOnlyToStop == Spec => []LockIsForStopping
<1>1. Init => SInv
  BY Initially
<1>2. SInv /\ [Next]_vars => SInv'
  BY Preserved
<1>3. SInv => LockIsForStopping
  BY DEF SInv
<1> QED
  BY <1>1, <1>2, <1>3, PTL DEF Spec

-----------------------------------------------------------------------------
(* Types.  emitted is a function, which TypeOK only implies of its values,  *)
(* and what a response is about to store has been taken from its queue.     *)
TInv == /\ TypeOK
        /\ DOMAIN emitted = Requests
        /\ \A r \in Requests : stream[r] = "storing" => item[r].kind \in {"status", "message"}

LogEntry == [req : Requests, n : Nat, kind : Kinds \cup {"user"}]
Message == [req : Requests, n : Nat \ {0}, kind : Kinds]

LEMMA Constants ==
  ASSUME NEW r \in Requests
  PROVE  SessionOf[r] \in Sessions /\ Script[r] \in Seq(Kinds) /\ Len(Script[r]) \in Nat
BY SessionOfType, ScriptType

LEMMA TypesInitially ==
  ASSUME Init
  PROVE  TInv
<1>1. \A r \in Requests : 0 \in 0..Len(Script[r])
  BY Constants
<1> QED
  BY <1>1 DEF Init, Slots!Init, TInv, TypeOK, Phases

(* A record of the log keeps it a log.                                      *)
LEMMA RecordType ==
  ASSUME TypeOK, NEW r \in Requests, NEW n \in Nat, NEW k \in Kinds \cup {"user"}, Record(r, n, k)
  PROVE  log' \in [Sessions -> Seq(LogEntry)] /\ deleted' = deleted
<1>1. log[SessionOf[r]] \in Seq(LogEntry) /\ [req |-> r, n |-> n, kind |-> k] \in LogEntry
  BY Constants DEF TypeOK, LogEntry
<1>2. Append(log[SessionOf[r]], [req |-> r, n |-> n, kind |-> k]) \in Seq(LogEntry)
  BY <1>1, AppendProperties
<1> QED
  BY <1>2 DEF TypeOK, Record, LogEntry

LEMMA RequestTypes ==
  ASSUME TInv, NEW r \in Requests, Post(r) \/ DispatchStep(r)
  PROVE  TInv'
<1> USE DEF store, service, emitter, Phases, Dispatchers
<1>1. CASE Post(r)
  <2>1. log' \in [Sessions -> Seq(LogEntry)] /\ deleted' = deleted
    BY <1>1, RecordType DEF Post, TInv
  <2>2. /\ dispatcher' \in [Requests -> Dispatchers] /\ stream' \in [Requests -> Phases]
        /\ \A q \in Requests : stream'[q] = "storing" => stream[q] = "storing"
    BY <1>1 DEF Post, TInv, TypeOK
  <2> QED
    BY <1>1, <2>1, <2>2 DEF Post, TInv, TypeOK, LogEntry
<1>2. CASE Dispatch(r)
  BY <1>2 DEF Dispatch, TInv, TypeOK
<1>3. CASE Restart(r)
  <2>1. /\ dispatcher' \in [Requests -> Dispatchers] /\ lock' \in Requests \cup {None}
        /\ UNCHANGED <<store, ready, emitted, emitter, inbox, item, stream>>
    BY <1>3 DEF Restart, TInv, TypeOK
  <2>2. SessionOf[r] \in Sessions
    BY Constants
  <2>3. CASE slot[SessionOf[r]] = None
    <3>1. slot' = [slot EXCEPT ![SessionOf[r]] = r] /\ stopping' = stopping
      BY <1>3, <2>3 DEF Restart, Slots!Begin
    <3> QED
      BY <2>1, <2>2, <3>1 DEF TInv, TypeOK
  <2>4. CASE slot[SessionOf[r]] # None
    <3>1. slot' = slot /\ stopping' = stopping \cup {slot[SessionOf[r]]}
      BY <1>3, <2>4 DEF Restart, Slots!Stop
    <3>2. slot[SessionOf[r]] \in Requests
      BY <2>2, <2>4 DEF TInv, TypeOK
    <3> QED
      BY <2>1, <3>1, <3>2 DEF TInv, TypeOK
  <2> QED
    BY <2>3, <2>4
<1>4. CASE RestartGoesOn(r)
  <2>1. /\ dispatcher' \in [Requests -> Dispatchers] /\ lock' \in Requests \cup {None}
        /\ UNCHANGED <<store, ready, emitted, emitter, inbox, item, stream>>
    BY <1>4 DEF RestartGoesOn, TInv, TypeOK
  <2>2. slot' \in [Sessions -> Requests \cup {None}] /\ stopping' \subseteq Requests
    BY <1>4, Constants DEF RestartGoesOn, Slots!Begin, TInv, TypeOK
  <2> QED
    BY <2>1, <2>2 DEF TInv, TypeOK
<1> QED
  BY <1>1, <1>2, <1>3, <1>4 DEF DispatchStep

LEMMA RunTypes ==
  ASSUME TInv, NEW r \in Requests, RunStep(r)
  PROVE  TInv'
<1> USE DEF store, service, emitter
<1>1. CASE Emit(r)
  <2>1. emitted[r] \in Nat /\ emitted[r] + 1 \in 1..Len(Script[r])
    BY <1>1, Constants DEF Emit, TInv, TypeOK
  <2>2. Script[r][emitted[r] + 1] \in Kinds
    BY <2>1, Constants, ElementOfSeq
  <2>3. queue' \in Seq(Message)
    <3>1. [req |-> r, n |-> emitted[r] + 1, kind |-> Script[r][emitted[r] + 1]] \in Message
      BY <2>1, <2>2 DEF Message
    <3> QED
      BY <1>1, <3>1, AppendProperties DEF Emit, TInv, TypeOK, Message
  <2>4. /\ DOMAIN emitted' = Requests
        /\ \A q \in Requests : emitted'[q] = IF q = r THEN emitted[r] + 1 ELSE emitted[q]
    BY <1>1 DEF Emit, TInv
  <2>5. emitted[r] + 1 \in 0..Len(Script[r])
    BY <2>1, Constants
  <2>6. \A q \in Requests : emitted'[q] \in 0..Len(Script[q])
    BY <2>4, <2>5 DEF TInv, TypeOK
  <2> QED
    BY <1>1, <2>3, <2>4, <2>6 DEF Emit, TInv, TypeOK, Message
<1>2. CASE RunEnds(r)
  <2>1. slot' \in [Sessions -> Requests \cup {None}] /\ stopping' \subseteq Requests
    BY <1>2, Constants DEF RunEnds, Slots!End, TInv, TypeOK
  <2> QED
    BY <1>2, <2>1 DEF RunEnds, TInv, TypeOK
<1> QED
  BY <1>1, <1>2 DEF RunStep

LEMMA DeleteTypes ==
  ASSUME TInv, NEW s \in Sessions, DeleteSession(s)
  PROVE  TInv'
<1>1. log' \in [Sessions -> Seq(LogEntry)] /\ deleted' \subseteq Sessions
  <2>1. log \in [Sessions -> Seq(LogEntry)]
    BY DEF TInv, TypeOK, LogEntry
  <2>2. <<>> \in Seq(LogEntry)
    OBVIOUS
  <2> QED
    BY <2>1, <2>2 DEF DeleteSession, TInv, TypeOK
<1> QED
  BY <1>1 DEF DeleteSession, TInv, TypeOK, LogEntry, service, emitter

(* What the worker does with the message m it takes: it notifies r, of m as *)
(* it is or of a message without parts, or nobody.                          *)
Becomes(m, kind) == [n |-> m.n, kind |-> kind]
Delivers(m, kind) ==
  \/ inbox' = inbox /\ (kind = "chunk" \/ m.req \notin finalSubs)
  \/ inbox' = [inbox EXCEPT ![m.req] = Append(@, Becomes(m, kind))]

LEMMA DeliverIs ==
  ASSUME TInv, Deliver
  PROVE  /\ queue # <<>> /\ queue' = Tail(queue)
         /\ Head(queue) \in Message
         /\ LET m == Head(queue)
            IN \/ Delivers(m, m.kind) /\ lost' = lost
               \/ /\ m.kind = "message" /\ lost' = lost \cup {<<m.req, m.n>>}
                  /\ Delivers(m, "empty") \/ inbox' = inbox
         /\ UNCHANGED <<store, ready, service, emitted, chunkSubs, finalSubs, item, stream>>
<1>1. queue # <<>> /\ queue \in Seq(Message)
  BY DEF Deliver, TInv, TypeOK, Message
<1>2. Head(queue) \in Message
  BY <1>1, HeadTailProperties
<1>3. \A kind : Notify(Head(queue), kind) => Delivers(Head(queue), kind)
  BY DEF Notify, Delivers, Becomes
<1>4. Head(queue).kind = "chunk" /\ inbox' = inbox => Delivers(Head(queue), "chunk")
  BY DEF Delivers
<1> QED
  BY <1>1, <1>2, <1>3, <1>4 DEF Deliver

LEMMA DeliverTypes ==
  ASSUME TInv, Deliver
  PROVE  TInv'
<1> USE DEF store, service
<1>0. queue # <<>> /\ queue \in Seq(Message)
  BY DEF Deliver, TInv, TypeOK, Message
<1>1. PICK m \in Message : m = Head(queue)
  BY DeliverIs
<1>2. queue' \in Seq(Message)
  BY <1>0, HeadTailProperties DEF Deliver
<1>3. /\ lost' = lost \/ lost' = lost \cup {<<m.req, m.n>>}
      /\ \/ inbox' = inbox
         \/ \E kind \in {m.kind, "empty"} :
               inbox' = [inbox EXCEPT ![m.req] = Append(@, Becomes(m, kind))]
  BY <1>1, DeliverIs DEF Delivers
<1>4. m.req \in Requests /\ m.n \in Nat \ {0} /\ \A kind \in {m.kind, "empty"} : Becomes(m, kind) \in Emitted
  BY <1>1 DEF Message, Emitted, Becomes
<1>5. \A kind \in {m.kind, "empty"} : Append(inbox[m.req], Becomes(m, kind)) \in Seq(Emitted)
  BY <1>4, AppendProperties DEF TInv, TypeOK
<1>6. inbox' \in [Requests -> Seq(Emitted)]
  <2>1. inbox \in [Requests -> Seq(Emitted)]
    BY DEF TInv, TypeOK
  <2>2. ASSUME NEW kind \in {m.kind, "empty"},
               inbox' = [inbox EXCEPT ![m.req] = Append(@, Becomes(m, kind))]
        PROVE  inbox' \in [Requests -> Seq(Emitted)]
    BY <1>4, <1>5, <2>1, <2>2
  <2> QED
    BY <1>3, <2>1, <2>2
<1>7. lost' \subseteq Requests \X (Nat \ {0})
  BY <1>3, <1>4 DEF TInv, TypeOK
<1> QED
  BY <1>2, <1>6, <1>7 DEF Deliver, TInv, TypeOK, Message

LEMMA StreamTypes ==
  ASSUME TInv, NEW r \in Requests, StreamStep(r) \/ Disconnect(r)
  PROVE  TInv'
<1> USE DEF store, service, emitter, Phases
<1>1. CASE StreamStarts(r)
  BY <1>1 DEF StreamStarts, TInv, TypeOK
<1>2. CASE Take(r)
  <2>1. inbox[r] \in Seq(Emitted) /\ inbox[r] # <<>>
    BY <1>2 DEF Take, TInv, TypeOK
  <2>2. PICK k \in Emitted : k = Head(inbox[r])
    <3>1. Head(inbox[r]) \in Emitted
      BY <2>1, HeadTailProperties
    <3> QED
      BY <3>1
  <2>3. Tail(inbox[r]) \in Seq(Emitted)
    BY <2>1, HeadTailProperties
  <2>4. inbox' \in [Requests -> Seq(Emitted)] /\ item' = [item EXCEPT ![r] = k]
    BY <1>2, <2>2, <2>3 DEF Take, TInv, TypeOK
  <2>6. /\ item' \in [Requests -> Emitted \cup {Nothing}] /\ item'[r] = k
        /\ \A q \in Requests : q # r => item'[q] = item[q]
    BY <2>4 DEF TInv, TypeOK
  <2>7. PICK ph \in Phases : /\ stream' = [stream EXCEPT ![r] = ph]
                             /\ ph = "storing" => k.kind \in {"status", "message"}
    BY <1>2, <2>2 DEF Take, EndStream, Doing, Emitted, Kinds
  <2>8. /\ stream' \in [Requests -> Phases] /\ chunkSubs' \subseteq Requests
        /\ \A q \in Requests : q # r => stream'[q] = stream[q]
        /\ stream'[r] = "storing" => k.kind \in {"status", "message"}
    BY <1>2, <2>7 DEF Take, EndStream, TInv, TypeOK
  <2>9. UNCHANGED <<store, ready, service, emitted, queue, lost, finalSubs>>
    BY <1>2 DEF Take
  <2> QED
    BY <2>4, <2>6, <2>8, <2>9 DEF TInv, TypeOK
<1>3. CASE StoreItem(r)
  <2>1. /\ item[r] \in Emitted \cup {Nothing} /\ item[r].kind \in Kinds
        /\ Record(r, item[r].n, item[r].kind)
    BY <1>3 DEF StoreItem, TInv, TypeOK, Kinds
  <2>2. PICK n \in Nat, k \in Kinds \cup {"user"} : n = item[r].n /\ k = item[r].kind
    BY <2>1 DEF Emitted, Nothing
  <2>3. log' \in [Sessions -> Seq(LogEntry)] /\ deleted' = deleted
    BY <2>1, <2>2, RecordType DEF TInv
  <2>4. /\ stream' \in [Requests -> Phases]
        /\ \A q \in Requests : stream'[q] = "storing" => stream[q] = "storing"
    BY <1>3 DEF StoreItem, TInv, TypeOK
  <2> QED
    BY <1>3, <2>3, <2>4 DEF StoreItem, TInv, TypeOK, LogEntry
<1>4. CASE Sent(r)
  BY <1>4 DEF Sent, TInv, TypeOK
<1>5. CASE CancelRun(r)
  <2>1. stopping' \subseteq Requests /\ slot' = slot
    BY <1>5, Constants DEF CancelRun, Slots!Stop, TInv, TypeOK
  <2> QED
    BY <1>5, <2>1 DEF CancelRun, EndStream, TInv, TypeOK
<1>6. CASE CancelRunInterrupted(r)
  BY <1>6 DEF CancelRunInterrupted, EndStream, TInv, TypeOK
<1>7. CASE Disconnect(r)
  BY <1>7 DEF Disconnect, EndStream, TInv, TypeOK
<1>8. CASE StoreItemFails(r)
  BY <1>8 DEF StoreItemFails, EndStream, TInv, TypeOK
<1> QED
  BY <1>1, <1>2, <1>3, <1>4, <1>5, <1>6, <1>7, <1>8 DEF StreamStep

(* Every variable of the streaming requests keeps its type: in particular   *)
(* create_event (api/sessions.py, event_stream) is only asked to store what *)
(* the emitter can deliver.                                                 *)
THEOREM TypeCorrect == Spec => []TypeOK
<1>1. Init => TInv
  BY TypesInitially
<1>2. TInv /\ [Next]_vars => TInv'
  <2>1. ASSUME TInv, UNCHANGED vars
        PROVE  TInv'
    BY <2>1 DEF vars, TInv, TypeOK
  <2> QED
    BY <2>1, RequestTypes, RunTypes, DeliverTypes, DeleteTypes, StreamTypes
        DEF Next, Environment, LoopStep
<1>3. TInv => TypeOK
  BY DEF TInv
<1> QED
  BY <1>1, <1>2, <1>3, PTL DEF Spec

-----------------------------------------------------------------------------
(* What is stored.  An event of a run is in the emitter's queue, then in    *)
(* the response's, then the item it took last, then in the log; along this  *)
(* way their numbers fall, and of what is to be stored nothing is missing.  *)
(* A message with nothing to store is empty on its way, or has none.        *)

\* Nothing is emitted under a request whose response has not subscribed.
Listened ==
  /\ ready \subseteq finalSubs
  /\ \A r \in Requests :
       /\ dispatcher[r] \in {"restarting", "replacing", "done"} => r \in finalSubs
       /\ emitted[r] > 0 => r \in finalSubs
  /\ \A s \in Sessions : slot[s] # None => slot[s] \in finalSubs

\* e is an event of r's run, or what is left of a message there is nothing to store of.
IsEvent(r, e) ==
  /\ e.n \in 1..emitted[r]
  /\ IF e.kind = "empty" THEN <<r, e.n>> \in lost
     ELSE e.kind = Script[r][e.n] /\ <<r, e.n>> \notin lost

\* The events of r on their way are in order, those in its own queue before those in the
\* emitter's, all after the one taken last.
InFlight(r) ==
  /\ \A i \in 1..Len(queue) : queue[i].req = r =>
       /\ IsEvent(r, queue[i])
       /\ item[r].n < queue[i].n
       /\ \A j \in 1..Len(inbox[r]) : inbox[r][j].n < queue[i].n
       /\ \A j \in 1..Len(queue) : i < j /\ queue[j].req = r => queue[i].n < queue[j].n
  /\ \A i \in 1..Len(inbox[r]) :
       /\ IsEvent(r, inbox[r][i])
       /\ item[r].n < inbox[r][i].n
       /\ \A j \in 1..Len(inbox[r]) : i < j => inbox[r][i].n < inbox[r][j].n
  /\ item[r] = Nothing \/ IsEvent(r, item[r])
  /\ \A k \in Nat : <<r, k>> \in lost => k <= emitted[r]

Waits(r, k) == \/ \E i \in 1..Len(inbox[r]) : inbox[r][i].n = k
               \/ \E i \in 1..Len(queue) : queue[i].req = r /\ queue[i].n = k

\* Of what r's run has emitted, only chunks and messages with nothing to store are dropped.
Dropped(r, k) == Script[r][k] = "chunk" \/ <<r, k>> \in lost
NoneLost(r) == \A k \in 1..emitted[r] : item[r].n < k => Dropped(r, k) \/ Waits(r, k)

\* What is stored of r: everything up to the item taken last, but perhaps for itself.
ButLast(r) == item[r] # Nothing /\ Stored(r) = ToStore(r, item[r].n - 1)
UpTo(r) == Stored(r) = ToStore(r, item[r].n)

InStep(r) ==
  /\ StoredInOrder(r)
  /\ stream[r] = "none" => Places(r) = {}
  /\ stream[r] \in {"pending", "listening", "sending"} => UpTo(r)
  /\ stream[r] = "completed" => UpTo(r) /\ item[r].kind = "completed"
  /\ stream[r] = "storing" => ButLast(r) /\ item[r].kind \in {"status", "message"}
  /\ stream[r] \in {"cancelling", "gone"} => ButLast(r) \/ UpTo(r)
  /\ stream[r] # "failed"

Kept(r) ==
  /\ stream[r] = "none" => item[r] = Nothing
  /\ IF SessionOf[r] \in deleted THEN Log(r) = <<>> ELSE InStep(r)

PInv == TInv /\ Listened /\ \A r \in Requests : InFlight(r) /\ NoneLost(r) /\ Kept(r)

(* What a record adds to the log.                                           *)
LEMMA RecordAdds ==
  ASSUME TInv, NEW r \in Requests, NEW n \in Nat, NEW k \in Kinds \cup {"user"}, Record(r, n, k)
  PROVE  /\ \E new \in Nat :
              /\ Places(r)' = Places(r) \cup {new}
              /\ Log(r)'[new].n = n /\ Log(r)'[new].kind = k
              /\ \A i \in Places(r) : i \in Nat /\ i < new /\ Log(r)'[i] = Log(r)[i]
         /\ \A q \in Requests \ {r} : /\ Places(q)' = Places(q)
                                      /\ \A i \in Places(q) : Log(q)'[i] = Log(q)[i]
<1> DEFINE new == Len(Log(r)) + 1
           e == [req |-> r, n |-> n, kind |-> k]
<1>1. /\ SessionOf[r] \in Sessions /\ Log(r) \in Seq(LogEntry) /\ e \in LogEntry
      /\ \A q \in Requests : SessionOf[q] \in Sessions /\ Log(q) \in Seq(LogEntry)
  BY Constants DEF TInv, TypeOK, LogEntry, Log
<1>2. /\ Len(Log(r)) \in Nat /\ DOMAIN Log(r) = 1..Len(Log(r))
      /\ \A q \in Requests : Len(Log(q)) \in Nat /\ DOMAIN Log(q) = 1..Len(Log(q))
  BY <1>1, LenProperties
<1>3. log' = [log EXCEPT ![SessionOf[r]] = Append(Log(r), e)]
  BY DEF Record, Log
<1>4. \A q \in Requests : Log(q)' = IF SessionOf[q] = SessionOf[r] THEN Append(Log(r), e) ELSE Log(q)
  BY <1>1, <1>3 DEF Log, TInv, TypeOK
<1>5. /\ Len(Append(Log(r), e)) = new /\ DOMAIN Append(Log(r), e) = 1..new
      /\ Append(Log(r), e)[new] = e
      /\ \A i \in 1..Len(Log(r)) : Append(Log(r), e)[i] = Log(r)[i]
  <2>1. Append(Log(r), e) \in Seq(LogEntry)
    BY <1>1, AppendProperties
  <2> QED
    BY <1>1, <2>1, AppendProperties, LenProperties
<1>6. 1..new = 1..Len(Log(r)) \cup {new} /\ new \notin 1..Len(Log(r))
  BY <1>2
<1>7. e.req = r /\ e.n = n /\ e.kind = k /\ new \in Nat
  BY <1>2
<1> HIDE DEF new, e
<1>8. Log(r)' = Append(Log(r), e)
  BY <1>4
<1>9. Places(r)' = {i \in 1..new : Append(Log(r), e)[i].req = r}
  BY <1>5, <1>8 DEF Places
<1>10. Places(r) = {i \in 1..Len(Log(r)) : Log(r)[i].req = r}
  BY <1>2 DEF Places
<1>11. Places(r)' = Places(r) \cup {new}
  BY <1>5, <1>6, <1>7, <1>9, <1>10
<1>12. \A i \in Places(r) : i \in Nat /\ i < new /\ Log(r)'[i] = Log(r)[i]
  <2>1. \A i \in 1..Len(Log(r)) : i \in Nat /\ i < new
    BY <1>2 DEF new
  <2> QED
    BY <2>1, <1>5, <1>8, <1>10
<1>13. ASSUME NEW q \in Requests \ {r}
       PROVE  /\ Places(q)' = Places(q)
              /\ \A i \in Places(q) : Log(q)'[i] = Log(q)[i]
  <2>1. Places(q) = {i \in 1..Len(Log(q)) : Log(q)[i].req = q}
    BY <1>2 DEF Places
  <2>2. CASE SessionOf[q] = SessionOf[r]
    <3>1. Log(q) = Log(r) /\ Log(q)' = Append(Log(r), e)
      BY <1>4, <2>2 DEF Log
    <3>2. Places(q)' = {i \in 1..new : Append(Log(r), e)[i].req = q}
      BY <1>5, <3>1 DEF Places
    <3>3. Places(q)' = Places(q)
      BY <1>5, <1>6, <1>7, <2>1, <3>1, <3>2
    <3> QED
      BY <1>5, <2>1, <3>1, <3>3
  <2>3. CASE SessionOf[q] # SessionOf[r]
    <3>1. Log(q)' = Log(q)
      BY <1>4, <2>3
    <3> QED
      BY <3>1 DEF Places
  <2> QED
    BY <2>2, <2>3
<1>14. Log(r)'[new].n = n /\ Log(r)'[new].kind = k
  BY <1>5, <1>7, <1>8
<1> QED
  BY <1>7, <1>11, <1>12, <1>13, <1>14

(* What is stored of a request, and its order, are the same when its events *)
(* are.                                                                     *)
LEMMA SamePlaces ==
  ASSUME NEW q \in Requests, Places(q)' = Places(q),
         \A i \in Places(q) : Log(q)'[i] = Log(q)[i]
  PROVE  Stored(q)' = Stored(q) /\ StoredInOrder(q)' = StoredInOrder(q)
<1>1. Stored(q)' = Stored(q)
  BY DEF Stored
<1>2. StoredInOrder(q)' = StoredInOrder(q)
  BY DEF StoredInOrder
<1> QED
  BY <1>1, <1>2

\* What is to be stored up to the item taken last is not among what gets lost.
LostAhead(q) == \A k \in 1..item[q].n : <<q, k>> \in lost' <=> <<q, k>> \in lost

LEMMA SameToStore ==
  ASSUME TInv, NEW q \in Requests, LostAhead(q), item'[q] = item[q]
  PROVE  /\ ToStore(q, item[q].n)' = ToStore(q, item[q].n)
         /\ ToStore(q, item[q].n - 1)' = ToStore(q, item[q].n - 1)
<1>1. item[q].n \in Nat
  BY DEF TInv, TypeOK, Emitted, Nothing
<1>2. \A k \in 1..(item[q].n - 1) : k \in 1..item[q].n
  BY <1>1
<1> QED
  BY <1>2 DEF ToStore, LostAhead

LEMMA KeptAside ==
  ASSUME TInv, NEW q \in Requests, Kept(q), Places(q)' = Places(q), deleted' = deleted,
         \A i \in Places(q) : Log(q)'[i] = Log(q)[i],
         SessionOf[q] \in deleted => Log(q)' = Log(q), LostAhead(q),
         stream'[q] = stream[q], item'[q] = item[q]
  PROVE  Kept(q)'
<1>1. (UpTo(q)' <=> UpTo(q)) /\ (ButLast(q)' <=> ButLast(q))
  BY SamePlaces, SameToStore DEF UpTo, ButLast
<1>2. InStep(q) => InStep(q)'
  BY <1>1, SamePlaces DEF InStep
<1> QED
  BY <1>2 DEF Kept

LEMMA KeptWhenLogIs ==
  ASSUME TInv, NEW q \in Requests, Kept(q), UNCHANGED store, LostAhead(q),
         stream'[q] = stream[q], item'[q] = item[q]
  PROVE  Kept(q)'
<1>1. Log(q)' = Log(q) /\ Places(q)' = Places(q) /\ deleted' = deleted
  BY DEF Log, Places, store
<1> QED
  BY <1>1, KeptAside

(* Nothing is left of a deleted session, the others are as they were.       *)
LEMMA DeleteKept ==
  ASSUME TInv, NEW q \in Requests, Kept(q), NEW s \in Sessions, DeleteSession(s)
  PROVE  Kept(q)'
<1> USE DEF emitter
<1>1. /\ deleted' = deleted \cup {s} /\ UNCHANGED <<item, stream, lost>>
      /\ SessionOf[q] \in Sessions
      /\ Log(q)' = IF SessionOf[q] = s THEN <<>> ELSE Log(q)
  BY Constants DEF DeleteSession, Log, TInv, TypeOK
<1>2. CASE SessionOf[q] = s \/ SessionOf[q] \in deleted
  BY <1>1, <1>2 DEF Kept
<1>3. CASE SessionOf[q] # s /\ SessionOf[q] \notin deleted
  <2>1. Log(q)' = Log(q) /\ Places(q)' = Places(q)
    BY <1>1, <1>3 DEF Places
  <2>2. (UpTo(q)' <=> UpTo(q)) /\ (ButLast(q)' <=> ButLast(q)) /\ StoredInOrder(q)' = StoredInOrder(q)
    BY <1>1, <2>1, SamePlaces, SameToStore DEF UpTo, ButLast, LostAhead
  <2> QED
    BY <1>1, <1>3, <2>1, <2>2 DEF Kept, InStep
<1> QED
  BY <1>2, <1>3

(* An event that comes after all that is stored keeps the order.            *)
LEMMA RecordInOrder ==
  ASSUME TInv, NEW r \in Requests, NEW n \in Nat, NEW k \in Kinds \cup {"user"}, Record(r, n, k),
         StoredInOrder(r), \A x \in Stored(r) : x < n,
         k = IF n = 0 THEN "user" ELSE Script[r][n]
  PROVE  StoredInOrder(r)' /\ Stored(r)' = Stored(r) \cup {n}
<1> DEFINE L == Log(r)'
<1>1. PICK new \in Nat : /\ Places(r)' = Places(r) \cup {new}
                         /\ L[new].n = n /\ L[new].kind = k
                         /\ \A i \in Places(r) : i \in Nat /\ i < new /\ L[i] = Log(r)[i]
  BY RecordAdds
<1>3. Stored(r)' = {L[i].n : i \in Places(r)'}
  BY DEF Stored
<1>4. \A i \in Places(r) : Log(r)[i].n < n
  BY DEF Stored
<1> HIDE DEF L
<1>5. Stored(r)' = Stored(r) \cup {n}
  <2>1. {L[i].n : i \in Places(r)} = Stored(r)
    BY <1>1 DEF Stored
  <2>2. {L[i].n : i \in Places(r)'} = {L[i].n : i \in Places(r)} \cup {L[new].n}
    BY <1>1
  <2> QED
    BY <1>1, <1>3, <2>1, <2>2
<1>6. ASSUME NEW i \in Places(r)'
      PROVE  /\ L[i].kind = IF L[i].n = 0 THEN "user" ELSE Script[r][L[i].n]
             /\ \A j \in Places(r)' : i < j => L[i].n < L[j].n
  <2>1. CASE i = new
    <3>1. \A j \in Places(r)' : ~(i < j)
      BY <1>1, <2>1
    <3> QED
      BY <1>1, <2>1, <3>1
  <2>2. CASE i \in Places(r)
    <3>1. \A j \in Places(r) : i < j => L[i].n < L[j].n
      BY <1>1, <2>2 DEF StoredInOrder
    <3> QED
      BY <1>1, <1>4, <2>2, <3>1 DEF StoredInOrder
  <2> QED
    BY <1>1, <2>1, <2>2
<1>7. StoredInOrder(r)'
  BY <1>6 DEF StoredInOrder, L
<1> QED
  BY <1>5, <1>7
-----------------------------------------------------------------------------
(* A step that leaves r's way alone, and the three that do not.             *)
LEMMA WayAside ==
  ASSUME NEW r \in Requests, InFlight(r), NoneLost(r), queue' = queue,
         inbox'[r] = inbox[r], item'[r] = item[r], emitted'[r] = emitted[r], lost' = lost
  PROVE  InFlight(r)' /\ NoneLost(r)'
<1>1. InFlight(r)'
  BY DEF InFlight, IsEvent
<1>2. NoneLost(r)'
  BY DEF NoneLost, Waits, Dropped
<1> QED
  BY <1>1, <1>2

(* The types of what is on the way.                                         *)
LEMMA WayTypes ==
  ASSUME TInv, NEW r \in Requests
  PROVE  /\ emitted[r] \in Nat
         /\ inbox[r] \in Seq(Emitted) /\ Len(inbox[r]) \in Nat
         /\ \A i \in 1..Len(inbox[r]) : inbox[r][i] \in Emitted /\ inbox[r][i].n \in Nat
         /\ queue \in Seq(Message) /\ Len(queue) \in Nat
         /\ \A i \in 1..Len(queue) : queue[i].n \in Nat /\ queue[i].req \in Requests
         /\ item[r].n \in Nat
<1>1. inbox[r] \in Seq(Emitted) /\ queue \in Seq(Message) /\ item[r] \in Emitted \cup {Nothing}
  BY DEF TInv, TypeOK, Message
<1>2. /\ \A i \in 1..Len(inbox[r]) : inbox[r][i] \in Emitted
      /\ \A i \in 1..Len(queue) : queue[i] \in Message
  BY <1>1, ElementOfSeq
<1>3. emitted[r] \in Nat
  BY Constants DEF TInv, TypeOK
<1>4. Len(inbox[r]) \in Nat /\ Len(queue) \in Nat
  BY <1>1, LenProperties
<1>5. item[r].n \in Nat
  BY <1>1 DEF Emitted, Nothing
<1> QED
  BY <1>1, <1>2, <1>3, <1>4, <1>5 DEF Emitted, Message

LEMMA EmitWay ==
  ASSUME TInv, NEW r \in Requests, NEW q \in Requests, InFlight(q), NoneLost(q), Emit(r)
  PROVE  InFlight(q)' /\ NoneLost(q)'
<1> DEFINE n == emitted[r] + 1
           e == [req |-> r, n |-> n, kind |-> Script[r][n]]
           last == Len(queue) + 1
<1>1. queue' = Append(queue, e) /\ UNCHANGED <<inbox, item, lost>>
  BY DEF Emit
<1>2. /\ emitted'[r] = n
      /\ q # r => emitted'[q] = emitted[q]
  BY DEF Emit, TInv
<1>3. e.req = r /\ e.n = n /\ e.kind = Script[r][n]
  OBVIOUS
<1>9. e.kind # "empty"
  <2>1. Script[r] \in Seq(Kinds) /\ n \in 1..Len(Script[r])
    BY Constants DEF Emit, TInv, TypeOK
  <2>2. Script[r][n] \in Kinds
    BY <2>1, ElementOfSeq
  <2> QED
    BY <1>3, <2>2 DEF Kinds
<1>4. /\ emitted[q] \in Nat /\ emitted[r] \in Nat /\ Len(queue) \in Nat
      /\ queue \in Seq(Message) /\ item[q].n \in Nat
      /\ \A i \in 1..Len(queue) : queue[i].n \in Nat
      /\ \A i \in 1..Len(inbox[q]) : inbox[q][i].n \in Nat
  BY WayTypes
<1> HIDE DEF e
<1>5. Len(queue') = last /\ queue'[last] = e /\ \A i \in 1..Len(queue) : queue'[i] = queue[i]
  BY <1>1, <1>4
<1>6. /\ 1..last = 1..Len(queue) \cup {last}
      /\ \A i \in 1..Len(queue) : i < last /\ i # last
  BY <1>4
<1>7. CASE q = r
  <2>1. \A x : x \in 1..emitted[q] => x \in 1..emitted'[q] /\ x < n
    BY <1>2, <1>4, <1>7
  <2>2. n \in 1..emitted'[q] /\ 1..emitted'[q] = 1..emitted[q] \cup {n}
    BY <1>2, <1>4, <1>7
  <2>12. <<q, n>> \notin lost /\ \A k \in Nat : <<q, k>> \in lost => k <= emitted'[q]
    BY <1>2, <1>4, <1>7 DEF InFlight
  <2>3. item[q].n < n
    BY <2>1, <1>4, <1>7 DEF InFlight, IsEvent, Nothing
  <2>4. \A i \in 1..Len(queue) : queue[i].req = q => queue[i].n < n
    BY <2>1 DEF InFlight, IsEvent
  <2>5. \A i \in 1..Len(inbox[q]) : inbox[q][i].n < n
    BY <2>1 DEF InFlight, IsEvent
  <2>6. ASSUME NEW i \in 1..last, queue'[i].req = q
        PROVE  /\ IsEvent(q, queue[i])'
               /\ item[q].n < queue'[i].n
               /\ \A j \in 1..Len(inbox[q]) : inbox[q][j].n < queue'[i].n
               /\ \A j \in 1..last : i < j /\ queue'[j].req = q => queue'[i].n < queue'[j].n
    <3>1. CASE i = last
      <4>1. \A j \in 1..last : ~(i < j)
        BY <1>4, <3>1
      <4> QED
        BY <1>1, <1>3, <1>5, <1>7, <1>9, <2>2, <2>3, <2>5, <2>12, <3>1, <4>1 DEF IsEvent
    <3>2. CASE i \in 1..Len(queue)
      <4>1. IsEvent(q, queue[i])'
        BY <1>1, <1>5, <2>1, <2>6, <3>2 DEF InFlight, IsEvent
      <4>2. \A j \in 1..last : i < j /\ queue'[j].req = q => queue'[i].n < queue'[j].n
        BY <1>3, <1>5, <1>6, <2>4, <2>6, <3>2 DEF InFlight
      <4> QED
        BY <1>5, <2>6, <3>2, <4>1, <4>2 DEF InFlight
    <3> QED
      BY <1>6, <3>1, <3>2
  <2>7. \A i \in 1..Len(inbox[q]) : IsEvent(q, inbox[q][i])'
    BY <2>1, <1>1 DEF InFlight, IsEvent
  <2>8. item[q] = Nothing \/ IsEvent(q, item[q])'
    BY <2>1, <1>1 DEF InFlight, IsEvent
  <2>9. InFlight(q)'
    <3>1. /\ item'[q] = item[q] /\ inbox'[q] = inbox[q]
          /\ \A i \in 1..Len(inbox[q]) :
               /\ item[q].n < inbox[q][i].n
               /\ \A j \in 1..Len(inbox[q]) : i < j => inbox[q][i].n < inbox[q][j].n
      BY <1>1 DEF InFlight
    <3> QED
      BY <1>1, <1>5, <2>6, <2>7, <2>8, <2>12, <3>1 DEF InFlight
  <2>10. ASSUME NEW k \in 1..emitted'[q], item[q].n < k, ~Dropped(q, k)
         PROVE  \/ \E i \in 1..Len(inbox[q]) : inbox[q][i].n = k
                \/ \E i \in 1..last : queue'[i].req = q /\ queue'[i].n = k
    <3>1. CASE k \in 1..emitted[q]
      <4>1. Waits(q, k)
        BY <2>10, <3>1 DEF NoneLost
      <4> QED
        BY <1>5, <1>6, <4>1 DEF Waits
    <3>2. CASE k = n
      BY <1>3, <1>5, <1>6, <1>7, <3>2
    <3> QED
      BY <2>2, <3>1, <3>2
  <2>11. NoneLost(q)'
    BY <1>1, <1>5, <2>10 DEF NoneLost, Waits, Dropped
  <2> QED
    BY <2>9, <2>11
<1>8. CASE q # r
  <2>1. queue'[last].req # q
    BY <1>3, <1>5, <1>8
  <2>2. emitted'[q] = emitted[q] /\ item'[q] = item[q] /\ inbox'[q] = inbox[q]
    BY <1>1, <1>2, <1>8
  <2>3. InFlight(q)'
    <3>1. \A i \in 1..last : queue'[i].req = q => i \in 1..Len(queue) /\ queue'[i] = queue[i]
      BY <1>5, <1>6, <2>1
    <3>2. \A f : IsEvent(q, f)' <=> IsEvent(q, f)
      BY <1>1, <2>2 DEF IsEvent
    <3> QED
      BY <1>1, <1>5, <2>2, <3>1, <3>2 DEF InFlight, IsEvent
  <2>4. NoneLost(q)'
    <3>1. ASSUME NEW k, Waits(q, k)
          PROVE  Waits(q, k)'
      BY <1>5, <1>6, <2>2, <3>1 DEF Waits
    <3> QED
      BY <1>1, <2>2, <3>1 DEF NoneLost, Dropped
  <2> QED
    BY <2>3, <2>4
<1> QED
  BY <1>7, <1>8
LEMMA DeliverWay ==
  ASSUME TInv, Listened, NEW q \in Requests, InFlight(q), NoneLost(q), Deliver
  PROVE  InFlight(q)' /\ NoneLost(q)'
<1> DEFINE m == Head(queue)
           N == Len(queue)
<1>1. queue # <<>> /\ queue' = Tail(queue) /\ UNCHANGED <<item, emitted>>
  BY DEF Deliver
<1>2. /\ emitted[q] \in Nat /\ N \in Nat
      /\ queue \in Seq(Message) /\ inbox[q] \in Seq(Emitted) /\ Len(inbox[q]) \in Nat
      /\ \A i \in 1..N : queue[i].n \in Nat /\ queue[i].req \in Requests
      /\ \A i \in 1..Len(inbox[q]) : inbox[q][i].n \in Nat
  BY WayTypes
<1>3. N >= 1 /\ m = queue[1] /\ 1 \in 1..N
  BY <1>1, <1>2
<1>4. Len(queue') = N - 1 /\ \A i \in 1..(N - 1) : queue'[i] = queue[i + 1] /\ i + 1 \in 1..N
  BY <1>1, <1>2
<1>5. \A i \in 1..N : i # 1 => i - 1 \in 1..(N - 1) /\ queue'[i - 1] = queue[i]
  BY <1>2, <1>4
<1>12. /\ m \in Message
       /\ \/ Delivers(m, m.kind) /\ lost' = lost
          \/ /\ m.kind = "message" /\ lost' = lost \cup {<<m.req, m.n>>}
             /\ Delivers(m, "empty") \/ inbox' = inbox
  BY DeliverIs
<1>13. m.kind # "empty" /\ m.req \in Requests /\ m.n \in Nat
  BY <1>12 DEF Message, Kinds
<1> HIDE DEF m, N
<1>14. m.req = q =>
        /\ IsEvent(q, m) /\ item[q].n < m.n
        /\ \A j \in 1..Len(inbox[q]) : inbox[q][j].n < m.n
  BY <1>3 DEF InFlight, N
<1>7. m.req = q =>
        /\ m.n \in 1..emitted[q] /\ m.kind = Script[q][m.n] /\ item[q].n < m.n
        /\ \A j \in 1..Len(inbox[q]) : inbox[q][j].n < m.n
  BY <1>13, <1>14 DEF IsEvent
\* What is not m stays an event.
<1>15. ASSUME NEW e, IsEvent(q, e), m.req = q => e.n # m.n
       PROVE  IsEvent(q, e)'
  BY <1>1, <1>12, <1>15 DEF IsEvent
<1>16. \A k \in Nat : <<q, k>> \in lost' => k <= emitted'[q]
  BY <1>1, <1>2, <1>7, <1>12 DEF InFlight
\* What is left of the queue is still in order, and of the rest of q's way.
<1>6. \A i \in 1..(N - 1) : queue'[i].req = q =>
        /\ IsEvent(q, queue[i])'
        /\ item[q].n < queue'[i].n
        /\ \A j \in 1..Len(inbox[q]) : inbox[q][j].n < queue'[i].n
        /\ m.req = q => m.n < queue'[i].n
        /\ \A j \in 1..(N - 1) : i < j /\ queue'[j].req = q => queue'[i].n < queue'[j].n
  <2>1. ASSUME NEW i \in 1..(N - 1), queue[i + 1].req = q
        PROVE  /\ IsEvent(q, queue[i + 1])
               /\ item[q].n < queue[i + 1].n
               /\ \A j \in 1..Len(inbox[q]) : inbox[q][j].n < queue[i + 1].n
               /\ m.req = q => m.n < queue[i + 1].n
               /\ \A j \in 1..(N - 1) : i < j /\ queue[j + 1].req = q =>
                    queue[i + 1].n < queue[j + 1].n
    <3>1. i + 1 \in 1..N /\ 1 < i + 1 /\ \A j \in 1..(N - 1) : j + 1 \in 1..N /\ (i < j => i + 1 < j + 1)
      BY <1>2
    <3> QED
      BY <1>3, <2>1, <3>1 DEF InFlight, N
  <2>2. ASSUME NEW i \in 1..(N - 1), queue'[i].req = q
        PROVE  IsEvent(q, queue[i])'
    <3>1. queue'[i] = queue[i + 1] /\ queue[i + 1].req = q /\ queue[i + 1].n \in Nat
      BY <1>2, <1>4, <2>2 DEF N
    <3>2. IsEvent(q, queue[i + 1]) /\ (m.req = q => queue[i + 1].n # m.n)
      BY <1>13, <2>1, <3>1
    <3> QED
      BY <1>1, <1>12, <3>1, <3>2 DEF IsEvent
  <2> QED
    BY <1>4, <2>1, <2>2
<1>8. \A i \in 1..Len(inbox[q]) :
        /\ IsEvent(q, inbox[q][i]) /\ (m.req = q => inbox[q][i].n # m.n)
        /\ item[q].n < inbox[q][i].n
        /\ \A j \in 1..Len(inbox[q]) : i < j => inbox[q][i].n < inbox[q][j].n
  BY <1>2, <1>7 DEF InFlight
<1>9. item[q] = Nothing \/ IsEvent(q, item[q])'
  <2>1. item[q] = Nothing \/ IsEvent(q, item[q])
    BY DEF InFlight
  <2> QED
    BY <1>1, <1>7, <1>12, <2>1 DEF IsEvent
\* k is not dropped now, so it was not.
<1>17. \A k : Dropped(q, k) => Dropped(q, k)'
  BY <1>12 DEF Dropped
<1>10. ASSUME m.req = q, NEW kind,
              inbox'[q] = Append(inbox[q], Becomes(m, kind)),
              \/ kind = m.kind /\ lost' = lost
              \/ kind = "empty" /\ <<q, m.n>> \in lost'
       PROVE  InFlight(q)' /\ NoneLost(q)'
  <2> DEFINE e == Becomes(m, kind)
  <2>0. PICK last \in Nat : last = Len(inbox[q]) + 1
    BY <1>2
  <2>1. e.n = m.n /\ e.kind = kind
    BY DEF Becomes
  <2>2. e.n \in 1..emitted'[q]
        /\ IF e.kind = "empty" THEN <<q, e.n>> \in lost'
           ELSE e.kind = Script[q][e.n] /\ <<q, e.n>> \notin lost'
    BY <1>1, <1>10, <1>13, <1>14, <2>1 DEF IsEvent
  <2> HIDE DEF e
  <2>3. /\ Len(inbox'[q]) = last /\ inbox'[q][last] = e
        /\ \A i \in 1..Len(inbox[q]) : inbox'[q][i] = inbox[q][i]
    BY <1>2, <1>10, <2>0 DEF e
  <2>4. /\ 1..last = 1..Len(inbox[q]) \cup {last}
        /\ \A i \in 1..Len(inbox[q]) : i < last /\ i # last
        /\ \A i \in 1..last : ~(last < i)
    BY <1>2, <2>0
  <2>5. \A i \in 1..last :
          /\ IsEvent(q, inbox[q][i])'
          /\ item[q].n < inbox'[q][i].n
          /\ \A j \in 1..last : i < j => inbox'[q][i].n < inbox'[q][j].n
    <3>1. ASSUME NEW i \in 1..Len(inbox[q])
          PROVE  /\ IsEvent(q, inbox[q][i])'
                 /\ item[q].n < inbox'[q][i].n
                 /\ inbox'[q][i].n < inbox'[q][last].n
                 /\ \A j \in 1..Len(inbox[q]) : i < j => inbox'[q][i].n < inbox'[q][j].n
      <4>1. inbox'[q][i] = inbox[q][i] /\ inbox[q][i].n < m.n /\ inbox'[q][last].n = m.n
        BY <1>7, <1>10, <2>1, <2>3
      <4>2. \A j \in 1..Len(inbox[q]) : i < j => inbox'[q][i].n < inbox'[q][j].n
        BY <1>8, <2>3
      <4>3. IsEvent(q, inbox[q][i])'
        BY <1>1, <1>8, <1>12, <4>1 DEF IsEvent
      <4> QED
        BY <1>8, <4>1, <4>2, <4>3
    <3>2. IsEvent(q, inbox[q][last])' /\ item[q].n < inbox'[q][last].n
      BY <1>7, <1>10, <2>1, <2>2, <2>3 DEF IsEvent
    <3> QED
      BY <2>4, <3>1, <3>2
  <2>6. \A i \in 1..(N - 1) : queue'[i].req = q =>
          \A j \in 1..last : inbox'[q][j].n < queue'[i].n
    BY <1>6, <1>10, <2>1, <2>3, <2>4
  <2>7. InFlight(q)'
    BY <1>1, <1>4, <1>6, <1>9, <1>16, <2>3, <2>5, <2>6 DEF InFlight
  <2>8. ASSUME NEW k, Waits(q, k)
        PROVE  Waits(q, k)'
    <3>1. ASSUME NEW i \in 1..N, queue[i].req = q, queue[i].n = k
          PROVE  Waits(q, k)'
      <4>1. CASE i = 1
        BY <1>3, <2>1, <2>3, <2>4, <3>1, <4>1 DEF Waits
      <4>2. CASE i # 1
        BY <1>4, <1>5, <3>1, <4>2 DEF Waits
      <4> QED
        BY <4>1, <4>2
    <3>2. ASSUME NEW i \in 1..Len(inbox[q]), inbox[q][i].n = k
          PROVE  Waits(q, k)'
      BY <2>3, <2>4, <3>2 DEF Waits
    <3> QED
      BY <2>8, <3>1, <3>2 DEF Waits, N
  <2>9. NoneLost(q)'
    BY <1>1, <1>17, <2>8 DEF NoneLost
  <2> QED
    BY <2>7, <2>9
<1>11. ASSUME inbox'[q] = inbox[q], \A k : m.req = q /\ k = m.n => Dropped(q, k)'
       PROVE  InFlight(q)' /\ NoneLost(q)'
  <2>1. \A i \in 1..Len(inbox[q]) : IsEvent(q, inbox[q][i])'
    BY <1>1, <1>8, <1>11, <1>12 DEF IsEvent
  <2>3. InFlight(q)'
    BY <1>1, <1>4, <1>6, <1>8, <1>9, <1>11, <1>16, <2>1 DEF InFlight
  <2>4. ASSUME NEW k, Waits(q, k), ~Dropped(q, k)'
        PROVE  Waits(q, k)'
    <3>1. ASSUME NEW i \in 1..N, queue[i].req = q, queue[i].n = k
          PROVE  Waits(q, k)'
      <4>1. i # 1
        BY <1>3, <1>11, <2>4, <3>1
      <4> QED
        BY <1>4, <1>5, <3>1, <4>1 DEF Waits
    <3>2. ASSUME NEW i \in 1..Len(inbox[q]), inbox[q][i].n = k
          PROVE  Waits(q, k)'
      BY <1>11, <3>2 DEF Waits
    <3> QED
      BY <2>4, <3>1, <3>2 DEF Waits, N
  <2>5. NoneLost(q)'
    BY <1>1, <1>17, <2>4 DEF NoneLost
  <2> QED
    BY <2>3, <2>5
\* Whoever emits is subscribed to what is not a chunk.
<1>18. m.req = q => q \in finalSubs
  <2>1. m.req = q => emitted[q] > 0
    BY <1>2, <1>7
  <2> QED
    BY <2>1 DEF Listened
<1>19. \A kind : Delivers(m, kind) => \/ inbox' = inbox /\ (kind = "chunk" \/ m.req # q)
                                      \/ /\ inbox'[q] = inbox[q] /\ m.req # q
                                      \/ /\ m.req = q
                                         /\ inbox'[q] = Append(inbox[q], Becomes(m, kind))
  BY <1>13, <1>18 DEF Delivers, TInv, TypeOK
<1>20. CASE m.req # q
  <2>1. inbox'[q] = inbox[q]
    BY <1>12, <1>19, <1>20
  <2> QED
    BY <1>11, <1>20, <2>1
<1>21. CASE m.req = q
  <2>1. CASE Delivers(m, m.kind) /\ lost' = lost
    <3>1. CASE inbox' = inbox /\ m.kind = "chunk"
      <4>1. \A k : k = m.n => Dropped(q, k)'
        BY <1>7, <1>21, <3>1 DEF Dropped
      <4> QED
        BY <1>11, <3>1, <4>1
    <3>2. CASE inbox'[q] = Append(inbox[q], Becomes(m, m.kind))
      BY <1>10, <1>21, <2>1, <3>2
    <3> QED
      BY <1>19, <1>21, <2>1, <3>1, <3>2
  <2>2. CASE lost' = lost \cup {<<m.req, m.n>>} /\ inbox' = inbox
    <3>1. \A k : k = m.n => Dropped(q, k)'
      BY <1>21, <2>2 DEF Dropped
    <3> QED
      BY <1>11, <2>2, <3>1
  <2>3. CASE lost' = lost \cup {<<m.req, m.n>>} /\ Delivers(m, "empty")
    <3>1. inbox'[q] = Append(inbox[q], Becomes(m, "empty")) \/ inbox' = inbox
      BY <1>19, <1>21, <2>3
    <3>2. <<q, m.n>> \in lost'
      BY <1>21, <2>3
    <3> QED
      BY <1>10, <1>21, <2>2, <2>3, <3>1, <3>2
  <2> QED
    BY <1>12, <2>1, <2>2, <2>3
<1> QED
  BY <1>20, <1>21

(* What a response takes next is the least of what is left: between it and  *)
(* the item before there is only what is dropped.                           *)
LEMMA TakeWay ==
  ASSUME TInv, NEW r \in Requests, InFlight(r), NoneLost(r), Take(r)
  PROVE  /\ InFlight(r)' /\ NoneLost(r)'
         /\ item'[r] \in Emitted /\ IsEvent(r, item'[r]) /\ item[r].n < item'[r].n
         /\ \A k \in 1..emitted[r] : item[r].n < k /\ k < item'[r].n => Dropped(r, k)
<1> DEFINE h == Head(inbox[r])
           N == Len(inbox[r])
<1>1. /\ inbox[r] # <<>> /\ inbox'[r] = Tail(inbox[r]) /\ item'[r] = h
      /\ UNCHANGED <<queue, emitted, lost>>
  BY DEF Take, TInv, TypeOK
<1>2. /\ emitted[r] \in Nat /\ N \in Nat /\ item[r].n \in Nat
      /\ inbox[r] \in Seq(Emitted) /\ Len(queue) \in Nat
      /\ \A i \in 1..Len(queue) : queue[i].n \in Nat
      /\ \A i \in 1..N : inbox[r][i] \in Emitted /\ inbox[r][i].n \in Nat
  BY WayTypes
<1>3. N >= 1 /\ h = inbox[r][1] /\ 1 \in 1..N
  BY <1>1, <1>2
<1>4. Len(inbox'[r]) = N - 1 /\ \A i \in 1..(N - 1) : inbox'[r][i] = inbox[r][i + 1] /\ i + 1 \in 1..N
  BY <1>1, <1>2
<1>5. \A i \in 1..N : i # 1 => i - 1 \in 1..(N - 1) /\ inbox'[r][i - 1] = inbox[r][i] /\ 1 < i
  <2>1. \A i \in 1..N : i # 1 => i - 1 \in 1..(N - 1) /\ 1 < i /\ (i - 1) + 1 = i
    BY <1>2
  <2> HIDE DEF N
  <2> QED
    BY <1>4, <2>1
<1> HIDE DEF h, N
<1>6. h \in Emitted /\ IsEvent(r, h) /\ item[r].n < h.n
  BY <1>2, <1>3 DEF InFlight, N
<1>7. \A i \in 1..(N - 1) :
        /\ IsEvent(r, inbox'[r][i]) /\ h.n < inbox'[r][i].n
        /\ \A j \in 1..(N - 1) : i < j => inbox'[r][i].n < inbox'[r][j].n
  <2>1. \A i \in 1..(N - 1) : 1 < i + 1 /\ \A j \in 1..(N - 1) : i < j => i + 1 < j + 1
    BY <1>2
  <2> QED
    BY <1>3, <1>4, <2>1 DEF InFlight, N
<1>8. \A i \in 1..Len(queue) : queue[i].req = r =>
        /\ h.n < queue[i].n
        /\ \A j \in 1..(N - 1) : inbox'[r][j].n < queue[i].n
  BY <1>3, <1>4 DEF InFlight, N
<1>9. InFlight(r)'
  <2>1. \A i \in 1..Len(queue) : queue[i].req = r =>
          /\ IsEvent(r, queue[i])
          /\ \A j \in 1..Len(queue) : i < j /\ queue[j].req = r => queue[i].n < queue[j].n
    BY DEF InFlight
  <2>2. \A k \in Nat : <<r, k>> \in lost => k <= emitted[r]
    BY DEF InFlight
  <2> QED
    BY <1>1, <1>4, <1>6, <1>7, <1>8, <2>1, <2>2 DEF InFlight, IsEvent
<1>10. ASSUME NEW k \in Nat, Waits(r, k), h.n < k
       PROVE  Waits(r, k)'
  <2>1. ASSUME NEW i \in 1..N, inbox[r][i].n = k
        PROVE  Waits(r, k)'
    <3>1. i # 1
      BY <1>2, <1>3, <1>10, <2>1
    <3> QED
      BY <1>4, <1>5, <2>1, <3>1 DEF Waits
  <2>2. ASSUME NEW i \in 1..Len(queue), queue[i].req = r, queue[i].n = k
        PROVE  Waits(r, k)'
    BY <1>1, <2>2 DEF Waits
  <2> QED
    BY <1>10, <2>1, <2>2 DEF Waits, N
<1>11. NoneLost(r)'
  <2>1. \A k \in 1..emitted[r] : h.n < k => item[r].n < k
    BY <1>2, <1>3, <1>6
  <2> QED
    BY <1>1, <1>2, <1>10, <2>1 DEF NoneLost, Dropped
<1>12. ASSUME NEW k \in 1..emitted[r], item[r].n < k, k < h.n
       PROVE  Dropped(r, k)
  <2>1. ~Waits(r, k)
    <3>1. h.n \in Nat
      BY <1>2, <1>3
    <3>2. \A i \in 1..N : h.n < inbox[r][i].n \/ i = 1
      BY <1>5, <1>7
    <3> QED
      BY <1>2, <1>3, <1>8, <1>12, <3>1, <3>2 DEF Waits, N
  <2> QED
    BY <1>12, <2>1 DEF NoneLost
<1> QED
  BY <1>1, <1>6, <1>9, <1>11, <1>12
LEMMA WayKept ==
  ASSUME TInv, Listened, NEW q \in Requests, InFlight(q), NoneLost(q), [Next]_vars
  PROVE  InFlight(q)' /\ NoneLost(q)'
<1> USE DEF service, emitter
<1>1. CASE Deliver
  BY <1>1, DeliverWay
<1>2. CASE UNCHANGED vars
  BY <1>2, WayAside DEF vars
<1>4. ASSUME NEW s \in Sessions, DeleteSession(s)
      PROVE  InFlight(q)' /\ NoneLost(q)'
  BY <1>4, WayAside DEF DeleteSession
<1>3. ASSUME NEW r \in Requests,
             Post(r) \/ DispatchStep(r) \/ RunStep(r) \/ StreamStep(r) \/ Disconnect(r)
      PROVE  InFlight(q)' /\ NoneLost(q)'
  <2>1. CASE Emit(r)
    BY <2>1, EmitWay
  <2>2. CASE Take(r)
    <3>1. CASE q = r
      BY <2>2, <3>1, TakeWay
    <3>2. CASE q # r
      BY <2>2, <3>2, WayAside DEF Take, TInv, TypeOK
    <3> QED
      BY <3>1, <3>2
  <2>3. CASE Post(r) \/ Dispatch(r) \/ Restart(r) \/ RestartGoesOn(r) \/ RunEnds(r)
    BY <2>3, WayAside DEF Post, Dispatch, Restart, RestartGoesOn, RunEnds
  <2>4. CASE StreamStarts(r) \/ StoreItem(r) \/ StoreItemFails(r) \/ Sent(r) \/ CancelRun(r)
               \/ CancelRunInterrupted(r) \/ Disconnect(r)
    BY <2>4, WayAside DEF StreamStarts, StoreItem, StoreItemFails, Sent, CancelRun, CancelRunInterrupted, Disconnect
  <2> QED
    BY <1>3, <2>1, <2>2, <2>3, <2>4 DEF DispatchStep, RunStep, StreamStep
<1> QED
  BY <1>1, <1>2, <1>3, <1>4 DEF Next, Environment, LoopStep

-----------------------------------------------------------------------------
(* A run begins only after its response has subscribed.                     *)
LEMMA ListenedKept ==
  ASSUME TInv, Listened, [Next]_vars
  PROVE  Listened'
<1> USE DEF service, emitter
<1>1. CASE Deliver
  BY <1>1 DEF Deliver, Listened
<1>2. CASE UNCHANGED vars
  BY <1>2 DEF vars, Listened
<1>4. ASSUME NEW s \in Sessions, DeleteSession(s)
      PROVE  Listened'
  BY <1>4 DEF DeleteSession, Listened
<1>3. ASSUME NEW r \in Requests,
             Post(r) \/ DispatchStep(r) \/ RunStep(r) \/ StreamStep(r) \/ Disconnect(r)
      PROVE  Listened'
  <2>0. SessionOf[r] \in Sessions
    BY Constants
  <2>1. CASE Post(r)
    BY <2>1 DEF Post, Listened, TInv, TypeOK
  <2>2. CASE Dispatch(r)
    BY <2>2 DEF Dispatch, Listened, TInv, TypeOK
  <2>3. CASE Restart(r)
    <3>1. /\ r \in finalSubs
          /\ \A q \in Requests : dispatcher'[q] \in {"restarting", "replacing", "done"} => q \in finalSubs
          /\ UNCHANGED <<ready, emitted, finalSubs>>
      BY <2>3 DEF Restart, Listened, TInv, TypeOK
    <3>2. slot' = slot \/ slot' = [slot EXCEPT ![SessionOf[r]] = r]
      BY <2>3 DEF Restart, Slots!Begin, Slots!Stop
    <3>3. \A s \in Sessions : slot'[s] # None => slot'[s] \in finalSubs
      BY <3>1, <3>2 DEF Listened, TInv, TypeOK
    <3> QED
      BY <3>1, <3>3 DEF Listened
  <2>4. CASE RestartGoesOn(r)
    <3>1. /\ r \in finalSubs
          /\ \A q \in Requests : dispatcher'[q] \in {"restarting", "replacing", "done"} => q \in finalSubs
          /\ UNCHANGED <<ready, emitted, finalSubs>>
      BY <2>4 DEF RestartGoesOn, Listened, TInv, TypeOK
    <3>2. slot' = [slot EXCEPT ![SessionOf[r]] = r]
      BY <2>4 DEF RestartGoesOn, Slots!Begin
    <3>3. \A s \in Sessions : slot'[s] # None => slot'[s] \in finalSubs
      BY <3>1, <3>2 DEF Listened, TInv, TypeOK
    <3> QED
      BY <3>1, <3>3 DEF Listened
  <2>5. CASE Emit(r)
    <3>1. r \in finalSubs
      BY <2>0, <2>5, NoneFresh DEF Emit, Running, Listened
    <3>2. \A q \in Requests : q # r => emitted'[q] = emitted[q]
      BY <2>5 DEF Emit, TInv
    <3> QED
      BY <2>5, <3>1, <3>2 DEF Emit, Listened
  <2>6. CASE RunEnds(r)
    <3>1. slot' = [slot EXCEPT ![SessionOf[r]] = None]
      BY <2>6 DEF RunEnds, Slots!End
    <3>2. \A s \in Sessions : slot'[s] # None => slot'[s] \in finalSubs
      BY <3>1 DEF Listened, TInv, TypeOK
    <3> QED
      BY <2>6, <3>2 DEF RunEnds, Listened
  <2>7. CASE StreamStarts(r)
    BY <2>7 DEF StreamStarts, Listened
  <2>8. CASE CancelRun(r)
    <3>1. slot' = slot
      BY <2>8 DEF CancelRun, Slots!Stop
    <3> QED
      BY <2>8, <3>1 DEF CancelRun, Listened
  <2>9. CASE Take(r) \/ StoreItem(r) \/ StoreItemFails(r) \/ Sent(r) \/ CancelRunInterrupted(r) \/ Disconnect(r)
    BY <2>9 DEF Take, StoreItem, StoreItemFails, Sent, CancelRunInterrupted, Disconnect, Listened
  <2> QED
    BY <1>3, <2>1, <2>2, <2>3, <2>4, <2>5, <2>6, <2>7, <2>8, <2>9 DEF DispatchStep, RunStep, StreamStep
<1> QED
  BY <1>1, <1>2, <1>3, <1>4 DEF Next, Environment, LoopStep

-----------------------------------------------------------------------------
(* The log.  A response that goes on or ends without taking or storing.     *)
LEMMA KeptWhenMoving ==
  ASSUME NEW r \in Requests, Kept(r), UNCHANGED store, item'[r] = item[r], lost' = lost,
         \/ /\ stream[r] \in {"pending", "listening", "sending"}
            /\ stream'[r] \in {"listening", "cancelling", "gone"}
         \/ stream[r] \in {"storing", "cancelling"} /\ stream'[r] \in {"cancelling", "gone"}
         \/ SessionOf[r] \in deleted /\ stream'[r] = "failed"
  PROVE  Kept(r)'
<1>1. Log(r)' = Log(r) /\ Places(r)' = Places(r) /\ deleted' = deleted
  BY DEF Log, Places, store
<1>2. Stored(r)' = Stored(r) /\ StoredInOrder(r)' = StoredInOrder(r)
  BY <1>1, SamePlaces
<1>3. (UpTo(r) => UpTo(r)') /\ (ButLast(r) => ButLast(r)')
  BY <1>2 DEF UpTo, ButLast, ToStore
<1>4. CASE SessionOf[r] \notin deleted
  <2>1. InStep(r) /\ (UpTo(r) \/ ButLast(r))
    BY <1>4 DEF Kept, InStep
  <2>2. InStep(r)'
    BY <1>2, <1>3, <1>4, <2>1 DEF InStep
  <2> QED
    BY <1>1, <1>4, <2>2 DEF Kept
<1> QED
  BY <1>1, <1>4 DEF Kept

LEMMA PostKept ==
  ASSUME TInv, NEW r \in Requests, Kept(r), Post(r)
  PROVE  Kept(r)'
<1>1. /\ Record(r, 0, "user") /\ stream[r] = "none" /\ stream'[r] = "pending" /\ item' = item
      /\ SessionOf[r] \notin deleted /\ deleted' = deleted
  BY DEF Post, Record, TInv, TypeOK
<1>2. StoredInOrder(r) /\ Stored(r) = {} /\ item[r].n = 0
  BY <1>1 DEF Kept, InStep, Stored, Nothing
<1>3. StoredInOrder(r)' /\ Stored(r)' = {0}
  BY <1>1, <1>2, RecordInOrder
<1>5. UpTo(r)'
  BY <1>1, <1>2, <1>3 DEF UpTo, ToStore
<1> QED
  BY <1>1, <1>3, <1>5 DEF Kept, InStep

LEMMA TakeKept ==
  ASSUME TInv, NEW r \in Requests, InFlight(r), NoneLost(r), Kept(r), Take(r)
  PROVE  Kept(r)'
<1>1. /\ stream[r] = "listening" /\ UNCHANGED <<log, deleted, lost>>
      /\ stream'[r] = IF item'[r].kind = "completed" THEN "completed" ELSE Doing(item'[r].kind)
  BY DEF Take, EndStream, TInv, TypeOK, store
<1>2. PICK h \in Emitted :
        /\ item'[r] = h /\ IsEvent(r, h) /\ item[r].n < h.n
        /\ \A k \in 1..emitted[r] : item[r].n < k /\ k < h.n => Dropped(r, k)
  BY TakeWay
<1>3. /\ emitted[r] \in Nat /\ item[r].n \in Nat /\ h.n \in Nat \ {0} /\ h.kind \in Kinds \cup {"empty"}
      /\ h.n <= emitted[r]
      /\ IF h.kind = "empty" THEN <<r, h.n>> \in lost
         ELSE h.kind = Script[r][h.n] /\ <<r, h.n>> \notin lost
  BY <1>2, WayTypes DEF Emitted, IsEvent
<1>4. Log(r)' = Log(r) /\ Places(r)' = Places(r)
  BY <1>1 DEF Log, Places
<1>11. CASE SessionOf[r] \in deleted
  <2>1. stream'[r] # "none"
    BY <1>1, <1>2, <1>3 DEF Doing
  <2> QED
    BY <1>1, <1>4, <1>11, <2>1 DEF Kept
<1>12. CASE SessionOf[r] \notin deleted
  <2>1. StoredInOrder(r)' /\ Stored(r)' = ToStore(r, item[r].n)
    BY <1>1, <1>4, <1>12, SamePlaces DEF Kept, InStep, UpTo
  <2>2. ToStore(r, h.n - 1) = ToStore(r, item[r].n)
    <3>1. \A k \in 1..(h.n - 1) : k \in 1..item[r].n \/ (k \in 1..emitted[r] /\ item[r].n < k /\ k < h.n)
      BY <1>3
    <3>2. \A k \in 1..item[r].n : k \in 1..(h.n - 1)
      BY <1>2, <1>3
    <3> QED
      BY <1>2, <3>1, <3>2 DEF ToStore, Dropped
  <2>3. h.kind \in {"chunk", "empty", "completed"} => ToStore(r, h.n) = ToStore(r, h.n - 1)
    <3>1. 1..h.n = 1..(h.n - 1) \cup {h.n}
      BY <1>3
    <3> QED
      BY <1>3, <3>1 DEF ToStore
  <2>4. h # Nothing
    BY <1>3 DEF Nothing
  <2>5. CASE h.kind \in {"chunk", "empty", "completed"}
    <3>1. UpTo(r)'
      BY <1>1, <1>2, <2>1, <2>2, <2>3, <2>5 DEF UpTo, ToStore
    <3>2. stream'[r] \in {"sending", "listening"} \/ (stream'[r] = "completed" /\ item'[r].kind = "completed")
      BY <1>1, <1>2, <2>5 DEF Doing
    <3> QED
      BY <1>1, <1>12, <2>1, <3>1, <3>2 DEF Kept, InStep
  <2>6. CASE h.kind \in {"status", "message"}
    <3>1. ButLast(r)'
      BY <1>1, <1>2, <2>1, <2>2, <2>4 DEF ButLast, ToStore
    <3>2. stream'[r] = "storing" /\ item'[r].kind \in {"status", "message"}
      BY <1>1, <1>2, <2>6 DEF Doing
    <3> QED
      BY <1>1, <1>12, <2>1, <3>1, <3>2 DEF Kept, InStep
  <2> QED
    BY <1>3, <2>5, <2>6 DEF Kinds
<1> QED
  BY <1>11, <1>12

LEMMA StoreItemKept ==
  ASSUME TInv, NEW r \in Requests, InFlight(r), Kept(r), StoreItem(r)
  PROVE  Kept(r)'
<1>1. /\ stream[r] = "storing" /\ stream'[r] \in {"sending", "listening"} /\ item' = item
      /\ SessionOf[r] \notin deleted /\ deleted' = deleted /\ lost' = lost
  BY DEF StoreItem, Record, TInv, TypeOK, emitter
<1>2. StoredInOrder(r) /\ ButLast(r) /\ item[r].kind \in {"status", "message"}
  BY <1>1 DEF Kept, InStep
<1>3. PICK n \in Nat \ {0}, k \in Kinds : n = item[r].n /\ k = item[r].kind
  <2>1. item[r] \in Emitted
    BY <1>2 DEF ButLast, TInv, TypeOK
  <2> QED
    BY <1>2, <2>1 DEF Emitted, Kinds
<1>4. k = Script[r][n] /\ <<r, n>> \notin lost
  BY <1>2, <1>3 DEF InFlight, IsEvent, ButLast
<1>5. Stored(r) = ToStore(r, n - 1)
  BY <1>2, <1>3 DEF ButLast
<1>6. \A x \in Stored(r) : x < n
  BY <1>5 DEF ToStore
<1>7. Record(r, n, k)
  BY <1>3 DEF StoreItem
<1>8. StoredInOrder(r)' /\ Stored(r)' = Stored(r) \cup {n}
  BY <1>2, <1>4, <1>6, <1>7, RecordInOrder
<1>9. ToStore(r, n) = ToStore(r, n - 1) \cup {n}
  <2>1. 1..n = 1..(n - 1) \cup {n}
    OBVIOUS
  <2> QED
    BY <1>2, <1>3, <1>4, <2>1 DEF ToStore
<1>10. UpTo(r)'
  BY <1>1, <1>3, <1>5, <1>8, <1>9 DEF UpTo, ToStore
<1> QED
  BY <1>1, <1>8, <1>10 DEF Kept, InStep

(* What another request records.                                            *)
LEMMA RecordElsewhere ==
  ASSUME TInv, NEW r \in Requests, NEW n \in Nat, NEW k \in Kinds \cup {"user"}, Record(r, n, k),
         NEW q \in Requests \ {r}
  PROVE  /\ Places(q)' = Places(q) /\ deleted' = deleted
         /\ \A i \in Places(q) : Log(q)'[i] = Log(q)[i]
         /\ SessionOf[q] \in deleted => Log(q)' = Log(q)
<1>1. SessionOf[q] \in deleted => SessionOf[q] # SessionOf[r]
  BY DEF Record
<1>2. SessionOf[q] # SessionOf[r] => Log(q)' = Log(q)
  BY Constants DEF Record, Log, TInv, TypeOK
<1> QED
  BY <1>1, <1>2, RecordAdds DEF Record

LEMMA KeptKept ==
  ASSUME TInv, NEW q \in Requests, InFlight(q), NoneLost(q), Kept(q), [Next]_vars
  PROVE  Kept(q)'
<1> USE DEF service, emitter
<1>0. lost' = lost => LostAhead(q)
  BY DEF LostAhead
<1>1. CASE Deliver
  <2> DEFINE m == Head(queue)
  <2>1. /\ lost' = lost \/ lost' = lost \cup {<<m.req, m.n>>}
        /\ UNCHANGED <<store, item, stream>> /\ m \in Message
    BY <1>1, DeliverIs
  <2>2. m.req = q => item[q].n < m.n
    <3>1. m = queue[1] /\ 1 \in 1..Len(queue)
      BY <1>1, WayTypes DEF Deliver
    <3> QED
      BY <3>1 DEF InFlight
  <2>3. item[q].n \in Nat /\ m.n \in Nat
    BY <2>1, WayTypes DEF Message
  <2> HIDE DEF m
  <2>4. LostAhead(q)
    BY <2>1, <2>2, <2>3 DEF LostAhead
  <2> QED
    BY <2>1, <2>4, KeptWhenLogIs
<1>2. CASE UNCHANGED vars
  BY <1>0, <1>2, KeptWhenLogIs DEF vars, store
<1>4. ASSUME NEW s \in Sessions, DeleteSession(s)
      PROVE  Kept(q)'
  BY <1>4, DeleteKept
<1>3. ASSUME NEW r \in Requests,
             Post(r) \/ DispatchStep(r) \/ RunStep(r) \/ StreamStep(r) \/ Disconnect(r)
      PROVE  Kept(q)'
  <2>1. CASE Post(r)
    <3>1. CASE q = r
      BY <2>1, <3>1, PostKept
    <3>2. CASE q # r
      <4>1. Record(r, 0, "user") /\ stream'[q] = stream[q] /\ item' = item
        BY <2>1, <3>2 DEF Post, TInv, TypeOK
      <4>2. lost' = lost
        BY <2>1 DEF Post
      <4> QED
        BY <1>0, <3>2, <4>1, <4>2, RecordElsewhere, KeptAside
    <3> QED
      BY <3>1, <3>2
  <2>2. CASE StoreItem(r)
    <3>1. CASE q = r
      BY <2>2, <3>1, StoreItemKept
    <3>2. CASE q # r
      <4>1. stream'[q] = stream[q] /\ item' = item /\ lost' = lost
        BY <2>2, <3>2 DEF StoreItem, TInv, TypeOK
      <4>2. PICK n \in Nat, k \in Kinds \cup {"user"} : Record(r, n, k)
        <5>1. item[r] \in Emitted \cup {Nothing} /\ item[r].kind \in Kinds
          BY <2>2 DEF StoreItem, TInv, TypeOK, Kinds
        <5> QED
          BY <2>2, <5>1 DEF StoreItem, Emitted, Nothing
      <4> QED
        BY <1>0, <3>2, <4>1, <4>2, RecordElsewhere, KeptAside
    <3> QED
      BY <3>1, <3>2
  <2>3. CASE Take(r)
    <3>1. CASE q = r
      BY <2>3, <3>1, TakeKept
    <3>2. CASE q # r
      BY <1>0, <2>3, <3>2, KeptWhenLogIs DEF Take, EndStream, TInv, TypeOK
    <3> QED
      BY <3>1, <3>2
  <2>4. CASE Dispatch(r) \/ Restart(r) \/ RestartGoesOn(r) \/ Emit(r) \/ RunEnds(r)
    BY <1>0, <2>4, KeptWhenLogIs DEF Dispatch, Restart, RestartGoesOn, Emit, RunEnds
  <2>5. CASE StreamStarts(r) \/ StoreItemFails(r) \/ Sent(r) \/ CancelRun(r) \/ CancelRunInterrupted(r) \/ Disconnect(r)
    <3>1. UNCHANGED store /\ item' = item /\ lost' = lost
      BY <2>5 DEF StreamStarts, StoreItemFails, Sent, CancelRun, CancelRunInterrupted, Disconnect
    <3>2. CASE q = r
      <4>1. \/ /\ stream[r] \in {"pending", "listening", "sending"}
               /\ stream'[r] \in {"listening", "cancelling", "gone"}
            \/ stream[r] \in {"storing", "cancelling"} /\ stream'[r] \in {"cancelling", "gone"}
            \/ SessionOf[r] \in deleted /\ stream'[r] = "failed"
        BY <2>5 DEF StreamStarts, StoreItemFails, Sent, CancelRun, CancelRunInterrupted, Disconnect, EndStream,
                    TInv, TypeOK
      <4> QED
        BY <3>1, <3>2, <4>1, KeptWhenMoving
    <3>3. CASE q # r
      <4>1. stream'[q] = stream[q]
        BY <2>5, <3>3 DEF StreamStarts, StoreItemFails, Sent, CancelRun, CancelRunInterrupted, Disconnect, EndStream,
                          TInv, TypeOK
      <4> QED
        BY <1>0, <3>1, <4>1, KeptWhenLogIs
    <3> QED
      BY <3>2, <3>3
  <2> QED
    BY <1>3, <2>1, <2>2, <2>3, <2>4, <2>5 DEF DispatchStep, RunStep, StreamStep
<1> QED
  BY <1>1, <1>2, <1>3, <1>4 DEF Next, Environment, LoopStep

-----------------------------------------------------------------------------
LEMMA PInvInitially ==
  ASSUME Init
  PROVE  PInv
<1>1. TInv
  BY TypesInitially
<1>2. Listened
  BY DEF Init, Slots!Init, Listened
<1>3. ASSUME NEW r \in Requests
      PROVE  InFlight(r) /\ NoneLost(r) /\ Kept(r)
  <2>1. /\ queue = <<>> /\ inbox[r] = <<>> /\ item[r] = Nothing /\ emitted[r] = 0
        /\ stream[r] = "none" /\ Log(r) = <<>>
    BY Constants DEF Init, Log
  <2>2. Len(<<>>) = 0 /\ DOMAIN <<>> = {} /\ 1..0 = {}
    OBVIOUS
  <2>3. Places(r) = {}
    BY <2>1, <2>2 DEF Places
  <2> QED
    BY <2>1, <2>2, <2>3 DEF Init, InFlight, NoneLost, Kept, InStep, StoredInOrder
<1> QED
  BY <1>1, <1>2, <1>3 DEF PInv

LEMMA PInvPreserved ==
  ASSUME PInv, [Next]_vars
  PROVE  PInv'
<1>1. TInv'
  <2>1. ASSUME UNCHANGED vars
        PROVE  TInv'
    BY <2>1 DEF vars, PInv, TInv, TypeOK
  <2> QED
    BY <2>1, RequestTypes, RunTypes, DeliverTypes, DeleteTypes, StreamTypes
        DEF Next, Environment, LoopStep, PInv
<1>2. Listened'
  BY ListenedKept DEF PInv
<1>3. ASSUME NEW r \in Requests
      PROVE  InFlight(r)' /\ NoneLost(r)' /\ Kept(r)'
  BY WayKept, KeptKept DEF PInv
<1> QED
  BY <1>1, <1>2, <1>3 DEF PInv

(* What is stored is all there was to store up to some event of the run.    *)
LEMMA KeptIsPrefix ==
  ASSUME PInv, NEW r \in Requests, stream[r] # "none"
  PROVE  IF SessionOf[r] \in deleted THEN Places(r) = {}
         ELSE StoredInOrder(r) /\ \E m \in 0..emitted[r] : Stored(r) = ToStore(r, m)
<1>1. InFlight(r) /\ Kept(r) /\ emitted[r] \in Nat /\ item[r].n \in Nat
  BY WayTypes DEF PInv
<1>2. CASE SessionOf[r] \in deleted
  <2>1. DOMAIN <<>> = {}
    OBVIOUS
  <2> QED
    BY <1>1, <1>2, <2>1 DEF Kept, Places
<1>3. CASE SessionOf[r] \notin deleted
  <2>1. UpTo(r) \/ ButLast(r)
    BY <1>1, <1>3 DEF Kept, InStep, PInv, TInv, TypeOK, Phases
  <2>2. item[r].n \in 0..emitted[r]
    BY <1>1 DEF InFlight, IsEvent, Nothing
  <2>3. ButLast(r) => item[r].n - 1 \in 0..emitted[r]
    BY <1>1, <2>2 DEF ButLast, InFlight, IsEvent
  <2> QED
    BY <1>1, <1>3, <2>1, <2>2, <2>3 DEF Kept, InStep, UpTo, ButLast
<1> QED
  BY <1>2, <1>3

(* However a request ends, replaced, failed, left by its client or          *)
(* completed, its session has the user's message and then what the run      *)
(* emitted, but for the chunks and for messages that could not be finalized *)
(* or have no parts, in order, once and without a gap: event after event is *)
(* taken, stored and sent (api/sessions.py, event_stream), and nothing is   *)
(* emitted before the response has subscribed.  Of a deleted session        *)
(* nothing is left, whatever responses to it go on.                         *)
THEOREM StoredPrefix == Spec => []StoredIsPrefix
<1>1. Init => PInv
  BY PInvInitially
<1>2. PInv /\ [Next]_vars => PInv'
  BY PInvPreserved
<1>3. PInv => StoredIsPrefix
  BY KeptIsPrefix DEF StoredIsPrefix
<1> QED
  BY <1>1, <1>2, <1>3, PTL DEF Spec

(* A response that has ended by itself has stored everything that was to be *)
(* stored before the "completed" that ended it: each status, and each       *)
(* message that was finalized and has parts.                                *)
THEOREM CompletedStored == Spec => []CompletedIsStored
<1>1. Init => PInv
  BY PInvInitially
<1>2. PInv /\ [Next]_vars => PInv'
  BY PInvPreserved
<1>3. PInv => CompletedIsStored
  <2>1. ASSUME PInv, NEW r \in Requests, stream[r] = "completed", SessionOf[r] \notin deleted
        PROVE  \E m \in 1..emitted[r] : Script[r][m] = "completed" /\ Stored(r) = ToStore(r, m)
    <3>1. InFlight(r) /\ UpTo(r) /\ item[r].kind = "completed"
      BY <2>1 DEF PInv, Kept, InStep
    <3>2. IsEvent(r, item[r])
      BY <3>1 DEF InFlight, Nothing
    <3> QED
      BY <3>1, <3>2 DEF IsEvent, UpTo
  <2> QED
    BY <2>1 DEF CompletedIsStored
<1> QED
  BY <1>1, <1>2, <1>3, PTL DEF Spec
=============================================================================
