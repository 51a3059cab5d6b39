------------------------- MODULE SessionStore_proof -------------------------
(***************************************************************************)
(* Proofs about SessionStore.  The invariant adds to the properties that   *)
(* no event is stamped in the future, that the session of an event about   *)
(* to be inserted is there, and that a deletion still has to delete        *)
(* exactly the events that are left.                                       *)
(***************************************************************************)
EXTENDS SessionStore, FiniteSetTheorems, TLAPS

Stamped == IsFiniteSet(events) /\ \A e \in events : e.at <= inserts
Checked == \A p \in Procs : pc[p] = "counting" => SessionsOf(call[p].session) # {}
Listed == \A p \in Procs : pc[p] = "deleting" => doomed[p] = EventsOf(call[p].session)

IInv == TypeOK /\ LockIsHeld /\ Stamped /\ Checked /\ Listed /\ NoOrphans /\ OffsetsArePositions

-----------------------------------------------------------------------------
(* Whoever may write is the writer, and nobody else counts or deletes.      *)
LEMMA WriterAlone ==
  ASSUME TypeOK, LockIsHeld, NEW p \in Procs,
         \/ pc[p] \in {"counting", "deleting"}
         \/ \E op \in Writes : In(p, op)
  PROVE  /\ writer = p /\ readers = {}
         /\ \A q \in Procs : pc[q] \in {"locked", "counting", "deleting"} => q = p
<1>1. p = writer
  BY DEF LockIsHeld, In, Writes, Reads
<1>2. p # Nobody
  BY NobodyFresh
<1> QED
  BY <1>1, <1>2 DEF LockIsHeld

(* The process that leaves its operation gives up what it held.             *)
LEMMA ReturnLock ==
  ASSUME TypeOK, LockIsHeld, NEW p \in Procs, Return(p)
  PROVE  LockIsHeld'
BY NobodyFresh DEF TypeOK, LockIsHeld, Return, Goto

(* and the variables of the operation keep their types.                     *)
LEMMA ReturnTypes ==
  ASSUME TypeOK, NEW p \in Procs, Return(p), \A q \in Procs \ {p} : doomed[q] \subseteq events'
  PROVE  /\ call' \in [Procs -> Calls \cup {NoCall}]
         /\ pc' \in [Procs -> {"idle", "waiting", "locked", "counting", "deleting"}]
         /\ writer' \in Procs \cup {Nobody} /\ readers' \subseteq Procs
         /\ doomed' \in [Procs -> SUBSET events']
         /\ \A q \in Procs : /\ pc'[q] = "idle" <=> call'[q] = NoCall
                             /\ pc'[q] # "deleting" => doomed'[q] = {}
BY DEF TypeOK, Return, Goto

-----------------------------------------------------------------------------
(* Every step keeps the types.                                              *)
LEMMA TypeStep ==
  ASSUME IInv, Next
  PROVE  TypeOK'
<1> USE MaxInsertsNat DEF IInv
<1> SUFFICES ASSUME NEW p \in Procs,
               \/ \E op \in Writes \cup Reads, s \in SessionIds : Call(p, op, s)
               \/ Acquire(p) \/ Read(p) \/ CreateSession(p) \/ CheckSession(p)
               \/ InsertEvent(p) \/ DeleteEvent(p) \/ ListDoomed(p)
               \/ DeleteDoomed(p) \/ DropSession(p) \/ Interrupt(p)
             PROVE  TypeOK'
  BY DEF Next
<1>1. ASSUME NEW op \in Writes \cup Reads, NEW s \in SessionIds, Call(p, op, s) PROVE TypeOK'
  <2>1. [op |-> op, session |-> s] \in Calls
    BY DEF Calls
  <2> QED
    BY <1>1, <2>1, NoCallFresh DEF TypeOK, Call, Goto, docs, lock
<1>2. CASE Acquire(p)
  BY <1>2 DEF TypeOK, Acquire, Goto, docs
<1>3. CASE Read(p)
  <2>1. UNCHANGED docs /\ Return(p)
    BY <1>3 DEF Read
  <2> QED
    BY <2>1, ReturnTypes DEF TypeOK, docs
<1>4. CASE CreateSession(p)
  <2>1. Return(p) /\ events' = events
    BY <1>4 DEF CreateSession
  <2>2. call[p].session \in SessionIds
    BY <1>4 DEF TypeOK, CreateSession, In, Calls
  <2>3. /\ sessions' \subseteq Session /\ events' \subseteq Event
        /\ inserts' \in 0..MaxInserts /\ dropped' \subseteq SessionIds
    BY <1>4, <2>2 DEF TypeOK, CreateSession, Session
  <2> QED
    BY <2>1, <2>3, ReturnTypes DEF TypeOK
<1>5. CASE CheckSession(p)
  <2>1. CASE Return(p)
    BY <1>5, <2>1, ReturnTypes DEF TypeOK, CheckSession, docs
  <2>2. CASE ~Return(p)
    BY <1>5, <2>2 DEF TypeOK, CheckSession, In, Goto, docs, lock
  <2> QED
    BY <2>1, <2>2
<1>6. CASE InsertEvent(p)
  <2>1. call[p].session \in SessionIds
    BY <1>6 DEF TypeOK, InsertEvent, Calls
  <2>2. Cardinality(EventsOf(call[p].session)) \in Nat
    BY FS_Subset, FS_CardinalityType DEF Stamped, EventsOf
  <2>3. /\ sessions' \subseteq Session /\ events' \subseteq Event /\ events \subseteq events'
        /\ inserts' \in 0..MaxInserts /\ dropped' \subseteq SessionIds
    BY <1>6, <2>1, <2>2 DEF TypeOK, InsertEvent, Insert, Event
  <2>4. Return(p)
    BY <1>6 DEF InsertEvent
  <2>5. \A q \in Procs \ {p} : doomed[q] \subseteq events'
    BY <2>3 DEF TypeOK
  <2> QED
    BY <2>3, <2>4, <2>5, ReturnTypes DEF TypeOK
<1>7. CASE DeleteEvent(p)
  <2>1. Return(p)
    BY <1>7 DEF DeleteEvent
  <2>2. \A q \in Procs \ {p} : doomed[q] \subseteq events'
    BY <1>7, WriterAlone DEF DeleteEvent, Writes, TypeOK
  <2>3. /\ sessions' \subseteq Session /\ events' \subseteq Event
        /\ inserts' \in 0..MaxInserts /\ dropped' \subseteq SessionIds
    BY <1>7 DEF TypeOK, DeleteEvent, EventsOf, Remove, Event, docs
  <2> QED
    BY <2>1, <2>2, <2>3, ReturnTypes DEF TypeOK
<1>8. CASE ListDoomed(p)
  BY <1>8 DEF TypeOK, ListDoomed, In, Goto, EventsOf, docs, lock
<1>9. CASE DeleteDoomed(p)
  <2>1. PICK e \in doomed[p] : Remove(e) /\ doomed' = [doomed EXCEPT ![p] = @ \ {e}]
    BY <1>9 DEF DeleteDoomed, Oldest
  <2>2. e \in events
    BY <2>1 DEF TypeOK
  <2>3. \A q \in Procs : doomed'[q] \subseteq events'
    BY <1>9, <2>1, WriterAlone DEF DeleteDoomed, Remove, TypeOK
  <2>4. sessions' \subseteq Session /\ events' \subseteq Event
        /\ inserts' \in 0..MaxInserts /\ dropped' \subseteq SessionIds
    BY <2>1, <2>2 DEF TypeOK, Remove, Event
  <2>5. UNCHANGED <<lock, call, pc>>
    BY <1>9 DEF DeleteDoomed
  <2> QED
    BY <1>9, <2>1, <2>3, <2>4, <2>5 DEF TypeOK, lock
<1>10. CASE DropSession(p)
  <2>1. Return(p) /\ events' = events
    BY <1>10 DEF DropSession
  <2>2. /\ sessions' \subseteq Session /\ events' \subseteq Event
        /\ inserts' \in 0..MaxInserts /\ dropped' \subseteq SessionIds
    BY <1>10 DEF TypeOK, DropSession
  <2> QED
    BY <2>1, <2>2, ReturnTypes DEF TypeOK
<1>11. CASE Interrupt(p)
  <2>1. UNCHANGED docs /\ Return(p)
    BY <1>11 DEF Interrupt
  <2> QED
    BY <2>1, ReturnTypes DEF TypeOK, docs
<1> QED
  BY <1>1, <1>2, <1>3, <1>4, <1>5, <1>6, <1>7, <1>8, <1>9, <1>10, <1>11

(* Every step keeps the lock with those inside their operations.            *)
LEMMA LockStep ==
  ASSUME IInv, Next
  PROVE  LockIsHeld'
<1> USE DEF IInv
<1> SUFFICES ASSUME NEW p \in Procs,
               \/ \E op \in Writes \cup Reads, s \in SessionIds : Call(p, op, s)
               \/ Acquire(p) \/ Read(p) \/ CreateSession(p) \/ CheckSession(p)
               \/ InsertEvent(p) \/ DeleteEvent(p) \/ ListDoomed(p)
               \/ DeleteDoomed(p) \/ DropSession(p) \/ Interrupt(p)
             PROVE  LockIsHeld'
  BY DEF Next
<1>1. CASE Return(p)
  BY <1>1, ReturnLock
<1>2. ASSUME NEW op \in Writes \cup Reads, NEW s \in SessionIds, Call(p, op, s)
      PROVE  LockIsHeld'
  BY <1>2, NobodyFresh DEF TypeOK, LockIsHeld, Call, Goto, docs, lock
<1>3. CASE Acquire(p)
  <2>1. call[p] \in Calls
    BY <1>3 DEF TypeOK, Acquire
  <2>2. call[p].op \in Writes \cup Reads
    BY <2>1 DEF Calls
  <2> QED
    BY <1>3, <2>2, NobodyFresh DEF TypeOK, LockIsHeld, Acquire, Goto, docs
<1>4. CASE CheckSession(p) /\ ~Return(p)
  <2>1. p = writer
    BY <1>4, WriterAlone DEF CheckSession, Writes
  <2> QED
    BY <1>4, <2>1, NobodyFresh DEF TypeOK, LockIsHeld, CheckSession, Goto, docs, lock
<1>5. CASE ListDoomed(p)
  <2>1. p = writer
    BY <1>5, WriterAlone DEF ListDoomed, Writes
  <2> QED
    BY <1>5, <2>1, NobodyFresh DEF TypeOK, LockIsHeld, ListDoomed, Goto, docs, lock
<1>6. CASE DeleteDoomed(p)
  BY <1>6 DEF LockIsHeld, DeleteDoomed, lock
<1> QED
  BY <1>1, <1>2, <1>3, <1>4, <1>5, <1>6
     DEF Read, CreateSession, CheckSession, InsertEvent, DeleteEvent, DropSession, Interrupt

-----------------------------------------------------------------------------
(* A step writes documents in one of four ways, or not at all.              *)
LEMMA Effect ==
  ASSUME IInv, Next
  PROVE  \/ UNCHANGED docs
         \/ \E p \in Procs : CreateSession(p)
         \/ \E p \in Procs : InsertEvent(p)
         \/ \E p \in Procs : \E e \in events :
              Remove(e) /\ (DeleteEvent(p) \/ (DeleteDoomed(p) /\ e \in doomed[p]
                              /\ doomed' = [doomed EXCEPT ![p] = @ \ {e}]))
         \/ \E p \in Procs : DropSession(p)
<1>1. \A p \in Procs : DeleteEvent(p) => \/ UNCHANGED docs
                                         \/ \E e \in events : Remove(e)
  BY DEF DeleteEvent, EventsOf
<1>2. \A p \in Procs : DeleteDoomed(p) =>
        \E e \in events : Remove(e) /\ e \in doomed[p] /\ doomed' = [doomed EXCEPT ![p] = @ \ {e}]
  BY DEF DeleteDoomed, Oldest, IInv, TypeOK
<1>3. \A p \in Procs : Acquire(p) \/ Read(p) \/ CheckSession(p) \/ ListDoomed(p) \/ Interrupt(p)
                       => UNCHANGED docs
  BY DEF Acquire, Read, CheckSession, ListDoomed, Interrupt
<1>4. \A p \in Procs, op \in Writes \cup Reads, s \in SessionIds : Call(p, op, s) => UNCHANGED docs
  BY DEF Call
<1> QED
  BY <1>1, <1>2, <1>3, <1>4 DEF Next

(* No event gets a stamp that has not been given out.                       *)
LEMMA StampedStep ==
  ASSUME IInv, Next
  PROVE  Stamped'
<1> USE MaxInsertsNat DEF IInv
<1>1. inserts \in Nat /\ \A e \in events : e.at \in Nat
  BY DEF TypeOK, Event
<1>2. CASE UNCHANGED docs
  BY <1>2 DEF Stamped, docs
<1>3. CASE \E p \in Procs : CreateSession(p)
  BY <1>1, <1>3 DEF Stamped, CreateSession
<1>4. CASE \E p \in Procs : InsertEvent(p)
  <2>1. PICK e : e.at = inserts' /\ events' = events \cup {e} /\ inserts' = inserts + 1
    BY <1>4 DEF InsertEvent, Insert
  <2>2. IsFiniteSet(events')
    BY <2>1, FS_AddElement DEF Stamped
  <2> QED
    BY <1>1, <2>1, <2>2 DEF Stamped
<1>5. CASE \E e \in events : Remove(e)
  BY <1>5, FS_Subset DEF Stamped, Remove
<1>6. CASE \E p \in Procs : DropSession(p)
  BY <1>6 DEF Stamped, DropSession
<1> QED
  BY <1>2, <1>3, <1>4, <1>5, <1>6, Effect

(* An event about to be inserted has its session: whoever could drop it     *)
(* would have to be the writer too.                                         *)
LEMMA CheckedStep ==
  ASSUME IInv, Next
  PROVE  Checked'
<1> USE DEF IInv
<1> SUFFICES ASSUME NEW q \in Procs, pc'[q] = "counting"
             PROVE  SessionsOf(call[q].session)' # {}
  BY DEF Checked
<1>1. /\ call'[q] = call[q]
      /\ SessionsOf(call[q].session) # {}
      /\ \A p \in Procs : ~DropSession(p)
  <2> SUFFICES ASSUME NEW p \in Procs,
                 \/ \E op \in Writes \cup Reads, s \in SessionIds : Call(p, op, s)
                 \/ Acquire(p) \/ Read(p) \/ CreateSession(p) \/ CheckSession(p)
                 \/ InsertEvent(p) \/ DeleteEvent(p) \/ ListDoomed(p)
                 \/ DeleteDoomed(p) \/ DropSession(p) \/ Interrupt(p)
               PROVE  /\ call'[q] = call[q]
                      /\ SessionsOf(call[q].session) # {}
                      /\ \A r \in Procs : ~DropSession(r)
    BY DEF Next
  <2>1. CASE pc[q] = "counting"
    <3>1. SessionsOf(call[q].session) # {} /\ \A r \in Procs : ~DropSession(r)
      BY <2>1, WriterAlone DEF Checked, DropSession
    <3>2. call'[q] = call[q]
      BY <2>1, WriterAlone DEF Return, Goto, TypeOK, Call, Acquire, Read, CreateSession,
         CheckSession, InsertEvent, DeleteEvent, ListDoomed, DeleteDoomed, DropSession, Interrupt, In
    <3> QED
      BY <3>1, <3>2
  <2>2. CASE pc[q] # "counting"
    <3>1. q = p /\ CheckSession(p)
      BY <2>2 DEF Return, Goto, TypeOK, Call, Acquire, Read, CreateSession,
         CheckSession, InsertEvent, DeleteEvent, ListDoomed, DeleteDoomed, DropSession, Interrupt, In
    <3>2. SessionsOf(call[q].session) # {} /\ call' = call
      BY <3>1 DEF CheckSession, Return, Goto, In, TypeOK
    <3>3. \A r \in Procs : ~DropSession(r)
      BY <3>1 DEF CheckSession, DropSession, Return, Goto, In, TypeOK
    <3> QED
      BY <3>2, <3>3
  <2> QED
    BY <2>1, <2>2
<1>2. sessions \subseteq sessions'
  BY <1>1, Effect DEF docs, CreateSession, InsertEvent, Insert, Remove
<1> QED
  BY <1>1, <1>2 DEF SessionsOf

(* What is left to a deletion is what is left of the events.                *)
LEMMA ListedStep ==
  ASSUME IInv, Next
  PROVE  Listed'
<1> USE DEF IInv
<1> SUFFICES ASSUME NEW q \in Procs, pc'[q] = "deleting"
             PROVE  doomed'[q] = EventsOf(call[q].session)'
  BY DEF Listed
<1> SUFFICES ASSUME NEW p \in Procs,
               \/ \E op \in Writes \cup Reads, s \in SessionIds : Call(p, op, s)
               \/ Acquire(p) \/ Read(p) \/ CreateSession(p) \/ CheckSession(p)
               \/ InsertEvent(p) \/ DeleteEvent(p) \/ ListDoomed(p)
               \/ DeleteDoomed(p) \/ DropSession(p) \/ Interrupt(p)
             PROVE  doomed'[q] = EventsOf(call[q].session)'
  BY DEF Next
<1>1. CASE q = p
  <2>1. ListDoomed(p) \/ DeleteDoomed(p)
    BY <1>1 DEF Return, Goto, TypeOK, Call, Acquire, Read, CreateSession,
       CheckSession, InsertEvent, DeleteEvent, DropSession, Interrupt, In
  <2>2. CASE ListDoomed(p)
    BY <1>1, <2>2 DEF ListDoomed, TypeOK, EventsOf, docs
  <2>3. CASE DeleteDoomed(p)
    <3>1. PICK e \in doomed[p] : Remove(e) /\ doomed' = [doomed EXCEPT ![p] = @ \ {e}]
      BY <2>3 DEF DeleteDoomed, Oldest
    <3>2. doomed[p] = EventsOf(call[p].session) /\ call' = call
      BY <2>3 DEF DeleteDoomed, Listed
    <3>3. EventsOf(call[p].session)' = EventsOf(call[p].session) \ {e}
      BY <3>1, <3>2 DEF EventsOf, Remove
    <3> QED
      BY <1>1, <3>1, <3>2, <3>3 DEF TypeOK
  <2> QED
    BY <2>1, <2>2, <2>3
<1>2. CASE q # p
  <2>1. pc[q] = "deleting"
    BY <1>2 DEF Return, Goto, TypeOK, Call, Acquire, Read, CreateSession,
       CheckSession, InsertEvent, DeleteEvent, ListDoomed, DeleteDoomed, DropSession, Interrupt, In
  <2>2. pc[p] \notin {"locked", "counting", "deleting"}
    BY <1>2, <2>1, WriterAlone
  <2>3. events' = events /\ doomed'[q] = doomed[q] /\ call'[q] = call[q]
    BY <1>2, <2>2 DEF Return, TypeOK, Call, Acquire, Read, CreateSession, CheckSession,
       InsertEvent, DeleteEvent, ListDoomed, DeleteDoomed, DropSession, Interrupt, In, docs
  <2> QED
    BY <2>1, <2>3 DEF Listed, EventsOf
<1> QED
  BY <1>1, <1>2

-----------------------------------------------------------------------------
(* Every step keeps each event's session.                                   *)
LEMMA NoOrphansStep ==
  ASSUME IInv, Next
  PROVE  NoOrphans'
<1> USE DEF IInv
<1>1. CASE UNCHANGED docs
  BY <1>1 DEF NoOrphans, SessionsOf, docs
<1>2. CASE \E p \in Procs : CreateSession(p)
  BY <1>2 DEF NoOrphans, SessionsOf, CreateSession
<1>3. ASSUME NEW p \in Procs, InsertEvent(p) PROVE NoOrphans'
  <2>1. SessionsOf(call[p].session) # {}
    BY <1>3 DEF Checked, InsertEvent
  <2> QED
    BY <1>3, <2>1 DEF NoOrphans, SessionsOf, InsertEvent, Insert
<1>4. CASE \E e \in events : Remove(e)
  BY <1>4 DEF NoOrphans, SessionsOf, Remove
<1>5. ASSUME NEW p \in Procs, DropSession(p) PROVE NoOrphans'
  <2>1. EventsOf(call[p].session) = {} /\ events' = events
    BY <1>5 DEF DropSession, Listed
  <2>2. \A d \in sessions : d.id # call[p].session => d \in sessions'
    BY <1>5 DEF DropSession, Oldest, SessionsOf
  <2> QED
    BY <2>1, <2>2 DEF NoOrphans, EventsOf, SessionsOf
<1> QED
  BY <1>1, <1>2, <1>3, <1>4, <1>5, Effect

(* Every step keeps the offsets of the sessions that have lost no event:    *)
(* a new event comes after all there are, and nobody else counts them.      *)
LEMMA OffsetsStep ==
  ASSUME IInv, Next
  PROVE  OffsetsArePositions'
<1> USE DEF IInv
<1>1. CASE events' = events /\ dropped' = dropped
  BY <1>1 DEF OffsetsArePositions, Position, EventsOf
<1>2. ASSUME NEW p \in Procs, InsertEvent(p) PROVE OffsetsArePositions'
  <2> PICK s : s = call[p].session
    OBVIOUS
  <2> PICK new : new = [at |-> inserts', session |-> s, offset |-> Cardinality(EventsOf(s))]
    OBVIOUS
  <2>1. /\ events' = events \cup {new} /\ dropped' = dropped /\ inserts' = inserts + 1
        /\ new.at = inserts + 1 /\ new.session = s /\ new.offset = Cardinality(EventsOf(s))
    BY <1>2 DEF InsertEvent, Insert
  <2>2. inserts \in Nat /\ \A e \in events : e.at \in Nat /\ e.at <= inserts
    BY MaxInsertsNat DEF TypeOK, Event, Stamped
  <2>3. ASSUME NEW e \in events' PROVE e.session \notin dropped' => e.offset = Position(e)'
    <3>1. CASE e = new
      <4>1. {f \in EventsOf(s)' : f.at < e.at} = EventsOf(s)
        BY <2>1, <2>2, <3>1 DEF EventsOf
      <4> QED
        BY <2>1, <3>1, <4>1 DEF Position, EventsOf
    <3>2. CASE e \in events
      <4>1. {f \in EventsOf(e.session)' : f.at < e.at} = {f \in EventsOf(e.session) : f.at < e.at}
        BY <2>1, <2>2, <3>2 DEF EventsOf
      <4> QED
        BY <2>1, <3>2, <4>1 DEF OffsetsArePositions, Position, EventsOf
    <3> QED
      BY <2>1, <2>3, <3>1, <3>2
  <2> QED
    BY <2>3 DEF OffsetsArePositions
<1>3. ASSUME NEW x \in events, Remove(x) PROVE OffsetsArePositions'
  <2>1. ASSUME NEW e \in events', e.session \notin dropped' PROVE e.offset = Position(e)'
    <3>1. e \in events /\ e # x /\ events' = events \ {x}
      BY <1>3, <2>1 DEF Remove
    <3>2. e.session # x.session /\ e.session \notin dropped
      BY <1>3, <2>1, <3>1 DEF Remove, EventsOf
    <3>3. {f \in EventsOf(e.session)' : f.at < e.at} = {f \in EventsOf(e.session) : f.at < e.at}
      BY <3>1, <3>2 DEF EventsOf
    <3> QED
      BY <3>1, <3>2, <3>3 DEF OffsetsArePositions, Position, EventsOf
  <2> QED
    BY <2>1 DEF OffsetsArePositions
<1> QED
  BY <1>1, <1>2, <1>3, Effect DEF docs, CreateSession, DropSession

-----------------------------------------------------------------------------
(* The invariant holds in every reachable state: whatever calls overlap,    *)
(* fail or are cancelled.                                                   *)
THEOREM Invariance == Spec => []IInv
<1>1. Init => IInv
  <2> SUFFICES ASSUME Init PROVE IInv
    OBVIOUS
  <2>1. IsFiniteSet(events)
    BY FS_EmptySet DEF Init
  <2> QED
    BY <2>1, MaxInsertsNat, NoCallFresh, NobodyFresh DEF Init, IInv, TypeOK, LockIsHeld, Stamped,
       Checked, Listed, NoOrphans, OffsetsArePositions
<1>2. IInv /\ [Next]_vars => IInv'
  <2> SUFFICES ASSUME IInv, [Next]_vars PROVE IInv'
    OBVIOUS
  <2>1. CASE Next
    BY <2>1, TypeStep, LockStep, StampedStep, CheckedStep, ListedStep, NoOrphansStep, OffsetsStep
       DEF IInv
  <2>2. CASE UNCHANGED vars
    BY <2>2 DEF vars, IInv, TypeOK, LockIsHeld, Stamped, Checked, Listed, NoOrphans,
       OffsetsArePositions, SessionsOf, EventsOf, Position
  <2> QED
    BY <2>1, <2>2
<1> QED
  BY <1>1, <1>2, PTL DEF Spec

(* Every variable keeps its type; what is left to a deletion (the gather of *)
(* delete_session, nanodb_memory.py) is always still there to be deleted.   *)
THEOREM TypeCorrect == Spec => []TypeOK
<1>1. IInv => TypeOK
  BY DEF IInv
<1> QED
  BY <1>1, Invariance, PTL

(* The lock is held by those inside an operation, and by nobody else.       *)
THEOREM LockDiscipline == Spec => []LockIsHeld
<1>1. IInv => LockIsHeld
  BY DEF IInv
<1> QED
  BY <1>1, Invariance, PTL

(* No event is left without its session.                                    *)
THEOREM EventsHaveSessions == Spec => []NoOrphans
<1>1. IInv => NoOrphans
  BY DEF IInv
<1> QED
  BY <1>1, Invariance, PTL

(* The offsets of a session that has lost no event are the positions of its *)
(* events.                                                                  *)
THEOREM OffsetsAreSequential == Spec => []OffsetsArePositions
<1>1. IInv => OffsetsArePositions
  BY DEF IInv
<1> QED
  BY <1>1, Invariance, PTL
=============================================================================
