---------------------------- MODULE SessionStore ----------------------------
(***************************************************************************)
(* SessionDocumentStore, packages/core/src/flux0_core/storage/             *)
(* nanodb_memory.py, over its two NanoDB collections (packages/nanodb/src/ *)
(* flux0_nanodb/memory.py) and its readers-writer lock.                    *)
(*                                                                         *)
(* A collection is a list.  Here it is a set of documents stamped with the *)
(* order of their insertion, and delete_one takes the one with the least;  *)
(* an event's stamp is its generated id.                                   *)
(*                                                                         *)
(* NanoDB never suspends, but every acquisition of the lock does, also the *)
(* one a writer makes as a reader of the lock it already holds, and so     *)
(* does the gather in delete_session: one action is what lies between.     *)
(* At each of these points the calling task may be cancelled.              *)
(***************************************************************************)
EXTENDS Integers, FiniteSets

CONSTANTS Procs,       \* coroutines that call the store
          SessionIds,
          NoCall,      \* the operation of a process that is in none
          Nobody,      \* the writer of a lock nobody writes under
          MaxInserts   \* bound: documents ever inserted

Writes == {"createSession", "createEvent", "deleteSession", "deleteEvent"}
Reads == {"read"}   \* read_session, list_sessions, read_event, list_events
Calls == [op : Writes \cup Reads, session : SessionIds]

ASSUME NoCallFresh == NoCall \notin Calls
ASSUME NobodyFresh == Nobody \notin Procs
ASSUME MaxInsertsNat == MaxInserts \in Nat

VARIABLES
  sessions,  \* _session_col
  events,    \* _event_col
  inserts,   \* the number of documents inserted so far, which is the last stamp
  call,      \* the operation each process is in and the session it is about
  pc,        \* where in it the process is
  writer,    \* the holder of the writer lock, or Nobody
  readers,   \* the holders of the reader lock that are not the writer
  doomed,    \* the events a delete_session has still to delete
  dropped    \* history: the sessions some of whose events were deleted, not all

vars == <<sessions, events, inserts, call, pc, writer, readers, doomed, dropped>>
lock == <<writer, readers>>
docs == <<sessions, events, inserts, dropped>>

Session == [at : 1..MaxInserts, id : SessionIds]
Event == [at : 1..MaxInserts, session : SessionIds, offset : Nat]

SessionsOf(s) == {d \in sessions : d.id = s}   \* find by id
EventsOf(s) == {e \in events : e.session = s}  \* list_events
Oldest(S) == {d \in S : \A x \in S : d.at <= x.at}  \* what delete_one takes

Init == /\ sessions = {} /\ events = {} /\ inserts = 0
        /\ call = [p \in Procs |-> NoCall]
        /\ pc = [p \in Procs |-> "idle"]
        /\ writer = Nobody /\ readers = {}
        /\ doomed = [p \in Procs |-> {}]
        /\ dropped = {}

---------------------------------------------------------------------------
Goto(p, where) == pc' = [pc EXCEPT ![p] = where]

\* p leaves its `async with`, by its end or by an exception.
Return(p) == /\ Goto(p, "idle")
             /\ writer' = IF writer = p THEN Nobody ELSE writer
             /\ readers' = readers \ {p}
             /\ doomed' = [doomed EXCEPT ![p] = {}]
             /\ call' = [call EXCEPT ![p] = NoCall]

Call(p, op, s) ==
  /\ pc[p] = "idle"
  /\ call' = [call EXCEPT ![p] = [op |-> op, session |-> s]]
  /\ Goto(p, "waiting")
  /\ UNCHANGED <<docs, lock, doomed>>

\* Writers exclude everybody, readers exclude writers.
Acquire(p) ==
  /\ pc[p] = "waiting"
  /\ writer = Nobody
  /\ IF call[p].op \in Writes THEN readers = {} /\ writer' = p /\ UNCHANGED readers
     ELSE readers' = readers \cup {p} /\ UNCHANGED writer
  /\ Goto(p, "locked")
  /\ UNCHANGED <<docs, call, doomed>>

In(p, op) == pc[p] = "locked" /\ call[p].op = op

Read(p) == In(p, "read") /\ Return(p) /\ UNCHANGED docs

\* The id may have been chosen by the caller, who may have chosen it before.
CreateSession(p) ==
  /\ In(p, "createSession")
  /\ inserts < MaxInserts
  /\ inserts' = inserts + 1
  /\ sessions' = sessions \cup {[at |-> inserts', id |-> call[p].session]}
  /\ UNCHANGED <<events, dropped>>
  /\ Return(p)

---------------------------------------------------------------------------
(* create_event: check the session, suspend, count its events and insert.  *)
CheckSession(p) ==
  /\ In(p, "createEvent")
  /\ UNCHANGED docs
  /\ \/ /\ SessionsOf(call[p].session) = {}  \* ValueError
        /\ Return(p)
     \/ /\ SessionsOf(call[p].session) # {}
        /\ Goto(p, "counting")
        /\ UNCHANGED <<lock, call, doomed>>

Insert(s, offset) ==
  /\ inserts < MaxInserts
  /\ inserts' = inserts + 1
  /\ events' = events \cup {[at |-> inserts', session |-> s, offset |-> offset]}
  /\ UNCHANGED <<sessions, dropped>>

\* Mutant of InsertEvent: the events of all sessions are counted.
InsertEvent_CountsAll(p) ==
  /\ pc[p] = "counting"
  /\ Insert(call[p].session, Cardinality(events))
  /\ Return(p)

InsertEvent(p) ==
  /\ pc[p] = "counting"
  /\ Insert(call[p].session, Cardinality(EventsOf(call[p].session)))
  /\ Return(p)

---------------------------------------------------------------------------
Remove(e) ==
  /\ events' = events \ {e}
  /\ dropped' = IF EventsOf(e.session) = {e} THEN dropped \ {e.session}
                ELSE dropped \cup {e.session}
  /\ UNCHANGED <<sessions, inserts>>

\* delete_event, of an event of the session or of one that is gone.
DeleteEvent(p) ==
  /\ In(p, "deleteEvent")
  /\ \/ \E e \in EventsOf(call[p].session) : Remove(e)
     \/ UNCHANGED docs
  /\ Return(p)

(* delete_session: list the events, delete each in a task of its own, then *)
(* the session.                                                            *)
ListDoomed(p) ==
  /\ In(p, "deleteSession")
  /\ doomed' = [doomed EXCEPT ![p] = EventsOf(call[p].session)]
  /\ Goto(p, "deleting")
  /\ UNCHANGED <<docs, lock, call>>

DeleteDoomed(p) ==
  /\ pc[p] = "deleting"
  /\ \E e \in Oldest(doomed[p]) : /\ Remove(e)
                                 /\ doomed' = [doomed EXCEPT ![p] = @ \ {e}]
  /\ UNCHANGED <<lock, call, pc>>

\* Mutant of DropSession: the session goes without waiting for the deletions.
DropSession_AtOnce(p) ==
  /\ pc[p] = "deleting"
  /\ sessions' = sessions \ Oldest(SessionsOf(call[p].session))
  /\ UNCHANGED <<events, inserts, dropped>>
  /\ Return(p)

DropSession(p) ==
  /\ pc[p] = "deleting" /\ doomed[p] = {}
  /\ sessions' = sessions \ Oldest(SessionsOf(call[p].session))
  /\ UNCHANGED <<events, inserts, dropped>>
  /\ Return(p)

---------------------------------------------------------------------------
\* Mutants of Interrupt: the lock is left taken; what was to be deleted is remembered.
Interrupt_KeepsLock(p) ==
  /\ pc[p] # "idle"
  /\ Goto(p, "idle")
  /\ call' = [call EXCEPT ![p] = NoCall]
  /\ doomed' = [doomed EXCEPT ![p] = {}]
  /\ UNCHANGED <<docs, lock>>
Interrupt_KeepsDoomed(p) ==
  /\ pc[p] # "idle"
  /\ Goto(p, "idle")
  /\ writer' = IF writer = p THEN Nobody ELSE writer
  /\ readers' = readers \ {p}
  /\ call' = [call EXCEPT ![p] = NoCall]
  /\ UNCHANGED <<docs, doomed>>

\* The calling task is cancelled where it is suspended; deletions not yet begun are too.
Interrupt(p) == pc[p] # "idle" /\ Return(p) /\ UNCHANGED docs

Next == \E p \in Procs :
  \/ \E op \in Writes \cup Reads, s \in SessionIds : Call(p, op, s)
  \/ Acquire(p) \/ Read(p) \/ CreateSession(p) \/ CheckSession(p) \/ InsertEvent(p)
  \/ DeleteEvent(p) \/ ListDoomed(p) \/ DeleteDoomed(p) \/ DropSession(p)
  \/ Interrupt(p)

Spec == Init /\ [][Next]_vars

---------------------------------------------------------------------------
TypeOK ==
  /\ sessions \subseteq Session /\ events \subseteq Event
  /\ inserts \in 0..MaxInserts
  /\ call \in [Procs -> Calls \cup {NoCall}]
  /\ pc \in [Procs -> {"idle", "waiting", "locked", "counting", "deleting"}]
  /\ writer \in Procs \cup {Nobody} /\ readers \subseteq Procs
  /\ doomed \in [Procs -> SUBSET events]
  /\ dropped \subseteq SessionIds
  /\ \A p \in Procs : /\ pc[p] = "idle" <=> call[p] = NoCall
                      /\ pc[p] # "deleting" => doomed[p] = {}

\* Whoever is inside an operation holds the lock the operation needs, and nobody else
\* holds it: neither an error nor a cancellation leaves it taken or shared.
LockIsHeld ==
  /\ writer # Nobody => readers = {} /\ pc[writer] \in {"locked", "counting", "deleting"}
  /\ \A p \in readers : pc[p] = "locked" /\ call[p].op \in Reads
  /\ \A p \in Procs : /\ pc[p] = "locked" => (p = writer \/ p \in readers)
                      /\ pc[p] \in {"counting", "deleting"} => p = writer

\* No event without its session, whatever creations and deletions overlap or are cut
\* off halfway: a session found is still there when its event is inserted, and a
\* session only goes after all of its events.
NoOrphans == \A e \in events : SessionsOf(e.session) # {}

\* An event's offset is its position in its session, unless events before it have
\* been deleted: no two concurrent create_event calls count the same events.
Position(e) == Cardinality({f \in EventsOf(e.session) : f.at < e.at})
OffsetsArePositions == \A e \in events : e.session \notin dropped => e.offset = Position(e)
=============================================================================
