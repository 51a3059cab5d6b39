-------------------------- MODULE BackgroundTasks --------------------------
(***************************************************************************)
(* BackgroundTaskService, packages/core/src/flux0_core/                    *)
(* background_tasks_service.py: a registry of asyncio tasks by tag behind  *)
(* one asyncio.Lock, a collector task, and the exit of the async context.  *)
(*                                                                         *)
(* One action is a stretch of code between two points where the event loop *)
(* may switch tasks.  There are two such points: waiting for the lock, and *)
(* awaiting a task while the lock is held (restart and the forced collect).*)
(* A call is therefore the sequence of its critical sections; a process    *)
(* that reaches one joins the lock's FIFO queue.  If the queue is empty    *)
(* the code runs straight on; here the grant is the next step, which is    *)
(* the same to everyone else, as the registry only changes under the lock. *)
(***************************************************************************)
EXTENDS Naturals, Sequences, SequencesExt

CONSTANTS Callers,    \* coroutines that call the service
          Collector,  \* the coroutine _run_collector
          Closer,     \* the coroutine that leaves the async context
          Tags,       \* task tags
          Runs,       \* tells apart the tasks of a tag; reused once forgotten
          NoTask,     \* "no task": an absent key, nobody awaited
          Free,       \* the holder of a free lock
          Interval,   \* _garbage_collection_interval, in clock ticks
          CanExit     \* whether the context is ever left

Procs == Callers \cup {Collector, Closer}
Tasks == Tags \X Runs      \* a task is created for a tag
TagOf(t) == t[1]

ASSUME ProcsDistinct == Collector # Closer /\ {Collector, Closer} \cap Callers = {}
ASSUME NoTaskFresh == NoTask \notin Tasks
ASSUME FreeFresh == Free \notin Procs
ASSUME IntervalPositive == Interval \in Nat \ {0}
ASSUME CanExitBoolean == CanExit \in BOOLEAN

VARIABLES
  registry,   \* _tasks: the task registered under each tag, or NoTask
  running,    \* the tasks that are not done()
  cancelReq,  \* the running tasks on which cancel() has been called
  todo,       \* the critical sections left of each process's current call
  arg,        \* the tag the current call of each process is about
  waiters,    \* processes queued for _lock, in order
  holder,     \* the process suspended while it holds _lock, or Free
  awaited,    \* the task that process awaits, or NoTask
  gcAge,      \* loop.time() - _last_garbage_collection, up to Interval
  age,        \* time since a process read `now` (the collector: began to sleep)
  service     \* the life of the async context

vars == <<registry, running, cancelReq, todo, arg, waiters, holder,
          awaited, gcAge, age, service>>

tasks == <<registry, running, cancelReq>>

Sections == {"collect", "force", "cancel", "cancelAll", "start", "restart"}

\* The critical sections of each public operation, in order.
Operations == [start     |-> <<"collect", "start">>,
                restart   |-> <<"collect", "restart">>,
                cancel    |-> <<"cancel", "collect">>,
                cancelAll |-> <<"cancelAll", "collect">>]

Live(g) == registry[g] \in running

Init ==
  /\ registry = [g \in Tags |-> NoTask]
  /\ running = {}
  /\ cancelReq = {}
  /\ todo = [p \in Procs |-> <<>>]
  /\ arg \in {[p \in Procs |-> g] : g \in Tags}
  /\ waiters = <<>>
  /\ holder = Free
  /\ awaited = NoTask
  /\ gcAge = Interval
  /\ age = [p \in Procs |-> 0]
  /\ service = "open"

---------------------------------------------------------------------------
\* Mutant of Reach: the interval test is inclusive, so no collect is ever due.
Reach_Inclusive(sections) ==
  IF sections # <<>> /\ Head(sections) = "collect" /\ gcAge' <= Interval
  THEN Tail(sections)
  ELSE sections

\* Where a call goes next: an unforced collect that is not due returns at once.
Reach(sections) ==
  IF sections # <<>> /\ Head(sections) = "collect" /\ gcAge' < Interval
  THEN Tail(sections)
  ELSE sections

\* Mutant of RunOn: `now` is not read again when a call reaches its collect.
RunOn_StaleNow(p, sections, queue) ==
  LET rest == Reach(sections) IN
  /\ todo' = [todo EXCEPT ![p] = rest]
  /\ waiters' = IF rest = <<>> THEN queue ELSE Append(queue, p)
  /\ UNCHANGED age

\* p runs on to its next critical section, or returns; queue is _lock's queue.
RunOn(p, sections, queue) ==
  LET rest == Reach(sections) IN
  /\ todo' = [todo EXCEPT ![p] = rest]
  /\ waiters' = IF rest = <<>> THEN queue ELSE Append(queue, p)
  /\ age' = [age EXCEPT ![p] = 0]

\* p leaves its critical section and releases the lock.
Finish(p) ==
  /\ RunOn(p, Tail(todo[p]), IF holder = p THEN waiters ELSE Tail(waiters))
  /\ holder' = Free
  /\ awaited' = NoTask

\* p keeps the lock and suspends until task t is done.
Await(p, t) ==
  /\ holder' = p
  /\ awaited' = t
  /\ waiters' = IF holder = p THEN waiters ELSE Tail(waiters)
  /\ UNCHANGED <<todo, age>>

\* asyncio.create_task and the registration of the new task under its tag.
Create(g) ==
  \E t \in {g} \X Runs :
    /\ t \notin running
    /\ registry[g] # t
    /\ running' = running \cup {t}
    /\ registry' = [registry EXCEPT ![g] = t]
    /\ UNCHANGED cancelReq

\* Mutant of RequestCancel: cancels what has ended, or is not there, as well.
RequestCancel_Unchecked(S) ==
  /\ cancelReq' = cancelReq \cup S
  /\ UNCHANGED <<registry, running>>

RequestCancel(S) ==
  /\ cancelReq' = cancelReq \cup (S \cap running)
  /\ UNCHANGED <<registry, running>>

---------------------------------------------------------------------------
\* Mutants of the sections below.
StartSection_Unchecked(p) ==      \* start without its "already running" error
  /\ Create(arg[p])
  /\ UNCHANGED <<gcAge, service>>
  /\ Finish(p)

RestartSection_NoCancel(p) ==     \* restart awaits the old task but never cancels it
  /\ IF Live(arg[p])
     THEN UNCHANGED tasks /\ Await(p, registry[arg[p]])
     ELSE Create(arg[p]) /\ Finish(p)
  /\ UNCHANGED <<gcAge, service>>

CancelSection_CollectInside(p) == \* cancel calls collect() inside `async with`
  /\ RequestCancel({registry[arg[p]]})
  /\ UNCHANGED <<gcAge, service, awaited, age>>
  /\ todo' = [todo EXCEPT ![p] = Tail(todo[p])]
  /\ waiters' = Append(Tail(waiters), p)
  /\ holder' = p

CollectSection_DropsAll(p) ==     \* collect forgets the running tasks too
  /\ registry' = [g \in Tags |-> NoTask]
  /\ gcAge' = age[p]
  /\ UNCHANGED <<running, cancelReq, service>>
  /\ Finish(p)

ForceSection_NoWait(p) ==         \* a forced collect that awaits nothing
  /\ registry' = [g \in Tags |-> NoTask]
  /\ gcAge' = age[p]
  /\ service' = "closed"
  /\ UNCHANGED <<running, cancelReq>>
  /\ Finish(p)

\* start, after its collect: an error if the tag's task is still running.
StartSection(p) ==
  /\ IF Live(arg[p]) THEN UNCHANGED tasks ELSE Create(arg[p])
  /\ UNCHANGED <<gcAge, service>>
  /\ Finish(p)

\* restart, after its collect: cancel a running task and await it, under the lock.
RestartSection(p) ==
  /\ IF Live(arg[p])
     THEN RequestCancel({registry[arg[p]]}) /\ Await(p, registry[arg[p]])
     ELSE Create(arg[p]) /\ Finish(p)
  /\ UNCHANGED <<gcAge, service>>

\* restart goes on once the old task is done.
RestartResume(p) ==
  /\ Create(arg[p])
  /\ UNCHANGED <<gcAge, service>>
  /\ Finish(p)

CancelSection(p) ==
  /\ RequestCancel({registry[arg[p]]})
  /\ UNCHANGED <<gcAge, service>>
  /\ Finish(p)

CancelAllSection(p) ==
  /\ RequestCancel({registry[g] : g \in Tags})
  /\ UNCHANGED <<gcAge, service>>
  /\ Finish(p)

\* collect, not forced: forget the tasks that are done.
CollectSection(p) ==
  /\ registry' = [g \in Tags |-> IF Live(g) THEN registry[g] ELSE NoTask]
  /\ gcAge' = age[p]
  /\ UNCHANGED <<running, cancelReq, service>>
  /\ Finish(p)

\* collect(force=True), from its start or from a task it awaited: await the next
\* running task, else forget every task; only __aexit__ forces.
ForceSection(p) ==
  \/ \E g \in Tags : Live(g) /\ Await(p, registry[g])
                     /\ UNCHANGED <<tasks, gcAge, service>>
  \/ /\ \A g \in Tags : ~Live(g)
     /\ registry' = [g \in Tags |-> NoTask]
     /\ gcAge' = age[p]
     /\ service' = "closed"
     /\ UNCHANGED <<running, cancelReq>>
     /\ Finish(p)

Section(p) ==
  CASE Head(todo[p]) = "start"     -> StartSection(p)
    [] Head(todo[p]) = "restart"   -> RestartSection(p)
    [] Head(todo[p]) = "cancel"    -> CancelSection(p)
    [] Head(todo[p]) = "cancelAll" -> CancelAllSection(p)
    [] Head(todo[p]) = "collect"   -> CollectSection(p)
    [] Head(todo[p]) = "force"     -> ForceSection(p)

\* The lock is free and p is first in its queue.
Acquire(p) ==
  /\ holder = Free
  /\ waiters # <<>>
  /\ Head(waiters) = p
  /\ Section(p)
  /\ UNCHANGED arg

\* The task that p awaits is done: _await_task returns, whatever its outcome.
Resume(p) ==
  /\ holder = p
  /\ awaited \notin running
  /\ IF Head(todo[p]) = "restart" THEN RestartResume(p) ELSE ForceSection(p)
  /\ UNCHANGED arg

---------------------------------------------------------------------------
\* A caller invokes an operation.
Call(p, op, g) ==
  /\ todo[p] = <<>>
  /\ arg' = [arg EXCEPT ![p] = g]
  /\ UNCHANGED <<tasks, holder, awaited, gcAge, service>>
  /\ RunOn(p, Operations[op], waiters)

\* The collector has slept its interval.
CollectorWakes ==
  /\ todo[Collector] = <<>>
  /\ age[Collector] = Interval
  /\ UNCHANGED <<tasks, arg, holder, awaited, gcAge, service>>
  /\ RunOn(Collector, <<"collect">>, waiters)

\* __aexit__: tasks are cancelled only if an exception ends the context.
Exit(exc) ==
  /\ CanExit
  /\ todo[Closer] = <<>>
  /\ service = "open"
  /\ service' = "closing"
  /\ UNCHANGED <<tasks, arg, holder, awaited, gcAge>>
  /\ RunOn(Closer, IF exc THEN <<"cancelAll", "collect", "force">> ELSE <<"force">>,
           waiters)

\* p's own task is cancelled while it waits for the lock: the call is abandoned.
InterruptWait(p) ==
  /\ \E i \in 1..Len(waiters) : waiters[i] = p /\ waiters' = RemoveAt(waiters, i)
  /\ todo' = [todo EXCEPT ![p] = <<>>]
  /\ age' = [age EXCEPT ![p] = 0]
  /\ service' = IF p = Closer THEN "aborted" ELSE service
  /\ UNCHANGED <<tasks, arg, holder, awaited, gcAge>>

\* Mutant of InterruptAwait: the interrupted caller gives up its call.
InterruptAwait_Abandons(p) ==
  /\ holder = p
  /\ RequestCancel({awaited})
  /\ todo' = [todo EXCEPT ![p] = <<>>]
  /\ UNCHANGED <<arg, waiters, holder, awaited, gcAge, age, service>>

\* p's own task is cancelled while it awaits a task: asyncio cancels the awaited
\* task instead, and _await_task swallows p's CancelledError.
InterruptAwait(p) ==
  /\ holder = p
  /\ RequestCancel({awaited})
  /\ UNCHANGED <<todo, arg, waiters, holder, awaited, gcAge, age, service>>

\* A task's coroutine returns or raises.
TaskEnds(t) ==
  /\ t \in running
  /\ running' = running \ {t}
  /\ cancelReq' = cancelReq \ {t}
  /\ UNCHANGED <<registry, todo, arg, waiters, holder, awaited, gcAge, age,
                 service>>

\* loop.time() advances; only the ages somebody will read are kept.
Timed(p) == \/ todo[p] # <<>> /\ Head(todo[p]) \in {"collect", "force"}
            \/ p = Collector
Older(n) == IF n < Interval THEN n + 1 ELSE n
Tick ==
  /\ gcAge' = Older(gcAge)
  /\ age' = [p \in Procs |-> IF Timed(p) THEN Older(age[p]) ELSE age[p]]
  /\ UNCHANGED <<tasks, todo, arg, waiters, holder, awaited, service>>

Step(p) == Acquire(p) \/ Resume(p)

Next ==
  \/ \E p \in Callers, op \in DOMAIN Operations, g \in Tags : Call(p, op, g)
  \/ CollectorWakes
  \/ \E exc \in BOOLEAN : Exit(exc)
  \/ \E p \in Procs : Step(p)
  \/ \E p \in Callers \cup {Closer} : InterruptWait(p)
  \/ \E p \in Callers \cup {Closer} : InterruptAwait(p)
  \/ \E t \in Tasks : TaskEnds(t)
  \/ Tick

Spec == Init /\ [][Next]_vars

\* The event loop runs whatever is ready, time passes and the collector's timer
\* fires; a task that was cancelled ends, one that was not may run for ever.
Fairness ==
  /\ WF_vars(Tick)
  /\ WF_vars(CollectorWakes)
  /\ \A p \in Procs : WF_vars(Step(p))
  /\ \A t \in Tasks : WF_vars(t \in cancelReq /\ TaskEnds(t))

FairSpec == Spec /\ Fairness

---------------------------------------------------------------------------
TypeOK ==
  /\ registry \in [Tags -> Tasks \cup {NoTask}]
  /\ running \subseteq Tasks
  /\ cancelReq \subseteq running
  /\ todo \in [Procs -> Seq(Sections)]
  /\ arg \in [Procs -> Tags]
  /\ waiters \in Seq(Procs)
  /\ holder \in Procs \cup {Free}
  /\ awaited \in Tasks \cup {NoTask}
  /\ gcAge \in 0..Interval
  /\ age \in [Procs -> 0..Interval]
  /\ service \in {"open", "closing", "closed", "aborted"}

\* A running task is the one registered under the tag it was created for: no tag
\* ever has two running tasks, and none runs where cancel and restart cannot find
\* it, whatever start, restart, cancel and collect calls overlap.
LiveIsRegistered == \A t \in running : registry[TagOf(t)] = t

\* restart awaits only a task it has cancelled, so its lock is held for as long as
\* the cancelled task takes to end and no longer; and the task it awaits stays the
\* one registered under its tag, so what it then replaces is what it awaited.
RestartAwaitsCancelled ==
  \A p \in Procs : holder = p /\ Head(todo[p]) = "restart" =>
     /\ awaited \in running => awaited \in cancelReq
     /\ registry[arg[p]] = awaited

\* A process that suspended holding the lock is never also queued for it, and no
\* process is queued twice: the lock is not re-entrant, so it would wait for itself.
NoSelfWait ==
  /\ \A i \in 1..Len(waiters) : waiters[i] # holder
  /\ \A i, j \in 1..Len(waiters) : waiters[i] = waiters[j] => i = j

\* What LiveIsRegistered rests on: a task is registered under its own tag only, a
\* suspended holder is inside restart or the forced collect and awaits a task, and
\* whoever queues for the lock is inside a call.
RegisteredUnderOwnTag ==
  \A g \in Tags : registry[g] # NoTask => TagOf(registry[g]) = g
HolderSuspended ==
  \A p \in Procs : holder = p =>
     /\ todo[p] # <<>>
     /\ Head(todo[p]) \in {"restart", "force"}
     /\ awaited \in Tasks
QueuedIsCalling == \A i \in 1..Len(waiters) : todo[waiters[i]] # <<>>

IInv == /\ TypeOK
        /\ LiveIsRegistered
        /\ RegisteredUnderOwnTag
        /\ HolderSuspended
        /\ RestartAwaitsCancelled
        /\ NoSelfWait
        /\ QueuedIsCalling

\* Seen through its running tasks, the service is one slot per tag: a task never
\* begins in a slot before the previous one has ended, whatever calls overlap.
slot == [g \in Tags |-> IF Live(g) THEN registry[g] ELSE NoTask]
Slots == INSTANCE TaskSlots WITH stopping <- cancelReq
ImplementsSlots == Slots!Spec

\* __aexit__ completes only in a state where no task runs.
ClosedWithNoneRunning == [][service' = "closed" /\ service # "closed" => running' = {}]_vars

\* Although collect reads `now` before it waits for the lock and stores it after,
\* _last_garbage_collection never moves back.
GcNeverMovesBack == [][gcAge' <= gcAge \/ Tick]_vars

\* Every call returns as long as nobody forces a collection: the lock is always
\* handed on, since restart awaits only cancelled tasks.
EveryCallReturns == \A p \in Procs : todo[p] # <<>> ~> todo[p] = <<>>

\* The collector eventually forgets every task that is done.
DoneIsForgotten ==
  \A g \in Tags, t \in Tasks :
     registry[g] = t /\ t \notin running ~> registry[g] # t \/ t \in running
=============================================================================
