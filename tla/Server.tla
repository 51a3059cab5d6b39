------------------------------- MODULE Server -------------------------------
(***************************************************************************)
(* The life of the server, packages/server/src/flux0_server/main.py: the   *)
(* components are entered on an exit stack, modules are loaded, the API    *)
(* serves until it is interrupted, fails or returns, and the stack is      *)
(* unwound, while requests leave tasks of their own behind.                *)
(***************************************************************************)
EXTENDS Naturals, SequencesExt, Functions

CONSTANTS Modules,     \* the modules of the configuration
          Types,       \* agent types
          Defines,     \* the agent types whose runner each module registers
          Sessions,
          TypeOf,      \* the type of each session's agent
          MaxPending,  \* bound: messages in the emitter's queue
          NoModule

ASSUME DefinesTypes == Defines \in [Modules -> SUBSET Types] /\ TypeOf \in [Sessions -> Types]
ASSUME MaxPendingNat == MaxPending \in Nat

\* Mutant of Components: the emitter is entered after the tasks that emit.
Components_EmitterLast == <<"event_store", "tasks", "emitter", "users", "agents", "sessions">>
Components == <<"event_store", "emitter", "tasks", "users", "agents", "sessions">>

VARIABLES
  phase,    \* of the main task
  stack,    \* exit_stack
  order,    \* imported_modules
  inited,   \* the modules initialised, in order
  down,     \* the modules shut down, in order
  exc,      \* an exception is in flight
  closing,  \* __aexit__ of the task service: no, cancelled, collecting, closed
  swept,    \* cancel_all has been called
  waiting,  \* sessions whose dispatcher waits to start their run
  run,      \* each session's run: its state and the module of its runner
  late,     \* history: runs begun after cancel_all, and after the service closed
  pending,  \* the number of messages in the emitter's queue
  emitter   \* up, down, or broken: down after a drain that raised

main == <<phase, stack, order, inited, down, exc>>
tasks == <<closing, swept, waiting, run, late>>
vars == <<main, tasks, pending, emitter>>

Init == /\ phase = "container" /\ stack = <<>>
        /\ order = <<>> /\ inited = <<>> /\ down = <<>> /\ exc = FALSE
        /\ closing = "no" /\ swept = FALSE /\ waiting = {}
        /\ run = [s \in Sessions |-> [state |-> "none", by |-> NoModule]]
        /\ late = [swept |-> {}, closed |-> {}]
        /\ pending = 0 /\ emitter = "up"

---------------------------------------------------------------------------
\* setup_container.

\* Mutant of EnterComponent: a component is entered twice.
EnterComponent_Again ==
  /\ phase = "container" /\ Len(stack) < Len(Components)
  /\ stack' = stack \o <<Components[Len(stack) + 1], Components[Len(stack) + 1]>>
  /\ UNCHANGED <<phase, order, inited, down, exc, tasks, pending, emitter>>

EnterComponent ==
  /\ phase = "container" /\ Len(stack) < Len(Components)
  /\ stack' = Append(stack, Components[Len(stack) + 1])
  /\ UNCHANGED <<phase, order, inited, down, exc, tasks, pending, emitter>>

\* StartupError: unsupported stores, or unsupported authentication.  The exit stack
\* has not been entered itself, so what is on it is not exited.
SetupFails ==
  /\ phase = "container" /\ Len(stack) \in {0, Len(Components)}
  /\ phase' = "ended" /\ exc' = TRUE
  /\ UNCHANGED <<stack, order, inited, down, tasks, pending, emitter>>

---------------------------------------------------------------------------
\* load_modules: a set, so in any order.
ImportModules(s) ==
  /\ phase = "container" /\ Len(stack) = Len(Components)
  /\ ToSet(s) = Modules /\ Len(s) = Cardinality(Modules)
  /\ phase' = "modules" /\ order' = s
  /\ UNCHANGED <<stack, inited, down, exc, tasks, pending, emitter>>

InitModule ==
  /\ phase = "modules" /\ Len(inited) < Len(order)
  /\ inited' = Append(inited, order[Len(inited) + 1])
  /\ UNCHANGED <<phase, stack, order, down, exc, tasks, pending, emitter>>

\* An import or init_module raises, before the `try` whose finally shuts modules down.
LoadFails ==
  /\ phase = "modules"
  /\ phase' = "unwinding" /\ exc' = TRUE
  /\ UNCHANGED <<stack, order, inited, down, tasks, pending, emitter>>

Serve ==
  /\ phase = "modules" /\ inited = order
  /\ phase' = "serving"
  /\ stack' = IF order = <<>> THEN stack ELSE Append(stack, "modules")
  /\ UNCHANGED <<order, inited, down, exc, tasks, pending, emitter>>

---------------------------------------------------------------------------
\* Requests, runs and what they emit.

\* Mutant of Request: requests are taken while modules are being initialised.
Request_Early(s) ==
  /\ phase \in {"modules", "serving"} /\ s \notin waiting /\ run[s].state = "none"
  /\ waiting' = waiting \cup {s}
  /\ UNCHANGED <<main, closing, swept, run, late, pending, emitter>>

\* A request leaves its dispatcher, a task of its own; no task but the main one is
\* told that the server stops.
Request(s) ==
  /\ phase = "serving" /\ s \notin waiting /\ run[s].state = "none"
  /\ waiting' = waiting \cup {s}
  /\ UNCHANGED <<main, closing, swept, run, late, pending, emitter>>

\* The modules whose runners for a session's agent type are in the container.
Runners(s) == {m \in ToSet(inited) : TypeOf[s] \in Defines[m]}

\* restart: waits while the forced collect has the lock, but not for an open service.
\* create_runner takes any of the runners: the container's defined_types are a set.  That
\* there is none is raised in the run.
Dispatch(s) ==
  /\ s \in waiting /\ closing # "collecting" /\ phase # "ended"
  /\ waiting' = waiting \ {s}
  /\ \/ /\ Runners(s) = {}
        /\ run' = [run EXCEPT ![s] = [state |-> "done", by |-> NoModule]]
     \/ \E m \in Runners(s) :
           run' = [run EXCEPT ![s] = [state |-> "running", by |-> m]]
  /\ late' = [swept |-> IF swept THEN late.swept \cup {s} ELSE late.swept,
              closed |-> IF closing = "closed" THEN late.closed \cup {s} ELSE late.closed]
  /\ UNCHANGED <<main, closing, swept, pending, emitter>>

\* A run emits, also while it is being cancelled.
Emit(s) ==
  /\ run[s].state \in {"running", "cancelled"} /\ pending < MaxPending /\ phase # "ended"
  /\ pending' = pending + 1
  /\ UNCHANGED <<main, tasks, emitter>>

RunEnds(s) ==
  /\ run[s].state \in {"running", "cancelled"} /\ phase # "ended"
  /\ run' = [run EXCEPT ![s].state = "done"]
  /\ UNCHANGED <<main, closing, swept, waiting, late, pending, emitter>>

Work == /\ emitter = "up" /\ pending > 0
        /\ pending' = pending - 1
        /\ UNCHANGED <<main, tasks, emitter>>

---------------------------------------------------------------------------
\* serve_app.
CancelAll == /\ run' = [s \in Sessions |-> IF run[s].state = "running" THEN [run[s] EXCEPT !.state = "cancelled"]
                                           ELSE run[s]]
             /\ swept' = TRUE

\* Mutant of Interrupted: the runs are not cancelled.
Interrupted_Waits ==
  /\ phase = "serving"
  /\ phase' = "unwinding" /\ swept' = TRUE
  /\ UNCHANGED <<stack, order, inited, down, exc, closing, waiting, run, late, pending, emitter>>

\* KeyboardInterrupt or CancelledError, which is swallowed.
Interrupted ==
  /\ phase = "serving"
  /\ phase' = "unwinding" /\ CancelAll
  /\ UNCHANGED <<stack, order, inited, down, exc, closing, waiting, late, pending, emitter>>

\* serve returns, or raises (sys.exit(1)).
Stopped ==
  /\ phase = "serving"
  /\ phase' = "unwinding" /\ exc' \in BOOLEAN
  /\ UNCHANGED <<stack, order, inited, down, tasks, pending, emitter>>

---------------------------------------------------------------------------
\* The exit stack: the last component entered is the first to leave.
Leaving(c) == phase = "unwinding" /\ stack # <<>> /\ Last(stack) = c

\* Mutant of NextDown: the modules are shut down in the order they were initialised.
NextDown_Forward == order[Len(down) + 1]
NextDown == order[Len(order) - Len(down)]

ShutModule ==
  /\ Leaving("modules") /\ Len(down) < Len(order)
  /\ down' = Append(down, NextDown)
  /\ UNCHANGED <<phase, stack, order, inited, exc, tasks, pending, emitter>>

\* All are down, or one raises and the rest are not shut down.
LeaveModules ==
  /\ Leaving("modules")
  /\ stack' = Front(stack)
  /\ exc' = (exc \/ Len(down) < Len(order))
  /\ UNCHANGED <<phase, order, inited, down, tasks, pending, emitter>>

\* The stores have nothing to leave.
LeaveStore ==
  /\ \E c \in {"users", "agents", "sessions", "event_store"} : Leaving(c)
  /\ stack' = Front(stack)
  /\ UNCHANGED <<phase, order, inited, down, exc, tasks, pending, emitter>>

\* The task service cancels its tasks only if there is an exception,
LeaveCancelling ==
  /\ Leaving("tasks") /\ exc /\ closing = "no"
  /\ closing' = "cancelled" /\ CancelAll
  /\ UNCHANGED <<main, waiting, late, pending, emitter>>

\* takes its lock for the forced collect,
LeaveCollecting ==
  /\ Leaving("tasks") /\ closing = (IF exc THEN "cancelled" ELSE "no")
  /\ closing' = "collecting"
  /\ UNCHANGED <<main, swept, waiting, run, late, pending, emitter>>

\* and waits for every task.
LeaveTasks ==
  /\ Leaving("tasks") /\ closing = "collecting"
  /\ \A s \in Sessions : run[s].state \notin {"running", "cancelled"}
  /\ closing' = "closed" /\ stack' = Front(stack)
  /\ UNCHANGED <<phase, order, inited, down, exc, swept, waiting, run, late, pending, emitter>>

\* shutdown processes what is queued, without a suspension, up to the first exception.
LeaveEmitter ==
  /\ Leaving("emitter")
  /\ stack' = Front(stack)
  /\ \/ pending' = 0 /\ emitter' = "down"
     \/ pending > 0 /\ pending' \in 0..(pending - 1) /\ emitter' = "broken"
  /\ UNCHANGED <<phase, order, inited, down, exc, tasks>>

\* asyncio.run cancels whatever tasks are left.
End == /\ phase = "unwinding" /\ stack = <<>>
       /\ phase' = "ended"
       /\ UNCHANGED <<stack, order, inited, down, exc, tasks, pending, emitter>>

Unwind == \/ ShutModule \/ LeaveModules \/ LeaveStore
          \/ LeaveCancelling \/ LeaveCollecting \/ LeaveTasks \/ LeaveEmitter \/ End

Next == \/ EnterComponent \/ SetupFails
        \/ \E s \in BoundedSeq(Modules, Cardinality(Modules)) : ImportModules(s)
        \/ InitModule \/ LoadFails \/ Serve
        \/ \E s \in Sessions : Request(s) \/ Dispatch(s) \/ Emit(s) \/ RunEnds(s)
        \/ Work \/ Interrupted \/ Stopped \/ Unwind

Spec == Init /\ [][Next]_vars

\* The main task goes on whenever it can; a run that is cancelled ends (its task's
\* CancelledError is not swallowed for ever).  Other runs need not end.
FairSpec == /\ Spec /\ WF_vars(Unwind)
            /\ \A s \in Sessions : WF_vars(run[s].state = "cancelled" /\ RunEnds(s))

---------------------------------------------------------------------------
TypeOK ==
  /\ phase \in {"container", "modules", "serving", "unwinding", "ended"}
  /\ stack \in Seq(ToSet(Components) \cup {"modules"}) /\ IsInjective(stack)
  /\ \A q \in {order, inited, down} : q \in Seq(Modules)
  /\ exc \in BOOLEAN /\ swept \in BOOLEAN /\ waiting \subseteq Sessions
  /\ closing \in {"no", "cancelled", "collecting", "closed"}
  /\ run \in [Sessions -> [state : {"none", "running", "cancelled", "done"}, by : Modules \cup {NoModule}]]
  /\ late \in [swept : SUBSET Sessions, closed : SUBSET Sessions]
  /\ pending \in 0..MaxPending /\ emitter \in {"up", "down", "broken"}

\* The emitter goes after everything that emits: unless a message breaks its drain, what
\* the runs emitted has been processed when it is down.  Only a run that a dispatcher
\* starts once the task service has closed can emit to nobody.
NothingUnprocessed == emitter = "down" /\ late.closed = {} => pending = 0

\* A run's runner belongs to a module that has been initialised.
RunnerIsReady ==
  \A s \in Sessions : run[s].state = "running" => run[s].by \in ToSet(inited) /\ inited = order

\* Modules are shut down in the reverse of the order they were initialised in, whichever
\* that was, and all of them if the server served and none raised.
ModulesMirrored ==
  /\ IsPrefix(down, Reverse(inited))
  /\ phase = "ended" /\ ~exc => down = Reverse(inited) /\ Len(inited) = Cardinality(Modules)

\* The lifecycle is well typed, runs find their module ready, and modules go down mirrored.
Inv == TypeOK /\ RunnerIsReady /\ ModulesMirrored

\* Once the runs have been cancelled, because of a signal, an exception of the server or
\* of a module, the server ends, even if its runs would not have ended, unless a
\* dispatcher starts another run meanwhile.
CancelledEnds == swept ~> (phase = "ended" \/ late.swept # {})
=============================================================================
