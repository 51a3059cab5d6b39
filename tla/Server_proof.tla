---------------------------- MODULE Server_proof ----------------------------
(***************************************************************************)
(* Proofs, for any modules, sessions and agent types, that nothing the     *)
(* runs emitted is left in the emitter's queue, that runs find their       *)
(* module initialised, and that modules go down in reverse.  The exit      *)
(* stack is, up to its height, the components in the order they were       *)
(* entered and the modules; so the modules are left first, and the emitter *)
(* only below the task service, which has waited for all of its runs.      *)
(***************************************************************************)
EXTENDS Server, SequenceTheorems, TLAPS

Names == {"event_store", "emitter", "tasks", "users", "agents", "sessions", "modules"}

Stacked == /\ stack \in Seq(Names) /\ Len(stack) <= 7
           /\ \A i \in 1..Len(stack) :
                /\ i = 1 => stack[i] = "event_store"
                /\ i = 2 => stack[i] = "emitter"
                /\ i = 3 => stack[i] = "tasks"
                /\ i = 4 => stack[i] = "users"
                /\ i = 5 => stack[i] = "agents"
                /\ i = 6 => stack[i] = "sessions"
                /\ i = 7 => stack[i] = "modules"

\* The task service is on the stack until it has closed, and it closes before the emitter.
TasksFirst == /\ phase = "modules" => Len(stack) = 6
              /\ closing # "closed" /\ phase \in {"modules", "serving", "unwinding"} => Len(stack) >= 3
              /\ closing # "no" => phase \in {"unwinding", "ended"}
              /\ emitter # "up" => closing = "closed"

\* Once it has closed, no run goes on but those that came late.
Quiet == closing = "closed" /\ late.closed = {} =>
           \A s \in Sessions : run[s].state \notin {"running", "cancelled"}

Types0 == /\ DOMAIN run = Sessions
          /\ pending \in Nat

SInv == Types0 /\ Stacked /\ TasksFirst /\ Quiet /\ NothingUnprocessed

-----------------------------------------------------------------------------
(* The order in which setup_container enters.                               *)
LEMMA Order ==
  /\ Len(Components) = 6
  /\ Components[1] = "event_store" /\ Components[2] = "emitter" /\ Components[3] = "tasks"
  /\ Components[4] = "users" /\ Components[5] = "agents" /\ Components[6] = "sessions"
BY DEF Components

LEMMA Between ==
  ASSUME NEW n \in Nat, n # 0, n <= 7
  PROVE  n \in 1..7
OBVIOUS

(* What is left is what was entered last, and its name tells how high the   *)
(* stack is.                                                                *)
LEMMA Height ==
  ASSUME Stacked, NEW c, Leaving(c)
  PROVE  /\ Len(stack) \in 1..7
         /\ c = "event_store" => Len(stack) = 1
         /\ c = "emitter" => Len(stack) = 2
         /\ c = "tasks" => Len(stack) = 3
         /\ c \in {"users", "agents", "sessions"} => Len(stack) \in 4..6
         /\ c = "modules" => Len(stack) = 7
<1>1. stack # <<>> /\ stack[Len(stack)] = c
  BY DEF Leaving, Last
<1>2. Len(stack) \in 1..7
  <2>1. stack \in Seq(Names) /\ Len(stack) <= 7
    BY DEF Stacked
  <2>2. Len(stack) \in Nat
    BY <2>1, LenProperties
  <2>3. Len(stack) # 0
    BY <1>1, <2>1, EmptySeq
  <2> QED
    BY <2>1, <2>2, <2>3, Between
<1>3. \/ Len(stack) = 1 /\ c = "event_store"
      \/ Len(stack) = 2 /\ c = "emitter"
      \/ Len(stack) = 3 /\ c = "tasks"
      \/ Len(stack) = 4 /\ c = "users"
      \/ Len(stack) = 5 /\ c = "agents"
      \/ Len(stack) = 6 /\ c = "sessions"
      \/ Len(stack) = 7 /\ c = "modules"
  <2>1. PICK n \in 1..7 : n = Len(stack)
    BY <1>2
  <2>2. /\ n = 1 => stack[n] = "event_store"
        /\ n = 2 => stack[n] = "emitter"
        /\ n = 3 => stack[n] = "tasks"
        /\ n = 4 => stack[n] = "users"
        /\ n = 5 => stack[n] = "agents"
        /\ n = 6 => stack[n] = "sessions"
        /\ n = 7 => stack[n] = "modules"
    <3>1. n \in 1..Len(stack)
      BY <2>1
    <3> QED
      BY <3>1 DEF Stacked
  <2>3. n = 1 \/ n = 2 \/ n = 3 \/ n = 4 \/ n = 5 \/ n = 6 \/ n = 7
    BY <2>1
  <2> QED
    BY <1>1, <2>1, <2>2, <2>3
<1> QED
  BY <1>2, <1>3

(* Leaving a component keeps the stack in order.                            *)
LEMMA Lowered ==
  ASSUME Stacked, stack # <<>>, stack' = Front(stack)
  PROVE  Stacked' /\ Len(stack') = Len(stack) - 1
<1>1. Len(stack) \in Nat \ {0} /\ Len(stack) <= 7 /\ stack \in Seq(Names)
  BY DEF Stacked
<1>2. PICK n \in Nat : n = Len(stack) - 1
  BY <1>1
<1>3. stack' = SubSeq(stack, 1, n)
  BY <1>2 DEF Front
<1>4. \A i \in 1..n : stack[i] \in Names
  BY <1>1, <1>2
<1>5. /\ SubSeq(stack, 1, n) \in Seq(Names)
      /\ Len(SubSeq(stack, 1, n)) = IF 1 <= n THEN n - 1 + 1 ELSE 0
      /\ \A i \in 1..(n - 1 + 1) : SubSeq(stack, 1, n)[i] = stack[1 + i - 1]
  BY <1>4, SubSeqProperties
<1>6. stack' \in Seq(Names) /\ Len(stack') = n
  BY <1>2, <1>3, <1>5
<1>7. \A i \in 1..n : stack'[i] = stack[i]
  BY <1>2, <1>3, <1>5
<1>8. \A i \in 1..n : i \in 1..Len(stack)
  BY <1>1, <1>2
<1> QED
  BY <1>1, <1>2, <1>6, <1>7, <1>8 DEF Stacked

(* Entering one puts it at its place.                                       *)
LEMMA Raised ==
  ASSUME Stacked, NEW c \in Names, stack' = Append(stack, c),
         \/ Len(stack) < 6 /\ c = Components[Len(stack) + 1]
         \/ Len(stack) = 6 /\ c = "modules"
  PROVE  Stacked' /\ Len(stack') = Len(stack) + 1
<1>1. Len(stack) \in Nat /\ stack \in Seq(Names)
  BY DEF Stacked
<1>2. PICK n \in Nat : n = Len(stack)
  BY <1>1
<1>3. /\ stack' \in Seq(Names) /\ Len(stack') = n + 1
      /\ stack'[n + 1] = c /\ \A i \in 1..n : stack'[i] = stack[i]
  BY <1>1, <1>2
<1>4. /\ n = 0 => c = "event_store"
      /\ n = 1 => c = "emitter"
      /\ n = 2 => c = "tasks"
      /\ n = 3 => c = "users"
      /\ n = 4 => c = "agents"
      /\ n = 5 => c = "sessions"
      /\ n = 6 => c = "modules"
      /\ n <= 6
  BY <1>2, Order
<1>5. ASSUME NEW i \in 1..(n + 1)
      PROVE  /\ i = 1 => stack'[i] = "event_store"
             /\ i = 2 => stack'[i] = "emitter"
             /\ i = 3 => stack'[i] = "tasks"
             /\ i = 4 => stack'[i] = "users"
             /\ i = 5 => stack'[i] = "agents"
             /\ i = 6 => stack'[i] = "sessions"
             /\ i = 7 => stack'[i] = "modules"
  <2>1. CASE i = n + 1
    <3>1. stack'[i] = c
      BY <1>3, <2>1
    <3>2. \/ i = 1 /\ c = "event_store"
          \/ i = 2 /\ c = "emitter"
          \/ i = 3 /\ c = "tasks"
          \/ i = 4 /\ c = "users"
          \/ i = 5 /\ c = "agents"
          \/ i = 6 /\ c = "sessions"
          \/ i = 7 /\ c = "modules"
      <4>1. n = 0 \/ n = 1 \/ n = 2 \/ n = 3 \/ n = 4 \/ n = 5 \/ n = 6
        BY <1>4
      <4> QED
        BY <1>4, <2>1, <4>1
    <3>3. PICK e : e = stack'[i]
      OBVIOUS
    <3> QED
      BY <3>1, <3>2, <3>3
  <2>2. CASE i \in 1..n
    <3>1. i \in 1..Len(stack) /\ stack'[i] = stack[i]
      BY <1>2, <1>3, <2>2
    <3> QED
      BY <3>1 DEF Stacked
  <2>3. i = n + 1 \/ i \in 1..n
    OBVIOUS
  <2> QED
    BY <2>1, <2>2, <2>3
<1> QED
  BY <1>2, <1>3, <1>4, <1>5 DEF Stacked

-----------------------------------------------------------------------------
LEMMA Initially ==
  ASSUME Init
  PROVE  SInv
<1>1. stack = <<>> /\ stack \in Seq(Names) /\ Len(stack) = 0
  BY DEF Init
<1>2. Stacked
  BY <1>1 DEF Stacked
<1> QED
  BY <1>2 DEF Init, SInv, Types0, TasksFirst, Quiet, NothingUnprocessed

(* The main task up to the unwinding.                                       *)
LEMMA StartSteps ==
  ASSUME SInv, \/ EnterComponent \/ SetupFails \/ InitModule \/ LoadFails \/ Serve
               \/ \E s \in BoundedSeq(Modules, Cardinality(Modules)) : ImportModules(s)
  PROVE  SInv'
<1> USE DEF main, tasks
<1>1. CASE EnterComponent
  <2>1. PICK n \in Nat : n = Len(stack) /\ n < 6
    BY <1>1, Order DEF EnterComponent, SInv, Stacked
  <2>2. n = 0 \/ n = 1 \/ n = 2 \/ n = 3 \/ n = 4 \/ n = 5
    BY <2>1
  <2>3. Components[n + 1] \in Names
    <3>1. \/ Components[n + 1] = Components[1]
          \/ Components[n + 1] = Components[2]
          \/ Components[n + 1] = Components[3]
          \/ Components[n + 1] = Components[4]
          \/ Components[n + 1] = Components[5]
          \/ Components[n + 1] = Components[6]
      <4> HIDE DEF Components
      <4> QED
        BY <2>2
    <3> QED
      BY <3>1, Order DEF Names
  <2>4. Stacked'
    BY <1>1, <2>1, <2>3, Raised DEF EnterComponent, SInv
  <2> QED
    BY <1>1, <2>4 DEF EnterComponent, SInv, Types0, TasksFirst, Quiet, NothingUnprocessed
<1>2. CASE SetupFails
  BY <1>2 DEF SetupFails, SInv, Types0, Stacked, TasksFirst, Quiet, NothingUnprocessed
<1>3. CASE \E s \in BoundedSeq(Modules, Cardinality(Modules)) : ImportModules(s)
  <2>1. /\ UNCHANGED <<stack, inited, down, exc, tasks, pending, emitter>>
        /\ Len(stack) = 6 /\ phase = "container" /\ phase' = "modules"
    BY <1>3, Order DEF ImportModules
  <2>2. closing = "no"
    BY <2>1 DEF SInv, TasksFirst
  <2> QED
    BY <2>1, <2>2 DEF SInv, Types0, Stacked, TasksFirst, Quiet, NothingUnprocessed
<1>4. CASE InitModule
  BY <1>4 DEF InitModule, SInv, Types0, Stacked, TasksFirst, Quiet, NothingUnprocessed
<1>5. CASE LoadFails
  BY <1>5 DEF LoadFails, SInv, Types0, Stacked, TasksFirst, Quiet, NothingUnprocessed
<1>6. CASE Serve
  <2>1. PICK n \in Nat : n = Len(stack) /\ n = 6
    BY <1>6 DEF Serve, SInv, TasksFirst
  <2>2. CASE order = <<>>
    <3>1. stack' = stack
      BY <1>6, <2>2 DEF Serve
    <3> QED
      BY <1>6, <2>1, <3>1 DEF Serve, SInv, Types0, Stacked, TasksFirst, Quiet, NothingUnprocessed
  <2>3. CASE order # <<>>
    <3>1. stack' = Append(stack, "modules")
      BY <1>6, <2>3 DEF Serve
    <3>2. Stacked' /\ Len(stack') = 7
      <4>1. "modules" \in Names
        BY DEF Names
      <4> QED
        BY <2>1, <3>1, <4>1, Raised DEF SInv
    <3> QED
      BY <1>6, <3>2 DEF Serve, SInv, Types0, TasksFirst, Quiet, NothingUnprocessed
  <2> QED
    BY <2>2, <2>3
<1> QED
  BY <1>1, <1>2, <1>3, <1>4, <1>5, <1>6

(* Requests, their runs and the emitter's worker leave the main task alone.  *)
LEMMA RunSteps ==
  ASSUME SInv, \/ \E s \in Sessions : Request(s) \/ Dispatch(s) \/ Emit(s) \/ RunEnds(s)
               \/ Work
  PROVE  SInv'
<1> USE DEF main, tasks
<1>1. ASSUME NEW s \in Sessions, Request(s)
      PROVE  SInv'
  BY <1>1 DEF Request, SInv, Types0, Stacked, TasksFirst, Quiet, NothingUnprocessed
<1>2. ASSUME NEW s \in Sessions, Dispatch(s)
      PROVE  SInv'
  <2>1. /\ UNCHANGED <<main, closing, pending, emitter>>
        /\ DOMAIN run' = DOMAIN run
    BY <1>2 DEF Dispatch
  <2>2. CASE closing = "closed"
    <3>1. s \in late'.closed
      BY <1>2, <2>2 DEF Dispatch
    <3> QED
      BY <2>1, <3>1 DEF SInv, Types0, Stacked, TasksFirst, Quiet, NothingUnprocessed
  <2>3. CASE closing # "closed"
    BY <2>1, <2>3 DEF SInv, Types0, Stacked, TasksFirst, Quiet, NothingUnprocessed
  <2> QED
    BY <2>2, <2>3
<1>3. ASSUME NEW s \in Sessions, Emit(s)
      PROVE  SInv'
  <2>1. /\ UNCHANGED <<main, tasks, emitter>> /\ pending' = pending + 1
        /\ run[s].state \in {"running", "cancelled"}
    BY <1>3 DEF Emit
  <2>2. emitter = "down" /\ late.closed = {} => FALSE
    BY <2>1 DEF SInv, TasksFirst, Quiet
  <2> QED
    BY <2>1, <2>2 DEF SInv, Types0, Stacked, TasksFirst, Quiet, NothingUnprocessed
<1>4. ASSUME NEW s \in Sessions, RunEnds(s)
      PROVE  SInv'
  <2>1. /\ UNCHANGED <<main, closing, late, pending, emitter>>
        /\ DOMAIN run' = DOMAIN run
        /\ \A t \in DOMAIN run : t # s => run'[t] = run[t]
    BY <1>4 DEF RunEnds
  <2>2. run[s].state \in {"running", "cancelled"}
    BY <1>4 DEF RunEnds
  <2>3. Quiet'
    BY <2>1, <2>2 DEF SInv, Types0, Quiet
  <2> QED
    BY <2>1, <2>3 DEF SInv, Types0, Stacked, TasksFirst, NothingUnprocessed
<1>5. CASE Work
  <2>1. /\ UNCHANGED <<main, tasks, emitter>> /\ emitter = "up" /\ pending' = pending - 1
        /\ pending > 0
    BY <1>5 DEF Work
  <2> QED
    BY <2>1 DEF SInv, Types0, Stacked, TasksFirst, Quiet, NothingUnprocessed
<1> QED
  BY <1>1, <1>2, <1>3, <1>4, <1>5

(* The server is interrupted, returns or raises; then no module, and no     *)
(* component, has been left.                                                *)
LEMMA StopSteps ==
  ASSUME SInv, Interrupted \/ Stopped
  PROVE  SInv'
<1> USE DEF main, tasks
<1>1. CASE Interrupted
  <2>1. /\ UNCHANGED <<stack, closing, late, pending, emitter>>
        /\ phase = "serving" /\ phase' = "unwinding" /\ DOMAIN run' = Sessions
    BY <1>1 DEF Interrupted, CancelAll
  <2>2. closing = "no"
    BY <2>1 DEF SInv, TasksFirst
  <2> QED
    BY <2>1, <2>2 DEF SInv, Types0, Stacked, TasksFirst, Quiet, NothingUnprocessed
<1>2. CASE Stopped
  BY <1>2 DEF Stopped, SInv, Types0, Stacked, TasksFirst, Quiet, NothingUnprocessed
<1> QED
  BY <1>1, <1>2

(* Unwinding: the emitter is left at height 2, below the task service.      *)
LEMMA UnwindSteps ==
  ASSUME SInv, Unwind
  PROVE  SInv'
<1> USE DEF main, tasks
<1>1. CASE ShutModule
  BY <1>1 DEF ShutModule, SInv, Types0, Stacked, TasksFirst, Quiet, NothingUnprocessed
<1>2. CASE LeaveModules
  <2>1. /\ UNCHANGED <<phase, tasks, pending, emitter>> /\ phase = "unwinding"
        /\ stack # <<>> /\ stack' = Front(stack) /\ Leaving("modules")
    BY <1>2 DEF LeaveModules, Leaving
  <2>2. Len(stack) = 7 /\ Stacked' /\ Len(stack') = Len(stack) - 1
    BY <2>1, Height, Lowered DEF SInv
  <2> QED
    BY <2>1, <2>2 DEF SInv, Types0, TasksFirst, Quiet, NothingUnprocessed
<1>3. CASE LeaveStore
  <2>1. PICK c \in {"users", "agents", "sessions", "event_store"} : Leaving(c)
    BY <1>3 DEF LeaveStore
  <2>2. /\ UNCHANGED <<phase, tasks, pending, emitter>> /\ phase = "unwinding"
        /\ stack # <<>> /\ stack' = Front(stack)
    BY <1>3 DEF LeaveStore, Leaving
  <2>3. Stacked' /\ Len(stack) \in Nat /\ Len(stack') = Len(stack) - 1
    BY <2>1, <2>2, Height, Lowered DEF SInv
  <2>4. CASE c = "event_store"
    <3>1. Len(stack) = 1
      BY <2>1, <2>4, Height DEF SInv
    <3>2. closing = "closed"
      BY <2>2, <3>1 DEF SInv, TasksFirst
    <3> QED
      BY <2>2, <2>3, <3>2 DEF SInv, Types0, TasksFirst, Quiet, NothingUnprocessed
  <2>5. CASE c # "event_store"
    <3>1. Len(stack) \in 4..6
      BY <2>1, <2>5, Height DEF SInv
    <3> QED
      BY <2>2, <2>3, <3>1 DEF SInv, Types0, TasksFirst, Quiet, NothingUnprocessed
  <2> QED
    BY <2>4, <2>5
<1>4. CASE LeaveCancelling
  <2>1. /\ UNCHANGED <<main, late, pending, emitter>> /\ phase = "unwinding"
        /\ closing = "no" /\ closing' = "cancelled" /\ DOMAIN run' = Sessions
    BY <1>4 DEF LeaveCancelling, CancelAll, Leaving
  <2> QED
    BY <2>1 DEF SInv, Types0, Stacked, TasksFirst, Quiet, NothingUnprocessed
<1>5. CASE LeaveCollecting
  <2>1. /\ UNCHANGED <<main, run, late, pending, emitter>> /\ phase = "unwinding"
        /\ closing \in {"no", "cancelled"} /\ closing' = "collecting"
    BY <1>5 DEF LeaveCollecting, Leaving
  <2> QED
    BY <2>1 DEF SInv, Types0, Stacked, TasksFirst, Quiet, NothingUnprocessed
<1>6. CASE LeaveTasks
  <2>1. /\ UNCHANGED <<phase, run, late, pending, emitter>> /\ phase = "unwinding"
        /\ stack # <<>> /\ stack' = Front(stack) /\ closing' = "closed"
        /\ closing = "collecting"
        /\ \A s \in Sessions : run[s].state \notin {"running", "cancelled"}
    BY <1>6 DEF LeaveTasks, Leaving
  <2>2. Stacked'
    BY <2>1, Lowered DEF SInv
  <2> QED
    BY <2>1, <2>2 DEF SInv, Types0, TasksFirst, Quiet, NothingUnprocessed
<1>7. CASE LeaveEmitter
  <2>1. /\ UNCHANGED <<phase, tasks>> /\ phase = "unwinding"
        /\ stack # <<>> /\ stack' = Front(stack) /\ Leaving("emitter")
    BY <1>7 DEF LeaveEmitter, Leaving
  <2>2. Len(stack) = 2 /\ Stacked' /\ Len(stack') = Len(stack) - 1
    BY <2>1, Height, Lowered DEF SInv
  <2>3. closing = "closed"
    BY <2>1, <2>2 DEF SInv, TasksFirst
  <2>4. /\ pending' \in Nat
        /\ emitter' = "down" => pending' = 0
    BY <1>7 DEF LeaveEmitter, SInv, Types0
  <2> QED
    BY <2>1, <2>2, <2>3, <2>4 DEF SInv, Types0, TasksFirst, Quiet, NothingUnprocessed
<1>8. CASE End
  <2>1. /\ UNCHANGED <<stack, tasks, pending, emitter>> /\ phase' = "ended"
    BY <1>8 DEF End
  <2> QED
    BY <2>1 DEF SInv, Types0, Stacked, TasksFirst, Quiet, NothingUnprocessed
<1> QED
  BY <1>1, <1>2, <1>3, <1>4, <1>5, <1>6, <1>7, <1>8 DEF Unwind

LEMMA Preserved ==
  ASSUME SInv, [Next]_vars
  PROVE  SInv'
<1>1. CASE Next
  BY <1>1, StartSteps, RunSteps, StopSteps, UnwindSteps DEF Next
<1>2. CASE UNCHANGED vars
  BY <1>2 DEF vars, main, tasks, SInv, Types0, Stacked, TasksFirst, Quiet, NothingUnprocessed
<1> QED
  BY <1>1, <1>2

-----------------------------------------------------------------------------
(* When the emitter is down after a drain that no message broke, and no run *)
(* has begun after the task service had closed, everything the runs emitted *)
(* has been processed: the exit stack leaves the emitter (main.py:66) only   *)
(* after the task service (main.py:71) has waited for its tasks.            *)
THEOREM DrainedBeforeDown == Spec => []NothingUnprocessed
<1>1. Init => SInv
  BY Initially
<1>2. SInv /\ [Next]_vars => SInv'
  BY Preserved
<1>3. SInv => NothingUnprocessed
  BY DEF SInv
<1> QED
  BY <1>1, <1>2, <1>3, PTL DEF Spec
-----------------------------------------------------------------------------
(* Types, runners and the order of the modules.                             *)
\* TypeOK, but for the stack: Stacked says more of it.
Typed ==
  /\ phase \in {"container", "modules", "serving", "unwinding", "ended"}
  /\ order \in Seq(Modules) /\ inited \in Seq(Modules) /\ down \in Seq(Modules)
  /\ exc \in BOOLEAN /\ swept \in BOOLEAN /\ waiting \subseteq Sessions
  /\ closing \in {"no", "cancelled", "collecting", "closed"}
  /\ run \in [Sessions -> [state : {"none", "running", "cancelled", "done"}, by : Modules \cup {NoModule}]]
  /\ late \in [swept : SUBSET Sessions, closed : SUBSET Sessions]
  /\ pending \in 0..MaxPending /\ emitter \in {"up", "down", "broken"}

\* The modules are initialised in the order of their import, all of them before the server
\* serves; only then are they put on the stack, and requests taken.
Loaded ==
  /\ phase = "container" => order = <<>> /\ inited = <<>>
  /\ phase = "modules" => Len(inited) <= Len(order) /\ \A i \in 1..Len(inited) : inited[i] = order[i]
  /\ phase = "serving" => inited = order /\ (order = <<>> \/ Len(stack) = 7)
  /\ phase \in {"modules", "serving"} => Len(order) = Cardinality(Modules)
  /\ Len(stack) = 7 => inited = order /\ phase \in {"serving", "unwinding"}
  /\ phase \in {"container", "modules"} =>
       waiting = {} /\ \A s \in Sessions : run[s].state = "none"
  /\ waiting # {} => inited = order
  /\ \A s \in Sessions : /\ run[s].state # "none" => inited = order
                         /\ run[s].state = "running" => run[s].by \in ToSet(inited)

\* They are shut down in the reverse order, all of them unless there is an exception.
Unloaded ==
  /\ phase \in {"container", "modules", "serving"} => down = <<>>
  /\ Len(down) <= Len(inited)
  /\ \A i \in 1..Len(down) : down[i] = inited[Len(inited) - i + 1]
  /\ phase \in {"unwinding", "ended"} /\ ~exc =>
       /\ inited = order /\ Len(order) = Cardinality(Modules)
       /\ Len(stack) = 7 \/ Len(down) = Len(inited)

MInv == SInv /\ Typed /\ Loaded /\ Unloaded
LEMMA Below ==
  ASSUME NEW n \in Nat, n <= 6
  PROVE  n # 7 /\ n - 1 # 7 /\ (n < 6 => n + 1 # 7)
OBVIOUS

LEMMA MInvInitially ==
  ASSUME Init
  PROVE  MInv
<1>1. SInv
  BY Initially
<1>2. Len(<<>>) = 0 /\ 1..0 = {} /\ <<>> \in Seq(Modules)
  OBVIOUS
<1>3. Typed
  <2>1. pending \in 0..MaxPending
    BY MaxPendingNat DEF Init
  <2>2. /\ order \in Seq(Modules) /\ inited \in Seq(Modules) /\ down \in Seq(Modules)
        /\ run \in [Sessions -> [state : {"none", "running", "cancelled", "done"}, by : Modules \cup {NoModule}]]
        /\ late \in [swept : SUBSET Sessions, closed : SUBSET Sessions]
    BY DEF Init
  <2> QED
    BY <2>1, <2>2 DEF Init, Typed
<1>4. Loaded /\ Unloaded
  <2>1. Len(stack) = 0 /\ \A s \in Sessions : run[s].state = "none"
    BY <1>2 DEF Init
  <2> QED
    BY <1>2, <2>1 DEF Init, Loaded, Unloaded
<1> QED
  BY <1>1, <1>3, <1>4 DEF MInv

(* Lengths, and how high the stack is.                                      *)
LEMMA Sizes ==
  ASSUME MInv
  PROVE  /\ Len(order) \in Nat /\ Len(inited) \in Nat /\ Len(down) \in Nat
         /\ Len(stack) \in Nat /\ Len(stack) <= 7
         /\ \A i \in 1..Len(order) : order[i] \in Modules
         /\ \A i \in 1..Len(inited) : inited[i] \in Modules
         /\ DOMAIN inited = 1..Len(inited)
         /\ phase = "modules" => Len(stack) = 6
BY LenProperties, ElementOfSeq DEF MInv, Typed, SInv, Stacked, TasksFirst

LEMMA StartsLoaded ==
  ASSUME MInv, \/ EnterComponent \/ SetupFails \/ InitModule \/ LoadFails \/ Serve
               \/ \E s \in BoundedSeq(Modules, Cardinality(Modules)) : ImportModules(s)
  PROVE  Typed' /\ Loaded' /\ Unloaded'
<1> USE DEF main, tasks
<1>0. /\ Len(order) \in Nat /\ Len(inited) \in Nat /\ Len(down) \in Nat /\ Len(stack) \in Nat
      /\ \A i \in 1..Len(order) : order[i] \in Modules
      /\ phase = "modules" => Len(stack) = 6
      /\ Typed /\ Loaded /\ Unloaded
  BY Sizes DEF MInv
<1>1. CASE EnterComponent
  <2>1. /\ phase = "container" /\ Len(stack) < 6 /\ stack' = Append(stack, Components[Len(stack) + 1])
        /\ UNCHANGED <<phase, order, inited, down, exc, tasks, pending, emitter>>
    BY <1>1, Order DEF EnterComponent
  <2>2. Len(stack') = Len(stack) + 1
    BY <2>1, AppendProperties DEF MInv, SInv, Stacked
  <2>3. Len(stack') # 7 /\ Len(stack) # 7
    <3>1. PICK n \in Nat : n = Len(stack) /\ n < 6 /\ n <= 6
      BY <1>0, <2>1
    <3> QED
      BY <2>2, <3>1, Below
  <2>4. Typed' /\ Unloaded'
    BY <1>0, <2>1 DEF Typed, Unloaded
  <2>5. Loaded'
    BY <1>0, <2>1, <2>3 DEF Loaded
  <2> QED
    BY <2>4, <2>5
<1>2. CASE SetupFails
  <2>1. Len(stack) # 7 /\ phase = "container"
    <3>1. Len(stack) = 0 \/ Len(stack) = 6
      BY <1>2, Order DEF SetupFails
    <3>2. 0 # 7 /\ 6 # 7
      BY Below
    <3> QED
      BY <1>2, <3>1, <3>2 DEF SetupFails
  <2> QED
    BY <1>0, <1>2, <2>1 DEF SetupFails, Typed, Loaded, Unloaded
<1>3. CASE \E s \in BoundedSeq(Modules, Cardinality(Modules)) : ImportModules(s)
  <2>1. PICK s : s \in BoundedSeq(Modules, Cardinality(Modules)) /\ ImportModules(s)
    BY <1>3
  <2>2. s \in Seq(Modules)
    <3>1. PICK m \in 0..Cardinality(Modules) : s \in [1..m -> Modules]
      BY <2>1 DEF BoundedSeq, SeqOf
    <3>2. m \in Nat
      OBVIOUS
    <3> QED
      BY <3>1, <3>2
  <2>3. /\ phase = "container" /\ phase' = "modules" /\ order' = s /\ Len(s) = Cardinality(Modules)
        /\ Len(stack) = 6
        /\ UNCHANGED <<stack, inited, down, exc, tasks, pending, emitter>>
    BY <2>1, Order DEF ImportModules
  <2>4. inited = <<>> /\ Len(inited) = 0
    BY <1>0, <2>3 DEF Loaded
  <2>5. Len(s) \in Nat
    BY <2>2, LenProperties
  <2>6. Typed'
    BY <1>0, <2>2, <2>3 DEF Typed
  <2>7. Unloaded'
    <3>1. down = <<>> /\ down' = <<>> /\ Len(down) = 0
      BY <1>0, <2>3 DEF Unloaded
    <3>2. phase' = "modules" /\ Len(down') = 0 /\ 0 <= Len(inited') /\ 1..0 = {}
      BY <1>0, <2>3, <3>1
    <3> QED
      BY <3>1, <3>2 DEF Unloaded
  <2>8. Loaded'
    <3>1. phase' = "modules" /\ Len(order') = Cardinality(Modules)
      BY <2>3
    <3>2. Len(stack') = 6 /\ 6 # 7
      BY <2>3, Below
    <3>3. waiting' = {} /\ \A q \in Sessions : run'[q].state = "none"
      BY <1>0, <2>3 DEF Loaded
    <3>4. Len(inited') = 0 /\ 0 <= Len(order') /\ 1..0 = {}
      BY <2>3, <2>4, <2>5
    <3> QED
      BY <3>1, <3>2, <3>3, <3>4 DEF Loaded
  <2> QED
    BY <2>6, <2>7, <2>8
<1>4. CASE InitModule
  <2>1. /\ phase = "modules" /\ Len(inited) < Len(order) /\ Len(stack) = 6
        /\ inited' = Append(inited, order[Len(inited) + 1])
        /\ UNCHANGED <<phase, stack, order, down, exc, tasks, pending, emitter>>
    BY <1>0, <1>4 DEF InitModule
  <2>2. PICK n \in Nat : n = Len(inited)
    BY <1>0
  <2>3. n + 1 \in 1..Len(order) /\ order[n + 1] \in Modules
    BY <1>0, <2>1, <2>2
  <2>4. /\ inited' \in Seq(Modules) /\ Len(inited') = n + 1
        /\ inited'[n + 1] = order[n + 1]
        /\ \A i \in 1..n : inited'[i] = inited[i]
    BY <1>0, <2>1, <2>2, <2>3, AppendProperties DEF Typed
  <2>5. down = <<>> /\ Len(down) = 0
    BY <1>0, <2>1 DEF Unloaded
  <2>6. \A i \in 1..(n + 1) : inited'[i] = order[i]
    <3>1. \A i \in 1..(n + 1) : i \in 1..n \/ i = n + 1
      OBVIOUS
    <3> QED
      BY <1>0, <2>1, <2>2, <2>4, <3>1 DEF Loaded
  <2>7. n + 1 <= Len(order)
    BY <1>0, <2>1, <2>2
  <2>8. Typed' /\ Unloaded'
    BY <1>0, <2>1, <2>4, <2>5 DEF Typed, Unloaded
  <2>9. Loaded'
    BY <1>0, <2>1, <2>4, <2>6, <2>7 DEF Loaded
  <2> QED
    BY <2>8, <2>9
<1>5. CASE LoadFails
  BY <1>0, <1>5 DEF LoadFails, Typed, Loaded, Unloaded
<1>6. CASE Serve
  <2>1. /\ phase = "modules" /\ inited = order /\ phase' = "serving" /\ Len(stack) = 6
        /\ UNCHANGED <<order, inited, down, exc, tasks, pending, emitter>>
        /\ stack' = IF order = <<>> THEN stack ELSE Append(stack, "modules")
    BY <1>0, <1>6 DEF Serve
  <2>2. order # <<>> => Len(stack') = 7
    <3>1. "modules" \in Names
      BY DEF Names
    <3> QED
      BY <1>0, <2>1, <3>1, Raised DEF MInv, SInv
  <2> QED
    BY <1>0, <2>1, <2>2 DEF Typed, Loaded, Unloaded
<1> QED
  BY <1>1, <1>2, <1>3, <1>4, <1>5, <1>6

(* Requests are served once every module has been initialised; so a run's   *)
(* runner is that of one that has.                                          *)
LEMMA RunsLoaded ==
  ASSUME MInv, \/ \E s \in Sessions : Request(s) \/ Dispatch(s) \/ Emit(s) \/ RunEnds(s)
               \/ Work \/ Interrupted \/ Stopped
  PROVE  Typed' /\ Loaded' /\ Unloaded'
<1> USE DEF main, tasks
<1>0. /\ Len(order) \in Nat /\ Len(inited) \in Nat /\ DOMAIN inited = 1..Len(inited)
      /\ \A i \in 1..Len(inited) : inited[i] \in Modules
      /\ Typed /\ Loaded /\ Unloaded
  BY Sizes DEF MInv
<1>1. ASSUME NEW s \in Sessions, Request(s)
      PROVE  Typed' /\ Loaded' /\ Unloaded'
  BY <1>0, <1>1 DEF Request, Typed, Loaded, Unloaded
<1>2. ASSUME NEW s \in Sessions, Dispatch(s)
      PROVE  Typed' /\ Loaded' /\ Unloaded'
  <2>1. /\ UNCHANGED <<main, closing, swept, pending, emitter>>
        /\ s \in waiting /\ waiting' = waiting \ {s}
        /\ late' \in [swept : SUBSET Sessions, closed : SUBSET Sessions]
    BY <1>0, <1>2 DEF Dispatch, Typed
  <2>2. inited = order /\ phase \notin {"container", "modules"}
    BY <1>0, <2>1 DEF Loaded
  <2>3. PICK d \in [state : {"running", "done"}, by : Modules \cup {NoModule}] :
          /\ run' = [run EXCEPT ![s] = d]
          /\ d.state = "running" => d.by \in ToSet(inited)
    <3>1. CASE Runners(s) = {}
      <4>1. run' = [run EXCEPT ![s] = [state |-> "done", by |-> NoModule]]
        BY <1>2, <3>1 DEF Dispatch
      <4>2. [state |-> "done", by |-> NoModule] \in [state : {"running", "done"}, by : Modules \cup {NoModule}]
        OBVIOUS
      <4> QED
        BY <4>1, <4>2
    <3>2. CASE Runners(s) # {}
      <4>1. PICK m \in ToSet(inited) :
              run' = [run EXCEPT ![s] = [state |-> "running", by |-> m]]
        BY <1>2, <3>2 DEF Dispatch, Runners
      <4>2. m \in Modules
        BY <1>0 DEF ToSet
      <4>3. [state |-> "running", by |-> m] \in [state : {"running", "done"}, by : Modules \cup {NoModule}]
        BY <4>2
      <4> QED
        BY <4>1, <4>2, <4>3
    <3> QED
      BY <3>1, <3>2
  <2>4. /\ run' \in [Sessions -> [state : {"none", "running", "cancelled", "done"}, by : Modules \cup {NoModule}]]
        /\ \A t \in Sessions : run'[t] = IF t = s THEN d ELSE run[t]
    BY <1>0, <2>3 DEF Typed
  <2>5. Typed' /\ Unloaded'
    BY <1>0, <2>1, <2>4 DEF Typed, Unloaded
  <2>6. Loaded'
    BY <1>0, <2>1, <2>2, <2>3, <2>4 DEF Loaded
  <2> QED
    BY <2>5, <2>6
<1>3. ASSUME NEW s \in Sessions, Emit(s)
      PROVE  Typed' /\ Loaded' /\ Unloaded'
  <2>1. /\ UNCHANGED <<main, tasks, emitter>> /\ pending' \in 0..MaxPending
    BY <1>0, <1>3, MaxPendingNat DEF Emit, Typed
  <2> QED
    BY <1>0, <2>1 DEF Typed, Loaded, Unloaded
<1>4. ASSUME NEW s \in Sessions, RunEnds(s)
      PROVE  Typed' /\ Loaded' /\ Unloaded'
  <2>1. /\ UNCHANGED <<main, closing, swept, waiting, late, pending, emitter>>
        /\ run[s].state # "none"
    BY <1>4 DEF RunEnds
  <2>2. /\ run' \in [Sessions -> [state : {"none", "running", "cancelled", "done"}, by : Modules \cup {NoModule}]]
        /\ \A t \in Sessions : t # s => run'[t] = run[t]
        /\ run'[s].state = "done"
    BY <1>0, <1>4 DEF RunEnds, Typed
  <2>3. Typed' /\ Unloaded'
    BY <1>0, <2>1, <2>2 DEF Typed, Unloaded
  <2>4. Loaded'
    BY <1>0, <2>1, <2>2 DEF Loaded
  <2> QED
    BY <2>3, <2>4
<1>5. CASE Work
  <2>1. UNCHANGED <<main, tasks, emitter>> /\ pending' \in 0..MaxPending
    BY <1>0, <1>5, MaxPendingNat DEF Work, Typed
  <2> QED
    BY <1>0, <2>1 DEF Typed, Loaded, Unloaded
<1>6. CASE Interrupted
  <2>1. /\ phase = "serving" /\ phase' = "unwinding" /\ CancelAll
        /\ UNCHANGED <<stack, order, inited, down, exc, closing, waiting, late, pending, emitter>>
    BY <1>6 DEF Interrupted
  <2>2. Typed' /\ \A s \in Sessions : run'[s].state = "running" => FALSE
    BY <1>0, <2>1 DEF CancelAll, Typed
  <2>3. Loaded'
    BY <1>0, <2>1, <2>2 DEF Loaded
  <2>4. Unloaded'
    BY <1>0, <2>1 DEF Loaded, Unloaded
  <2> QED
    BY <2>2, <2>3, <2>4
<1>7. CASE Stopped
  BY <1>0, <1>7 DEF Stopped, Typed, Loaded, Unloaded
<1> QED
  BY <1>1, <1>2, <1>3, <1>4, <1>5, <1>6, <1>7

(* The modules are the first to leave, last initialised first.              *)
LEMMA UnwindsLoaded ==
  ASSUME MInv, Unwind
  PROVE  Typed' /\ Loaded' /\ Unloaded'
<1> USE DEF main, tasks
<1>0. /\ Len(order) \in Nat /\ Len(inited) \in Nat /\ Len(down) \in Nat /\ Len(stack) \in Nat
      /\ \A i \in 1..Len(order) : order[i] \in Modules
      /\ Typed /\ Loaded /\ Unloaded /\ SInv /\ Stacked
  BY Sizes DEF MInv, SInv
<1>1. CASE ShutModule
  <2>1. /\ Leaving("modules") /\ phase = "unwinding" /\ Len(down) < Len(order)
        /\ down' = Append(down, order[Len(order) - Len(down)])
        /\ UNCHANGED <<phase, stack, order, inited, exc, tasks, pending, emitter>>
    BY <1>1 DEF ShutModule, Leaving, NextDown
  <2>2. Len(stack) = 7 /\ inited = order
    BY <1>0, <2>1, Height DEF Loaded
  <2>3. PICK n \in Nat : n = Len(down)
    BY <1>0
  <2>4. Len(order) - n \in 1..Len(order) /\ Len(inited) - (n + 1) + 1 = Len(order) - n /\ n + 1 <= Len(inited)
    BY <1>0, <2>1, <2>2, <2>3
  <2>5. /\ down' \in Seq(Modules) /\ Len(down') = n + 1
        /\ down'[n + 1] = inited[Len(inited) - (n + 1) + 1]
        /\ \A i \in 1..n : down'[i] = down[i]
    BY <1>0, <2>1, <2>2, <2>3, <2>4, AppendProperties DEF Typed
  <2>6. \A i \in 1..(n + 1) : down'[i] = inited[Len(inited) - i + 1]
    <3>1. \A i \in 1..(n + 1) : i \in 1..n \/ i = n + 1
      OBVIOUS
    <3> QED
      BY <1>0, <2>3, <2>5, <3>1 DEF Unloaded
  <2>7. Typed' /\ Loaded'
    BY <1>0, <2>1, <2>5 DEF Typed, Loaded
  <2>8. Unloaded'
    BY <1>0, <2>1, <2>2, <2>4, <2>5, <2>6 DEF Unloaded
  <2> QED
    BY <2>7, <2>8
<1>2. CASE LeaveModules
  <2>1. /\ Leaving("modules") /\ phase = "unwinding" /\ stack' = Front(stack) /\ stack # <<>>
        /\ exc' = (exc \/ Len(down) < Len(order))
        /\ UNCHANGED <<phase, order, inited, down, tasks, pending, emitter>>
    BY <1>2 DEF LeaveModules, Leaving
  <2>2. Len(stack) = 7 /\ inited = order /\ Len(stack') = 6
    <3>1. Len(stack) = 7
      BY <1>0, <2>1, Height
    <3>2. Len(stack') = Len(stack) - 1
      BY <1>0, <2>1, Lowered
    <3> QED
      BY <1>0, <3>1, <3>2 DEF Loaded
  <2>3. ~exc' => ~exc /\ Len(down) = Len(inited)
    <3>1. Len(down) <= Len(inited) /\ ~(Len(down) < Len(inited)) => Len(down) = Len(inited)
      BY <1>0
    <3> QED
      BY <1>0, <2>1, <2>2, <3>1, Zenon DEF Unloaded
  <2>4. exc' \in BOOLEAN
    BY <2>1
  <2>5. Typed' /\ Loaded'
    BY <1>0, <2>1, <2>2, <2>4 DEF Typed, Loaded
  <2>6. Unloaded'
    BY <1>0, <2>1, <2>2, <2>3 DEF Unloaded
  <2> QED
    BY <2>5, <2>6
<1>3. CASE LeaveStore \/ LeaveTasks \/ LeaveEmitter
  <2>1. PICK c \in {"users", "agents", "sessions", "event_store", "tasks", "emitter"} : Leaving(c)
    BY <1>3 DEF LeaveStore, LeaveTasks, LeaveEmitter
  <2>2. /\ phase = "unwinding" /\ stack' = Front(stack) /\ stack # <<>>
        /\ UNCHANGED <<phase, order, inited, down, exc, swept, waiting, run, late>>
        /\ closing' \in {"no", "cancelled", "collecting", "closed"}
        /\ pending' \in 0..MaxPending /\ emitter' \in {"up", "down", "broken"}
    BY <1>0, <1>3, MaxPendingNat DEF LeaveStore, LeaveTasks, LeaveEmitter, Leaving, Typed
  <2>3. Len(stack) # 7 /\ Len(stack') # 7
    <3>1. /\ c = "event_store" => Len(stack) = 1
          /\ c = "emitter" => Len(stack) = 2
          /\ c = "tasks" => Len(stack) = 3
          /\ c \in {"users", "agents", "sessions"} => Len(stack) \in 4..6
      BY <1>0, <2>1, Height
    <3>2. PICK n \in 1..6 : n = Len(stack)
      <4>1. Len(stack) = 1 \/ Len(stack) = 2 \/ Len(stack) = 3 \/ Len(stack) \in 4..6
        BY <2>1, <3>1, Zenon
      <4>2. {1, 2, 3} \cup 4..6 \subseteq 1..6
        OBVIOUS
      <4> QED
        BY <4>1, <4>2
    <3>3. Len(stack') = n - 1
      BY <1>0, <2>2, <3>2, Lowered
    <3>4. n \in Nat /\ n <= 6
      OBVIOUS
    <3> QED
      BY <3>2, <3>3, <3>4, Below
  <2> QED
    BY <1>0, <2>2, <2>3 DEF Typed, Loaded, Unloaded
<1>4. CASE LeaveCancelling
  <2>1. /\ phase = "unwinding" /\ CancelAll /\ closing' = "cancelled"
        /\ UNCHANGED <<main, waiting, late, pending, emitter>>
    BY <1>4 DEF LeaveCancelling, Leaving
  <2>2. /\ Typed'
        /\ \A s \in Sessions : /\ run'[s].state # "running"
                               /\ run'[s].state # "none" => run[s].state # "none"
    BY <1>0, <2>1 DEF CancelAll, Typed
  <2>3. Loaded' /\ Unloaded'
    BY <1>0, <2>1, <2>2 DEF Loaded, Unloaded
  <2> QED
    BY <2>2, <2>3
<1>5. CASE LeaveCollecting
  BY <1>0, <1>5 DEF LeaveCollecting, Typed, Loaded, Unloaded
<1>6. CASE End
  <2>1. Len(stack) = 0
    BY <1>6 DEF End
  <2> QED
    BY <1>0, <1>6, <2>1 DEF End, Typed, Loaded, Unloaded
<1> QED
  BY <1>1, <1>2, <1>3, <1>4, <1>5, <1>6 DEF Unwind

LEMMA MInvPreserved ==
  ASSUME MInv, [Next]_vars
  PROVE  MInv'
<1>1. SInv'
  BY Preserved DEF MInv
<1>2. CASE Next
  BY <1>1, <1>2, StartsLoaded, RunsLoaded, UnwindsLoaded DEF MInv, Next
<1>3. CASE UNCHANGED vars
  BY <1>1, <1>3 DEF vars, main, tasks, MInv, Typed, Loaded, Unloaded
<1> QED
  BY <1>2, <1>3

-----------------------------------------------------------------------------
(* The stack, by its heights, is one of components, none of them twice.     *)
LEMMA StackType ==
  ASSUME Stacked
  PROVE  stack \in Seq(ToSet(Components) \cup {"modules"}) /\ IsInjective(stack)
<1>1. Names \subseteq ToSet(Components) \cup {"modules"}
  <2>1. DOMAIN Components = 1..6
    BY DEF Components
  <2> HIDE DEF Components
  <2> QED
    BY <2>1, Order DEF Names, ToSet
<1>2. stack \in Seq(ToSet(Components) \cup {"modules"})
  <2> HIDE DEF Components
  <2>1. Seq(Names) \subseteq Seq(ToSet(Components) \cup {"modules"})
    BY <1>1, SeqMonotonic
  <2> QED
    BY <2>1 DEF Stacked
<1>3. Len(stack) \in Nat /\ Len(stack) <= 7 /\ DOMAIN stack = 1..Len(stack)
  BY LenProperties DEF Stacked
<1>4. ASSUME NEW i \in 1..Len(stack), NEW j \in 1..Len(stack), stack[i] = stack[j]
      PROVE  i = j
  <2>1. PICK m \in 1..7, n \in 1..7 : m = i /\ n = j
    BY <1>3
  <2>2. m = 1 \/ m = 2 \/ m = 3 \/ m = 4 \/ m = 5 \/ m = 6 \/ m = 7
    OBVIOUS
  <2>3. n = 1 \/ n = 2 \/ n = 3 \/ n = 4 \/ n = 5 \/ n = 6 \/ n = 7
    OBVIOUS
  <2>4. PICK x : x = stack[i]
    OBVIOUS
  <2> QED
    BY <1>4, <2>1, <2>2, <2>3, <2>4 DEF Stacked
<1> QED
  BY <1>2, <1>3, <1>4 DEF IsInjective

LEMMA Mirrored ==
  ASSUME MInv
  PROVE  ModulesMirrored
<1> DEFINE n == Len(down)
           mirror == Reverse(inited)
<1>1. /\ n \in Nat /\ Len(inited) \in Nat /\ n <= Len(inited)
      /\ down \in Seq(Modules) /\ inited \in Seq(Modules)
      /\ \A i \in 1..n : down[i] = inited[Len(inited) - i + 1]
      /\ \A i \in 1..Len(inited) : inited[i] \in Modules
  BY Sizes DEF MInv, Typed, Unloaded
<1>2. /\ mirror \in Seq(Modules) /\ Len(mirror) = Len(inited)
      /\ \A i \in 1..Len(inited) : mirror[i] = inited[Len(inited) - i + 1]
  <2>1. \A i \in 1..Len(inited) : Len(inited) - i + 1 \in 1..Len(inited)
    BY <1>1
  <2>2. mirror \in [1..Len(inited) -> Modules]
    BY <1>1, <2>1 DEF Reverse
  <2> QED
    BY <1>1, <2>2 DEF Reverse
<1> HIDE DEF mirror
<1>3. \A i \in 1..n : i \in 1..Len(inited) /\ down[i] = mirror[i]
  BY <1>1, <1>2
<1>4. IsPrefix(down, mirror)
  <2>1. SubSeq(down, 1, n) = SubSeq(mirror, 1, n)
    BY <1>1, <1>2, <1>3
  <2> QED
    BY <1>1, <1>2, <2>1 DEF IsPrefix
<1>5. ASSUME phase = "ended", ~exc
      PROVE  down = mirror /\ Len(inited) = Cardinality(Modules)
  <2>1. inited = order /\ Len(order) = Cardinality(Modules) /\ n = Len(inited)
    BY <1>5 DEF MInv, Loaded, Unloaded
  <2>2. down = mirror
    BY <1>1, <1>2, <1>3, <2>1, SeqEqual
  <2> QED
    BY <2>1, <2>2
<1> QED
  BY <1>4, <1>5 DEF ModulesMirrored, mirror

(* The lifecycle is well typed.  A run's runner is of a module that has been *)
(* initialised, after which nothing is: requests are only taken once        *)
(* load_modules has gone through init_module of all (main.py:116-118).  And *)
(* modules are shut down in the reverse order (123), all of them if the     *)
(* server served and none of them raised.                                   *)
THEOREM Lifecycle == Spec => []Inv
<1>1. Init => MInv
  BY MInvInitially
<1>2. MInv /\ [Next]_vars => MInv'
  BY MInvPreserved
<1>3. MInv => Inv
  <2>1. MInv => RunnerIsReady
    BY DEF MInv, Loaded, RunnerIsReady
  <2>2. MInv => TypeOK
    BY StackType DEF MInv, SInv, Typed, TypeOK
  <2> QED
    BY <2>1, <2>2, Mirrored DEF Inv
<1> QED
  BY <1>1, <1>2, <1>3, PTL DEF Spec
=============================================================================
