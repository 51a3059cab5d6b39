----------------------- MODULE BackgroundTasks_proof -----------------------
(***************************************************************************)
(* Proofs about BackgroundTasks for every set of callers, tags and runs.   *)
(***************************************************************************)
EXTENDS BackgroundTasks, SequenceTheorems, TLAPS

\* What the conjuncts of IInv say of the lock and its queue.
QueueInv == NoSelfWait /\ QueuedIsCalling

\* p is where its next critical section begins or goes on.
AtSection(p) == \/ holder = Free /\ waiters # <<>> /\ Head(waiters) = p
                \/ holder = p

\* The queue without p, where p has just taken the lock or already holds it.
Others(p) == IF holder = p THEN waiters ELSE Tail(waiters)

\* Leaving a call's list of sections at a collect keeps it a list of sections.
LEMMA ReachType ==
  ASSUME NEW s \in Seq(Sections)
  PROVE  Reach(s) \in Seq(Sections)
BY DEF Reach

\* The processes queued behind p are others than p, distinct, and inside a call.
LEMMA OthersQueue ==
  ASSUME TypeOK, QueueInv, NEW p \in Procs, AtSection(p)
  PROVE  /\ Others(p) \in Seq(Procs)
         /\ \A i \in 1..Len(Others(p)) : Others(p)[i] # p
         /\ \A i \in 1..Len(Others(p)) : todo[Others(p)[i]] # <<>>
         /\ \A i, j \in 1..Len(Others(p)) : Others(p)[i] = Others(p)[j] => i = j
         /\ todo[p] # <<>> \/ holder = p
<1>1. CASE holder = p
  BY <1>1 DEF Others, TypeOK, QueueInv, NoSelfWait, QueuedIsCalling
<1>2. CASE holder = Free /\ waiters # <<>> /\ Head(waiters) = p
  <2>1. holder # p
    BY <1>2, FreeFresh
  <2>2. Others(p) = Tail(waiters)
    BY <2>1 DEF Others
  <2>3. waiters \in Seq(Procs) /\ waiters # <<>>
    BY <1>2 DEF TypeOK
  <2>4. /\ Tail(waiters) \in Seq(Procs)
        /\ Len(Tail(waiters)) = Len(waiters) - 1
        /\ \A i \in 1..Len(Tail(waiters)) : Tail(waiters)[i] = waiters[i + 1]
        /\ Len(waiters) \in Nat \ {0}
        /\ waiters[1] = p
    BY <2>3, <1>2
  <2>5. QED
    BY <2>2, <2>4 DEF QueueInv, NoSelfWait, QueuedIsCalling
<1>3. QED
  BY <1>1, <1>2 DEF AtSection

\* A process that runs on from a queue it is not in leaves a queue of distinct
\* processes, each inside a call.
LEMMA RunOnStep ==
  ASSUME TypeOK, NEW p \in Procs, NEW sections \in Seq(Sections),
         NEW queue \in Seq(Procs), gcAge' \in 0..Interval,
         RunOn(p, sections, queue),
         \A i \in 1..Len(queue) : queue[i] # p,
         \A i \in 1..Len(queue) : todo[queue[i]] # <<>>,
         \A i, j \in 1..Len(queue) : queue[i] = queue[j] => i = j
  PROVE  /\ todo' \in [Procs -> Seq(Sections)]
         /\ waiters' \in Seq(Procs)
         /\ age' \in [Procs -> 0..Interval]
         /\ \A q \in Procs \ {p} : todo'[q] = todo[q]
         /\ QueuedIsCalling'
         /\ \A i, j \in 1..Len(waiters') : waiters'[i] = waiters'[j] => i = j
         /\ \A i \in 1..Len(waiters') : waiters'[i] = p \/ \E j \in 1..Len(queue) : waiters'[i] = queue[j]
<1> DEFINE rest == Reach(sections)
<1>1. rest \in Seq(Sections)
  BY ReachType
<1>2. /\ todo' = [todo EXCEPT ![p] = rest]
      /\ waiters' = IF rest = <<>> THEN queue ELSE Append(queue, p)
      /\ age' = [age EXCEPT ![p] = 0]
  BY DEF RunOn
<1> HIDE DEF rest
<1>3. /\ todo' \in [Procs -> Seq(Sections)]
      /\ age' \in [Procs -> 0..Interval]
      /\ todo'[p] = rest
      /\ \A q \in Procs \ {p} : todo'[q] = todo[q]
  BY <1>1, <1>2, IntervalPositive DEF TypeOK
<1>a. \A i \in 1..Len(queue) : queue[i] \in Procs
  OBVIOUS
<1>b. \A i \in 1..Len(queue) : todo'[queue[i]] # <<>>
  BY <1>a, <1>3
<1>4. CASE rest = <<>>
  <2>1. waiters' = queue
    BY <1>2, <1>4
  <2>2. \A i \in 1..Len(queue) : todo'[queue[i]] # <<>>
    BY <1>b
  <2>3. QED
    BY <2>1, <2>2, <1>3 DEF QueuedIsCalling
<1>5. CASE rest # <<>>
  <2>1. waiters' = Append(queue, p)
    BY <1>2, <1>5
  <2>2. /\ waiters' \in Seq(Procs)
        /\ Len(waiters') = Len(queue) + 1
        /\ \A i \in 1..Len(queue) : waiters'[i] = queue[i]
        /\ waiters'[Len(queue) + 1] = p
        /\ Len(queue) \in Nat
    BY <2>1
  <2>3. \A i \in 1..Len(waiters') : i \in 1..Len(queue) \/ i = Len(queue) + 1
    BY <2>2
  <2>4. \A i \in 1..Len(waiters') : todo'[waiters'[i]] # <<>>
    <3> SUFFICES ASSUME NEW i \in 1..Len(waiters')
                 PROVE  todo'[waiters'[i]] # <<>>
      OBVIOUS
    <3>1. CASE i \in 1..Len(queue)
      <4>1. waiters'[i] = queue[i]
        BY <3>1, <2>2
      <4>2. QED
        BY <3>1, <4>1, <1>b
    <3>2. CASE i = Len(queue) + 1
      <4>1. waiters'[i] = p
        BY <3>2, <2>2
      <4>2. QED
        BY <4>1, <1>3, <1>5
    <3>3. QED
      BY <3>1, <3>2, <2>3
  <2>5. \A i, j \in 1..Len(waiters') : waiters'[i] = waiters'[j] => i = j
    BY <2>2, <2>3
  <2>6. QED
    BY <2>2, <2>3, <2>4, <2>5, <1>3 DEF QueuedIsCalling
<1>6. QED
  BY <1>4, <1>5

\* Leaving a critical section releases the lock and keeps the queue sound.
LEMMA FinishStep ==
  ASSUME TypeOK, QueueInv, NEW p \in Procs, AtSection(p), todo[p] # <<>>,
         gcAge' \in 0..Interval, Finish(p)
  PROVE  /\ todo' \in [Procs -> Seq(Sections)]
         /\ waiters' \in Seq(Procs)
         /\ age' \in [Procs -> 0..Interval]
         /\ holder' = Free
         /\ awaited' = NoTask
         /\ QueueInv'
<1>1. Tail(todo[p]) \in Seq(Sections)
  BY DEF TypeOK
<1>2. RunOn(p, Tail(todo[p]), Others(p)) /\ holder' = Free /\ awaited' = NoTask
  BY DEF Finish, Others
<1>3. /\ todo' \in [Procs -> Seq(Sections)]
      /\ waiters' \in Seq(Procs)
      /\ age' \in [Procs -> 0..Interval]
      /\ QueuedIsCalling'
      /\ \A i, j \in 1..Len(waiters') : waiters'[i] = waiters'[j] => i = j
  BY <1>1, <1>2, OthersQueue, RunOnStep
<1>4. \A i \in 1..Len(waiters') : waiters'[i] # holder'
  BY <1>2, <1>3, FreeFresh
<1>5. QED
  BY <1>2, <1>3, <1>4 DEF QueueInv, NoSelfWait

\* Suspending with the lock held takes p out of the queue.
LEMMA AwaitStep ==
  ASSUME TypeOK, QueueInv, NEW p \in Procs, AtSection(p), todo[p] # <<>>,
         NEW t \in Tasks, Await(p, t)
  PROVE  /\ waiters' \in Seq(Procs)
         /\ holder' = p
         /\ awaited' = t
         /\ UNCHANGED <<todo, age>>
         /\ QueueInv'
<1>1. waiters' = Others(p) /\ holder' = p /\ awaited' = t /\ UNCHANGED <<todo, age>>
  BY DEF Await, Others
<1>2. QED
  BY <1>1, OthersQueue DEF QueueInv, NoSelfWait, QueuedIsCalling

\* The part of IInv that is about tasks only.
TaskInv ==
  /\ registry \in [Tags -> Tasks \cup {NoTask}]
  /\ running \subseteq Tasks
  /\ cancelReq \subseteq running
  /\ LiveIsRegistered
  /\ RegisteredUnderOwnTag

\* A task created under a tag whose task is done is the tag's only running task.
LEMMA CreateStep ==
  ASSUME TaskInv, NEW g \in Tags, ~Live(g), Create(g)
  PROVE  TaskInv'
<1>1. PICK t \in {g} \X Runs :
        /\ t \notin running
        /\ registry[g] # t
        /\ running' = running \cup {t}
        /\ registry' = [registry EXCEPT ![g] = t]
        /\ cancelReq' = cancelReq
  BY DEF Create
<1>2. t \in Tasks /\ TagOf(t) = g
  BY DEF Tasks, TagOf
<1>3. \A u \in running : TagOf(u) \in Tags /\ TagOf(u) # g
  <2>1. SUFFICES ASSUME NEW u \in running PROVE TagOf(u) \in Tags /\ TagOf(u) # g
    OBVIOUS
  <2>2. TagOf(u) \in Tags
    BY DEF TaskInv, Tasks, TagOf
  <2>3. registry[TagOf(u)] = u
    BY DEF TaskInv, LiveIsRegistered
  <2>4. QED
    BY <2>2, <2>3 DEF Live
<1>4. LiveIsRegistered'
  BY <1>1, <1>2, <1>3 DEF TaskInv, LiveIsRegistered
<1>5. RegisteredUnderOwnTag'
  BY <1>1, <1>2 DEF TaskInv, RegisteredUnderOwnTag
<1>6. QED
  BY <1>1, <1>2, <1>4, <1>5 DEF TaskInv

\* Cancel requests leave the registry and the running tasks alone.
LEMMA RequestStep ==
  ASSUME TaskInv, NEW S, RequestCancel(S)
  PROVE  TaskInv'
BY DEF RequestCancel, TaskInv, LiveIsRegistered, RegisteredUnderOwnTag

\* A section that keeps the tasks sound and then releases the lock keeps IInv.
LEMMA EndSection ==
  ASSUME IInv, NEW p \in Procs, AtSection(p), todo[p] # <<>>, TaskInv',
         gcAge' \in 0..Interval, service' = service \/ service' = "closed",
         UNCHANGED arg, Finish(p)
  PROVE  IInv'
<1>1. /\ todo' \in [Procs -> Seq(Sections)]
      /\ waiters' \in Seq(Procs)
      /\ age' \in [Procs -> 0..Interval]
      /\ holder' = Free
      /\ awaited' = NoTask
      /\ QueueInv'
  BY FinishStep DEF IInv, QueueInv
<1>2. TypeOK'
  BY <1>1 DEF IInv, TypeOK, TaskInv
<1>3. HolderSuspended' /\ RestartAwaitsCancelled'
  BY <1>1, FreeFresh DEF HolderSuspended, RestartAwaitsCancelled
<1>4. QED
  BY <1>1, <1>2, <1>3 DEF IInv, QueueInv, TaskInv

\* A section of restart or of the forced collect that suspends keeps IInv.
LEMMA SuspendSection ==
  ASSUME IInv, NEW p \in Procs, AtSection(p), todo[p] # <<>>, TaskInv',
         NEW g \in Tags, Live(g), Await(p, registry[g]),
         UNCHANGED <<registry, running, arg, gcAge, service>>,
         \/ Head(todo[p]) = "force"
         \/ /\ Head(todo[p]) = "restart"
            /\ g = arg[p]
            /\ registry[g] \in cancelReq'
  PROVE  IInv'
<1>1. registry[g] \in Tasks
  BY DEF IInv, TypeOK, Live
<1>2. /\ waiters' \in Seq(Procs)
      /\ holder' = p
      /\ awaited' = registry[g]
      /\ UNCHANGED <<todo, age>>
      /\ QueueInv'
  BY <1>1, AwaitStep DEF IInv, QueueInv
<1>3. TypeOK'
  BY <1>1, <1>2 DEF IInv, TypeOK, TaskInv
<1>4. HolderSuspended' /\ RestartAwaitsCancelled'
  BY <1>1, <1>2 DEF HolderSuspended, RestartAwaitsCancelled
<1>5. QED
  BY <1>2, <1>3, <1>4 DEF IInv, QueueInv, TaskInv

\* Each critical section keeps IInv, from the point where its process has the lock.
LEMMA StartKeeps ==
  ASSUME IInv, NEW p \in Procs, AtSection(p), todo[p] # <<>>, UNCHANGED arg,
         StartSection(p)
  PROVE  IInv'
<1>1. arg[p] \in Tags /\ gcAge' \in 0..Interval
  BY DEF IInv, TypeOK, StartSection
<1>2. TaskInv
  BY DEF IInv, TypeOK, TaskInv
<1>3. TaskInv'
  <2>1. CASE Live(arg[p])
    BY <1>2, <2>1
    DEF StartSection, tasks, TaskInv, LiveIsRegistered, RegisteredUnderOwnTag
  <2>2. CASE ~Live(arg[p])
    <3>1. Create(arg[p])
      BY <2>2 DEF StartSection
    <3>2. QED
      BY <1>1, <1>2, <2>2, <3>1, CreateStep
  <2>3. QED
    BY <2>1, <2>2
<1>4. Finish(p) /\ service' = service
  BY DEF StartSection
<1>5. QED
  BY <1>1, <1>3, <1>4, EndSection

LEMMA RestartKeeps ==
  ASSUME IInv, NEW p \in Procs, AtSection(p), todo[p] # <<>>, UNCHANGED arg,
         Head(todo[p]) = "restart", RestartSection(p)
  PROVE  IInv'
<1>1. arg[p] \in Tags /\ gcAge' \in 0..Interval /\ service' = service /\ gcAge' = gcAge
  BY DEF IInv, TypeOK, RestartSection
<1>2. TaskInv
  BY DEF IInv, TypeOK, TaskInv
<1>3. CASE Live(arg[p])
  <2>1. RequestCancel({registry[arg[p]]}) /\ Await(p, registry[arg[p]])
    BY <1>3 DEF RestartSection
  <2>2. TaskInv'
    BY <1>2, <2>1, RequestStep
  <2>3. UNCHANGED <<registry, running>> /\ registry[arg[p]] \in cancelReq'
    BY <1>3, <2>1 DEF RequestCancel, Live
  <2>4. QED
    BY <1>1, <1>3, <2>1, <2>2, <2>3, SuspendSection
<1>4. CASE ~Live(arg[p])
  <2>1. Create(arg[p]) /\ Finish(p)
    BY <1>4 DEF RestartSection
  <2>2. TaskInv'
    BY <1>1, <1>2, <1>4, <2>1, CreateStep
  <2>3. QED
    BY <1>1, <2>1, <2>2, EndSection
<1>5. QED
  BY <1>3, <1>4

LEMMA RestartResumeKeeps ==
  ASSUME IInv, NEW p \in Procs, holder = p, awaited \notin running,
         Head(todo[p]) = "restart", UNCHANGED arg, RestartResume(p)
  PROVE  IInv'
<1>1. AtSection(p) /\ todo[p] # <<>>
  BY DEF AtSection, IInv, HolderSuspended
<1>2. arg[p] \in Tags /\ gcAge' \in 0..Interval /\ service' = service
  BY DEF IInv, TypeOK, RestartResume
<1>3. ~Live(arg[p])
  BY DEF IInv, RestartAwaitsCancelled, Live
<1>4. TaskInv
  BY DEF IInv, TypeOK, TaskInv
<1>5. Create(arg[p]) /\ Finish(p)
  BY DEF RestartResume
<1>6. TaskInv'
  BY <1>2, <1>3, <1>4, <1>5, CreateStep
<1>7. QED
  BY <1>1, <1>2, <1>5, <1>6, EndSection

LEMMA RequestKeeps ==
  ASSUME IInv, NEW p \in Procs, AtSection(p), todo[p] # <<>>, UNCHANGED arg,
         CancelSection(p) \/ CancelAllSection(p)
  PROVE  IInv'
<1>1. PICK S : RequestCancel(S)
  BY DEF CancelSection, CancelAllSection
<1>2. TaskInv'
  BY <1>1, RequestStep DEF IInv, TypeOK, TaskInv
<1>3. Finish(p) /\ service' = service /\ gcAge' \in 0..Interval
  BY DEF CancelSection, CancelAllSection, IInv, TypeOK
<1>4. QED
  BY <1>2, <1>3, EndSection

LEMMA CollectKeeps ==
  ASSUME IInv, NEW p \in Procs, AtSection(p), todo[p] # <<>>, UNCHANGED arg,
         CollectSection(p)
  PROVE  IInv'
<1>1. TaskInv'
  BY DEF CollectSection, IInv, TypeOK, TaskInv, LiveIsRegistered,
         RegisteredUnderOwnTag, Live, Tasks, TagOf
<1>2. Finish(p) /\ service' = service /\ gcAge' \in 0..Interval
  BY DEF CollectSection, IInv, TypeOK
<1>3. QED
  BY <1>1, <1>2, EndSection

\* When the forced collect finds no registered task running, no task runs at all.
LEMMA NoneLive ==
  ASSUME IInv, \A g \in Tags : ~Live(g)
  PROVE  running = {}
<1>1. SUFFICES ASSUME NEW t \in running PROVE FALSE
  OBVIOUS
<1>2. TagOf(t) \in Tags
  BY DEF IInv, TypeOK, Tasks, TagOf
<1>3. registry[TagOf(t)] = t
  BY DEF IInv, LiveIsRegistered
<1>4. QED
  BY <1>2, <1>3 DEF Live

LEMMA ForceKeeps ==
  ASSUME IInv, NEW p \in Procs, AtSection(p), todo[p] # <<>>, UNCHANGED arg,
         Head(todo[p]) = "force", ForceSection(p)
  PROVE  IInv'
<1>1. TaskInv
  BY DEF IInv, TypeOK, TaskInv
<1>2. CASE \E g \in Tags : Live(g) /\ Await(p, registry[g])
                          /\ UNCHANGED <<tasks, gcAge, service>>
  <2>1. PICK g \in Tags : Live(g) /\ Await(p, registry[g])
                         /\ UNCHANGED <<tasks, gcAge, service>>
    BY <1>2
  <2>2. UNCHANGED <<registry, running, cancelReq>>
    BY <2>1 DEF tasks
  <2>3. TaskInv'
    BY <1>1, <2>2 DEF TaskInv, LiveIsRegistered, RegisteredUnderOwnTag
  <2>4. QED
    BY <2>1, <2>2, <2>3, SuspendSection
<1>3. CASE /\ \A g \in Tags : ~Live(g)
           /\ registry' = [g \in Tags |-> NoTask]
           /\ gcAge' = age[p]
           /\ service' = "closed"
           /\ UNCHANGED <<running, cancelReq>>
           /\ Finish(p)
  <2>1. running = {}
    BY <1>3, NoneLive
  <2>2. TaskInv'
    BY <1>1, <1>3, <2>1 DEF TaskInv, LiveIsRegistered, RegisteredUnderOwnTag
  <2>3. gcAge' \in 0..Interval
    BY <1>3 DEF IInv, TypeOK
  <2>4. QED
    BY <1>3, <2>2, <2>3, EndSection
<1>4. QED
  BY <1>2, <1>3 DEF ForceSection

\* A critical section is one of six.
LEMMA SectionCases ==
  ASSUME IInv, NEW p \in Procs, Step(p)
  PROVE  /\ AtSection(p) /\ todo[p] # <<>> /\ UNCHANGED arg
         /\ \/ StartSection(p)
            \/ Head(todo[p]) = "restart" /\ RestartSection(p)
            \/ /\ Head(todo[p]) = "restart" /\ RestartResume(p)
               /\ holder = p /\ awaited \notin running
            \/ CancelSection(p) \/ CancelAllSection(p)
            \/ Head(todo[p]) = "collect" /\ CollectSection(p)
            \/ Head(todo[p]) = "force" /\ ForceSection(p)
<1>1. CASE Acquire(p)
  <2>1. AtSection(p) /\ Section(p) /\ UNCHANGED arg
    BY <1>1 DEF Acquire, AtSection
  <2>2. todo[p] # <<>>
    <3>1. waiters \in Seq(Procs) /\ waiters # <<>> /\ waiters[1] = p
      BY <1>1 DEF Acquire, IInv, TypeOK
    <3>2. 1 \in 1..Len(waiters)
      BY <3>1
    <3>3. QED
      BY <3>1, <3>2 DEF IInv, QueuedIsCalling
  <2>3. Head(todo[p]) \in Sections
    BY <2>2 DEF IInv, TypeOK
  <2>4. QED
    BY <2>1, <2>2, <2>3 DEF Section, Sections
<1>2. CASE Resume(p)
  BY <1>2 DEF Resume, AtSection, IInv, HolderSuspended
<1>3. QED
  BY <1>1, <1>2 DEF Step

\* A step of a process inside a call keeps IInv.
LEMMA SectionKeeps ==
  ASSUME IInv, NEW p \in Procs, Step(p)
  PROVE  IInv'
<1>1. AtSection(p) /\ todo[p] # <<>> /\ UNCHANGED arg
  BY SectionCases
<1>2. CASE Head(todo[p]) = "force" /\ ForceSection(p)
  BY <1>1, <1>2, ForceKeeps
<1>3. CASE CollectSection(p)
  BY <1>1, <1>3, CollectKeeps
<1>4. CASE StartSection(p)
  BY <1>1, <1>4, StartKeeps
<1>5. CASE CancelSection(p) \/ CancelAllSection(p)
  BY <1>1, <1>5, RequestKeeps
<1>6. CASE Head(todo[p]) = "restart" /\ RestartSection(p)
  BY <1>1, <1>6, RestartKeeps
<1>7. CASE /\ Head(todo[p]) = "restart" /\ RestartResume(p)
           /\ holder = p /\ awaited \notin running
  BY <1>1, <1>7, RestartResumeKeeps
<1>8. QED
  BY <1>2, <1>3, <1>4, <1>5, <1>6, <1>7, SectionCases

\* A process outside any call is neither queued nor suspended with the lock, so it
\* may join the queue.
LEMMA EnterKeeps ==
  ASSUME IInv, NEW p \in Procs, todo[p] = <<>>,
         NEW sections \in Seq(Sections), RunOn(p, sections, waiters),
         UNCHANGED <<tasks, holder, awaited, gcAge>>,
         arg' \in [Procs -> Tags], \A q \in Procs \ {p} : arg'[q] = arg[q],
         service' \in {"open", "closing", "closed", "aborted"}
  PROVE  IInv'
<1>1. holder # p
  BY DEF IInv, HolderSuspended
<1>2. waiters \in Seq(Procs) /\ gcAge' \in 0..Interval /\ TypeOK
  BY DEF IInv, TypeOK
<1>3. /\ \A i \in 1..Len(waiters) : waiters[i] # p
      /\ \A i \in 1..Len(waiters) : todo[waiters[i]] # <<>>
      /\ \A i, j \in 1..Len(waiters) : waiters[i] = waiters[j] => i = j
  BY DEF IInv, QueuedIsCalling, NoSelfWait
<1>4. /\ todo' \in [Procs -> Seq(Sections)]
      /\ waiters' \in Seq(Procs)
      /\ age' \in [Procs -> 0..Interval]
      /\ \A q \in Procs \ {p} : todo'[q] = todo[q]
      /\ QueuedIsCalling'
      /\ \A i, j \in 1..Len(waiters') : waiters'[i] = waiters'[j] => i = j
      /\ \A i \in 1..Len(waiters') : waiters'[i] = p \/ \E j \in 1..Len(waiters) : waiters'[i] = waiters[j]
  BY <1>2, <1>3, RunOnStep
<1>5. NoSelfWait'
  <2>1. holder' = holder /\ \A j \in 1..Len(waiters) : waiters[j] # holder
    BY DEF IInv, NoSelfWait
  <2>2. \A i \in 1..Len(waiters') : waiters'[i] # holder'
    BY <1>1, <1>4, <2>1
  <2>3. QED
    BY <1>4, <2>2 DEF NoSelfWait
<1>6. TypeOK'
  BY <1>4 DEF IInv, TypeOK, tasks
<1>7. LiveIsRegistered' /\ RegisteredUnderOwnTag'
  BY DEF IInv, LiveIsRegistered, RegisteredUnderOwnTag, tasks
<1>8. HolderSuspended' /\ RestartAwaitsCancelled'
  BY <1>1, <1>4 DEF IInv, HolderSuspended, RestartAwaitsCancelled, tasks
<1>9. QED
  BY <1>4, <1>5, <1>6, <1>7, <1>8 DEF IInv

\* Removing one element keeps the others in their order.
LEMMA RemoveAtElements ==
  ASSUME NEW S, NEW s \in Seq(S), NEW i \in 1..Len(s)
  PROVE  /\ RemoveAt(s, i) \in Seq(S)
         /\ Len(RemoveAt(s, i)) = Len(s) - 1
         /\ \A k \in 1..(Len(s) - 1) :
              RemoveAt(s, i)[k] = s[IF k < i THEN k ELSE k + 1]
<1> DEFINE a == SubSeq(s, 1, i - 1)
           b == SubSeq(s, i + 1, Len(s))
<1>1. /\ a \in Seq(S) /\ Len(a) = i - 1
      /\ \A k \in 1..(i - 1) : a[k] = s[k]
  OBVIOUS
<1>2. /\ b \in Seq(S) /\ Len(b) = Len(s) - i
      /\ \A k \in 1..(Len(s) - i) : b[k] = s[i + k]
  OBVIOUS
<1>3. RemoveAt(s, i) = a \o b
  BY DEF RemoveAt
<1> HIDE DEF a, b
<1>4. i \in Nat \ {0} /\ Len(s) \in Nat /\ i <= Len(s)
  OBVIOUS
<1>5. /\ a \o b \in Seq(S) /\ Len(a \o b) = Len(a) + Len(b)
      /\ \A k \in 1..(Len(a) + Len(b)) :
           (a \o b)[k] = IF k <= Len(a) THEN a[k] ELSE b[k - Len(a)]
  BY <1>1, <1>2, ConcatProperties
<1>6. ASSUME NEW k \in 1..(Len(s) - 1)
      PROVE  (a \o b)[k] = s[IF k < i THEN k ELSE k + 1]
  <2>1. CASE k < i
    <3>1. k \in 1..(i - 1) /\ k <= Len(a) /\ k \in 1..(Len(a) + Len(b))
      BY <2>1, <1>1, <1>2, <1>4
    <3>2. (a \o b)[k] = a[k] /\ a[k] = s[k]
      BY <3>1, <1>1, <1>5
    <3>3. QED
      BY <2>1, <3>2
  <2>2. CASE k >= i
    <3>1. k - (i - 1) \in 1..(Len(s) - i) /\ i + (k - (i - 1)) = k + 1
      BY <2>2, <1>4
    <3>2. (a \o b)[k] = b[k - (i - 1)]
      BY <2>2, <1>1, <1>2, <1>4, <1>5
    <3>3. b[k - (i - 1)] = s[k + 1]
      BY <3>1, <1>2
    <3>4. QED
      BY <2>2, <3>2, <3>3, <1>4
  <2>3. k < i \/ k >= i
    BY <1>4
  <2>4. QED
    BY <2>1, <2>2, <2>3
<1>7. QED
  BY <1>1, <1>2, <1>3, <1>4, <1>5, <1>6

LEMMA InterruptWaitKeeps ==
  ASSUME IInv, NEW p \in Procs, InterruptWait(p)
  PROVE  IInv'
<1>1. PICK i \in 1..Len(waiters) : waiters[i] = p /\ waiters' = RemoveAt(waiters, i)
  BY DEF InterruptWait
<1>2. waiters \in Seq(Procs) /\ p # holder
  BY <1>1 DEF IInv, TypeOK, NoSelfWait
<1>3. /\ waiters' \in Seq(Procs)
      /\ Len(waiters') = Len(waiters) - 1
      /\ \A k \in 1..Len(waiters') : waiters'[k] = waiters[IF k < i THEN k ELSE k + 1]
  BY <1>1, <1>2, RemoveAtElements
<1>4. \A k \in 1..Len(waiters') : (IF k < i THEN k ELSE k + 1) \in 1..Len(waiters) \ {i}
  BY <1>2, <1>3
<1>5. /\ \A k \in 1..Len(waiters') : waiters'[k] # p /\ waiters'[k] # holder
      /\ \A k, m \in 1..Len(waiters') : waiters'[k] = waiters'[m] => k = m
  <2> DEFINE old(k) == IF k < i THEN k ELSE k + 1
  <2>1. \A k \in 1..Len(waiters') : old(k) \in 1..Len(waiters) /\ old(k) # i
    BY <1>4
  <2>2. \A k, m \in 1..Len(waiters') : old(k) = old(m) => k = m
    BY <1>2, <1>3
  <2>3. \A k \in 1..Len(waiters') : waiters'[k] = waiters[old(k)]
    BY <1>3
  <2> HIDE DEF old
  <2>4. /\ \A j \in 1..Len(waiters) : waiters[j] # holder
        /\ \A j, m \in 1..Len(waiters) : waiters[j] = waiters[m] => j = m
    BY DEF IInv, NoSelfWait
  <2>5. \A k \in 1..Len(waiters') : waiters'[k] # holder
    BY <2>1, <2>3, <2>4
  <2>6. \A k \in 1..Len(waiters') : waiters'[k] # p
    BY <1>1, <2>1, <2>3, <2>4
  <2>7. ASSUME NEW k \in 1..Len(waiters'), NEW m \in 1..Len(waiters'),
               waiters'[k] = waiters'[m]
        PROVE  k = m
    <3>1. waiters[old(k)] = waiters[old(m)]
      BY <2>3, <2>7
    <3>2. old(k) = old(m)
      BY <2>1, <2>4, <3>1
    <3>3. QED
      BY <2>2, <3>2
  <2>8. QED
    BY <2>5, <2>6, <2>7
<1>6. /\ todo' \in [Procs -> Seq(Sections)]
      /\ \A q \in Procs \ {p} : todo'[q] = todo[q]
  BY DEF InterruptWait, IInv, TypeOK
<1>7. QueuedIsCalling'
  <2>1. SUFFICES ASSUME NEW k \in 1..Len(waiters') PROVE todo'[waiters'[k]] # <<>>
    BY DEF QueuedIsCalling
  <2>2. PICK m \in 1..Len(waiters) : waiters'[k] = waiters[m]
    BY <1>3, <1>4
  <2>3. waiters[m] \in Procs \ {p}
    BY <1>2, <1>5, <2>2
  <2>4. QED
    BY <1>6, <2>2, <2>3 DEF IInv, QueuedIsCalling
<1>8. UNCHANGED <<tasks, arg, holder, awaited, gcAge>>
  BY DEF InterruptWait
<1>9. TypeOK'
  <2>1. age' \in [Procs -> 0..Interval]
    BY IntervalPositive DEF InterruptWait, IInv, TypeOK
  <2>2. service' \in {"open", "closing", "closed", "aborted"}
    BY DEF InterruptWait, IInv, TypeOK
  <2>3. QED
    BY <2>1, <2>2, <1>3, <1>6, <1>8 DEF IInv, TypeOK, tasks
<1>10. /\ LiveIsRegistered' /\ RegisteredUnderOwnTag' /\ NoSelfWait'
       /\ HolderSuspended' /\ RestartAwaitsCancelled'
  BY <1>2, <1>5, <1>6, <1>8 DEF IInv, tasks, LiveIsRegistered, RegisteredUnderOwnTag,
     NoSelfWait, HolderSuspended, RestartAwaitsCancelled
<1>11. QED
  BY <1>7, <1>9, <1>10 DEF IInv

\* Every call begins with a list of critical sections.
LEMMA OperationSections ==
  /\ \A op \in DOMAIN Operations : Operations[op] \in Seq(Sections)
  /\ <<"cancelAll", "collect", "force">> \in Seq(Sections)
  /\ <<"force">> \in Seq(Sections)
<1>1. ASSUME NEW a \in Sections, NEW b \in Sections
      PROVE  <<a, b>> \in Seq(Sections)
  OBVIOUS
<1>2. ASSUME NEW a \in Sections, NEW b \in Sections, NEW c \in Sections
      PROVE  <<a, b, c>> \in Seq(Sections)
  OBVIOUS
<1>3. \A op \in DOMAIN Operations : op \in {"start", "restart", "cancel", "cancelAll"}
  BY DEF Operations
<1>4. /\ Operations["start"] = <<"collect", "start">>
      /\ Operations["restart"] = <<"collect", "restart">>
      /\ Operations["cancel"] = <<"cancel", "collect">>
      /\ Operations["cancelAll"] = <<"cancelAll", "collect">>
  BY DEF Operations
<1>5. {"collect", "force", "cancel", "cancelAll", "start", "restart"} \subseteq Sections
  BY DEF Sections
<1>6. /\ Operations["start"] \in Seq(Sections)
      /\ Operations["restart"] \in Seq(Sections)
      /\ Operations["cancel"] \in Seq(Sections)
      /\ Operations["cancelAll"] \in Seq(Sections)
  BY <1>1, <1>4, <1>5
<1>7. QED
  BY <1>2, <1>3, <1>5, <1>6

\* IInv is inductive.
LEMMA InitHolds == Init => IInv
<1> SUFFICES ASSUME Init PROVE IInv
  OBVIOUS
<1>2. holder \notin Procs
  BY FreeFresh DEF Init
<1>3. TypeOK
  BY IntervalPositive DEF Init, TypeOK
<1>4. QED
  BY <1>2, <1>3 DEF Init, IInv, LiveIsRegistered, RegisteredUnderOwnTag,
     HolderSuspended, RestartAwaitsCancelled, NoSelfWait, QueuedIsCalling

LEMMA StepKeeps == IInv /\ [Next]_vars => IInv'
<1> SUFFICES ASSUME IInv, [Next]_vars
             PROVE  IInv'
  OBVIOUS
<1>1. ASSUME NEW p \in Callers, NEW op \in DOMAIN Operations, NEW g \in Tags,
             Call(p, op, g)
      PROVE  IInv'
  <2>1. p \in Procs
    BY DEF Procs
  <2>2. Operations[op] \in Seq(Sections)
    BY OperationSections
  <2>3. /\ todo[p] = <<>>
        /\ arg' = [arg EXCEPT ![p] = g]
        /\ UNCHANGED <<tasks, holder, awaited, gcAge, service>>
        /\ RunOn(p, Operations[op], waiters)
    BY <1>1 DEF Call
  <2>4. arg' \in [Procs -> Tags] /\ \A q \in Procs \ {p} : arg'[q] = arg[q]
    BY <2>1, <2>3 DEF IInv, TypeOK
  <2>5. service' \in {"open", "closing", "closed", "aborted"}
    BY <2>3 DEF IInv, TypeOK
  <2>6. QED
    BY <2>1, <2>2, <2>3, <2>4, <2>5, EnterKeeps
<1>2. CASE CollectorWakes
  <2>1. Collector \in Procs /\ <<"collect">> \in Seq(Sections)
    BY DEF Procs, Sections
  <2>2. /\ todo[Collector] = <<>>
        /\ UNCHANGED <<tasks, arg, holder, awaited, gcAge, service>>
        /\ RunOn(Collector, <<"collect">>, waiters)
    BY <1>2 DEF CollectorWakes
  <2>3. arg' \in [Procs -> Tags] /\ service' \in {"open", "closing", "closed", "aborted"}
    BY <2>2 DEF IInv, TypeOK
  <2>4. QED
    BY <2>1, <2>2, <2>3, EnterKeeps
<1>3. ASSUME NEW exc \in BOOLEAN, Exit(exc)
      PROVE  IInv'
  <2> DEFINE sections == IF exc THEN <<"cancelAll", "collect", "force">> ELSE <<"force">>
  <2>1. Closer \in Procs /\ sections \in Seq(Sections)
    BY OperationSections DEF Procs
  <2>2. /\ todo[Closer] = <<>>
        /\ service' = "closing"
        /\ UNCHANGED <<tasks, arg, holder, awaited, gcAge>>
        /\ RunOn(Closer, sections, waiters)
    BY <1>3 DEF Exit
  <2>3. arg' \in [Procs -> Tags]
    BY <2>2 DEF IInv, TypeOK
  <2> HIDE DEF sections
  <2>4. QED
    BY <1>3, <2>1, <2>2, <2>3, EnterKeeps
<1>4. ASSUME NEW p \in Procs, Step(p)
      PROVE  IInv'
  BY <1>4, SectionKeeps
<1>5. ASSUME NEW p \in Callers \cup {Closer}, InterruptWait(p)
      PROVE  IInv'
  BY <1>5, InterruptWaitKeeps DEF Procs
<1>6. ASSUME NEW p \in Callers \cup {Closer}, InterruptAwait(p)
      PROVE  IInv'
  <2>1. /\ RequestCancel({awaited})
        /\ UNCHANGED <<todo, arg, waiters, holder, awaited, gcAge, age, service>>
    BY <1>6 DEF InterruptAwait
  <2>2. TaskInv'
    BY <2>1, RequestStep DEF IInv, TypeOK, TaskInv
  <2>3. UNCHANGED <<registry, running>> /\ cancelReq \subseteq cancelReq'
    BY <2>1 DEF RequestCancel
  <2>4. QED
    BY <2>1, <2>2, <2>3 DEF IInv, TypeOK, TaskInv, HolderSuspended,
       RestartAwaitsCancelled, NoSelfWait, QueuedIsCalling
<1>7. ASSUME NEW t \in Tasks, TaskEnds(t)
      PROVE  IInv'
  BY <1>7 DEF TaskEnds, IInv, TypeOK, LiveIsRegistered, RegisteredUnderOwnTag,
     HolderSuspended, RestartAwaitsCancelled, NoSelfWait, QueuedIsCalling
<1>8. CASE Tick
  <2>1. gcAge' \in 0..Interval /\ age' \in [Procs -> 0..Interval]
    BY <1>8, IntervalPositive DEF Tick, Older, IInv, TypeOK
  <2>2. UNCHANGED <<tasks, todo, arg, waiters, holder, awaited, service>>
    BY <1>8 DEF Tick
  <2>3. QED
    BY <2>1, <2>2 DEF tasks, IInv, TypeOK, LiveIsRegistered, RegisteredUnderOwnTag,
       HolderSuspended, RestartAwaitsCancelled, NoSelfWait, QueuedIsCalling
<1>9. CASE UNCHANGED vars
  BY <1>9 DEF vars, IInv, TypeOK, LiveIsRegistered, RegisteredUnderOwnTag,
     HolderSuspended, RestartAwaitsCancelled, NoSelfWait, QueuedIsCalling
<1>10. QED
  BY <1>1, <1>2, <1>3, <1>4, <1>5, <1>6, <1>7, <1>8, <1>9 DEF Next

\* The strengthened invariant holds of every reachable state: it is needed because
\* that restart may create its task rests on whom it awaited, and that on who can
\* abandon a call while it is queued.
THEOREM Invariance == Spec => []IInv
BY InitHolds, StepKeeps, PTL DEF Spec

\* Every variable keeps its type.
THEOREM TypeCorrect == Spec => []TypeOK
<1>1. IInv => TypeOK
  BY DEF IInv
<1>2. QED
  BY <1>1, Invariance, PTL

\* Whatever calls of start, restart, cancel and collect overlap, a running task is
\* the one registered under its tag: no tag has two, and none is lost.
THEOREM OneTaskPerTag == Spec => []LiveIsRegistered
<1>1. IInv => LiveIsRegistered
  BY DEF IInv
<1>2. QED
  BY <1>1, Invariance, PTL

\* restart holds the lock only while a task it has cancelled takes to end.
THEOREM RestartWaitIsCancelled == Spec => []RestartAwaitsCancelled
<1>1. IInv => RestartAwaitsCancelled
  BY DEF IInv
<1>2. QED
  BY <1>1, Invariance, PTL

\* No process waits for the lock it holds, and none is queued twice.
THEOREM NoProcessWaitsForItself == Spec => []NoSelfWait
<1>1. IInv => NoSelfWait
  BY DEF IInv
<1>2. QED
  BY <1>1, Invariance, PTL

\* Only the last step of a forced collect turns the service "closed".
LEMMA ClosingStep ==
  ASSUME IInv, [Next]_vars, service' = "closed", service # "closed"
  PROVE  running' = {}
<1>1. ASSUME NEW p \in Procs, Step(p)
      PROVE  ForceSection(p)
  BY <1>1, SectionCases DEF StartSection, RestartSection, CancelSection,
     CancelAllSection, CollectSection, RestartResume
<1>2. PICK p \in Procs : Step(p)
  <2>1. ASSUME NEW p \in Callers, NEW op \in DOMAIN Operations, NEW g \in Tags,
               Call(p, op, g)
        PROVE  FALSE
    BY <2>1 DEF Call
  <2>2. CASE CollectorWakes
    BY <2>2 DEF CollectorWakes
  <2>3. ASSUME NEW exc \in BOOLEAN, Exit(exc)
        PROVE  FALSE
    BY <2>3 DEF Exit
  <2>4. ASSUME NEW p \in Callers \cup {Closer}, InterruptWait(p) \/ InterruptAwait(p)
        PROVE  FALSE
    BY <2>4 DEF InterruptWait, InterruptAwait
  <2>5. ASSUME NEW t \in Tasks, TaskEnds(t)
        PROVE  FALSE
    BY <2>5 DEF TaskEnds
  <2>6. ~Tick /\ ~UNCHANGED vars
    BY DEF Tick, vars
  <2>7. QED
    BY <2>1, <2>2, <2>3, <2>4, <2>5, <2>6 DEF Next
<1>3. (\A g \in Tags : ~Live(g)) /\ running' = running
  <2>1. ForceSection(p)
    BY <1>1, <1>2
  <2>2. QED
    BY <2>1 DEF ForceSection
<1>4. QED
  BY <1>3, NoneLive

\* __aexit__ completes only when no task runs.
THEOREM ExitLeavesNoTask == Spec => ClosedWithNoneRunning
<1>1. IInv /\ [Next]_vars => [service' = "closed" /\ service # "closed" => running' = {}]_vars
  BY ClosingStep
<1>2. QED
  BY <1>1, Invariance, PTL DEF Spec, ClosedWithNoneRunning

---------------------------------------------------------------------------
\* The occupants of the slots are exactly the running tasks.
LEMMA OccupantsAreRunning ==
  ASSUME TaskInv
  PROVE  Slots!Occupants = running
<1>1. NoTask \notin running
  BY NoTaskFresh DEF TaskInv
<1>2. ASSUME NEW t \in running PROVE t \in Slots!Occupants
  <2>1. TagOf(t) \in Tags /\ registry[TagOf(t)] = t
    BY DEF TaskInv, LiveIsRegistered, Tasks, TagOf
  <2>2. slot[TagOf(t)] = t
    BY <2>1 DEF slot, Live
  <2>3. QED
    BY <1>1, <2>1, <2>2 DEF Slots!Occupants
<1>3. ASSUME NEW t \in Slots!Occupants PROVE t \in running
  BY DEF Slots!Occupants, slot, Live
<1>4. QED
  BY <1>2, <1>3

\* Creating a task under a tag whose task is done begins a task in an empty slot.
LEMMA CreateBegins ==
  ASSUME TaskInv, NEW g \in Tags, ~Live(g), Create(g)
  PROVE  Slots!Next
<1>1. PICK t \in {g} \X Runs :
        /\ t \notin running
        /\ registry[g] # t
        /\ running' = running \cup {t}
        /\ registry' = [registry EXCEPT ![g] = t]
        /\ cancelReq' = cancelReq
  BY DEF Create
<1>2. t \in Tasks /\ TagOf(t) = g
  BY DEF Tasks, TagOf
<1>3. slot[g] = NoTask
  BY DEF slot
<1>4. t \notin Slots!Occupants
  BY <1>1, OccupantsAreRunning
<1>5. ASSUME NEW h \in Tags, h # g
      PROVE  slot'[h] = slot[h]
  <2>1. registry'[h] = registry[h]
    BY <1>1, <1>5 DEF TaskInv
  <2>2. registry[h] # t
    BY <1>2, <1>5, NoTaskFresh DEF TaskInv, RegisteredUnderOwnTag
  <2>3. Live(h)' <=> Live(h)
    BY <1>1, <2>1, <2>2 DEF Live
  <2>4. QED
    BY <2>1, <2>3 DEF slot
<1>6. slot'[g] = t
  BY <1>1 DEF TaskInv, slot, Live
<1>7. slot' = [slot EXCEPT ![g] = t]
  BY <1>5, <1>6 DEF slot
<1>8. Slots!Begin(g, t)
  BY <1>1, <1>3, <1>4, <1>7 DEF Slots!Begin
<1>9. QED
  BY <1>2, <1>8 DEF Slots!Next

\* A cancel request asks occupants to stop.
LEMMA RequestStops ==
  ASSUME TaskInv, NEW S, RequestCancel(S)
  PROVE  Slots!Next
<1>1. slot' = slot
  BY DEF RequestCancel, slot, Live
<1>2. Slots!Stop(S \cap running)
  BY <1>1, OccupantsAreRunning DEF RequestCancel, Slots!Stop
<1>3. S \cap running \in SUBSET Tasks
  BY DEF TaskInv
<1>4. QED
  BY <1>2, <1>3 DEF Slots!Next

\* A task that ends leaves its slot.
LEMMA EndLeaves ==
  ASSUME TaskInv, NEW t \in Tasks, TaskEnds(t)
  PROVE  Slots!Next
<1>1. /\ t \in running
      /\ running' = running \ {t}
      /\ cancelReq' = cancelReq \ {t}
      /\ registry' = registry
  BY DEF TaskEnds
<1>2. TagOf(t) \in Tags /\ registry[TagOf(t)] = t
  BY <1>1 DEF TaskInv, LiveIsRegistered, Tasks, TagOf
<1>3. slot[TagOf(t)] = t /\ t # NoTask
  BY <1>1, <1>2, NoTaskFresh DEF slot, Live
<1>4. ASSUME NEW h \in Tags, h # TagOf(t)
      PROVE  slot'[h] = slot[h]
  <2>1. registry[h] # t
    BY <1>4, <1>3 DEF TaskInv, RegisteredUnderOwnTag
  <2>2. QED
    BY <1>1, <2>1 DEF slot, Live
<1>5. slot'[TagOf(t)] = NoTask
  BY <1>1, <1>2 DEF slot, Live
<1>6. slot' = [slot EXCEPT ![TagOf(t)] = NoTask]
  BY <1>4, <1>5 DEF slot
<1>7. Slots!End(TagOf(t))
  BY <1>1, <1>3, <1>6 DEF Slots!End
<1>8. QED
  BY <1>2, <1>7 DEF Slots!Next

LEMMA StutterSlots ==
  ASSUME UNCHANGED tasks
  PROVE  UNCHANGED Slots!vars
BY DEF tasks, Slots!vars, slot, Live

\* Each step of the service begins, stops or ends tasks in slots, or is a stutter.
LEMMA StepImplements == IInv /\ [Next]_vars => [Slots!Next]_(Slots!vars)
<1> SUFFICES ASSUME IInv, [Next]_vars
             PROVE  Slots!Next \/ UNCHANGED Slots!vars
  OBVIOUS
<1>1. TaskInv
  BY DEF IInv, TypeOK, TaskInv
<1>2. ASSUME NEW p \in Procs, Step(p)
      PROVE  Slots!Next \/ UNCHANGED Slots!vars
  <2>1. arg[p] \in Tags
    BY DEF IInv, TypeOK
  <2>2. CASE StartSection(p)
    BY <1>1, <2>1, <2>2, CreateBegins, StutterSlots DEF StartSection
  <2>3. CASE RestartSection(p)
    BY <1>1, <2>1, <2>3, CreateBegins, RequestStops DEF RestartSection
  <2>4. CASE /\ Head(todo[p]) = "restart" /\ RestartResume(p)
             /\ holder = p /\ awaited \notin running
    <3>1. ~Live(arg[p])
      BY <2>4 DEF IInv, RestartAwaitsCancelled, Live
    <3>2. QED
      BY <1>1, <2>1, <2>4, <3>1, CreateBegins DEF RestartResume
  <2>5. CASE CancelSection(p) \/ CancelAllSection(p)
    BY <1>1, <2>5, RequestStops DEF CancelSection, CancelAllSection
  <2>6. CASE CollectSection(p)
    <3>1. slot' = slot /\ cancelReq' = cancelReq
      <4>1. NoTask \notin running /\ running' = running
        BY <2>6, NoTaskFresh DEF CollectSection, IInv, TypeOK
      <4>2. registry' = [g \in Tags |-> IF Live(g) THEN registry[g] ELSE NoTask]
        BY <2>6 DEF CollectSection
      <4>3. \A g \in Tags : slot'[g] = slot[g]
        BY <4>1, <4>2 DEF slot, Live
      <4>4. QED
        BY <2>6, <4>3 DEF slot, CollectSection
    <3>2. QED
      BY <3>1 DEF Slots!vars
  <2>7. CASE ForceSection(p)
    <3>1. CASE UNCHANGED tasks
      BY <3>1, StutterSlots
    <3>2. CASE /\ \A g \in Tags : ~Live(g)
               /\ registry' = [g \in Tags |-> NoTask]
               /\ UNCHANGED <<running, cancelReq>>
      <4>1. \A g \in Tags : slot[g] = NoTask /\ slot'[g] = NoTask
        BY <3>2, NoTaskFresh DEF slot, Live, IInv, TypeOK
      <4>2. QED
        BY <3>2, <4>1 DEF Slots!vars, slot
    <3>3. QED
      BY <2>7, <3>1, <3>2 DEF ForceSection
  <2>8. QED
    BY <1>2, <2>2, <2>3, <2>4, <2>5, <2>6, <2>7, SectionCases
<1>3. ASSUME NEW p \in Callers, NEW op \in DOMAIN Operations, NEW g \in Tags,
             Call(p, op, g)
      PROVE  UNCHANGED tasks
  BY <1>3 DEF Call
<1>4. CASE CollectorWakes
  BY <1>4, StutterSlots DEF CollectorWakes
<1>5. ASSUME NEW exc \in BOOLEAN, Exit(exc)
      PROVE  UNCHANGED tasks
  BY <1>5 DEF Exit
<1>6. ASSUME NEW p \in Callers \cup {Closer}, InterruptWait(p)
      PROVE  UNCHANGED tasks
  BY <1>6 DEF InterruptWait
<1>7. ASSUME NEW p \in Callers \cup {Closer}, InterruptAwait(p)
      PROVE  Slots!Next
  BY <1>1, <1>7, RequestStops DEF InterruptAwait
<1>8. ASSUME NEW t \in Tasks, TaskEnds(t)
      PROVE  Slots!Next
  BY <1>1, <1>8, EndLeaves
<1>9. CASE Tick \/ UNCHANGED vars
  BY <1>9, StutterSlots DEF Tick, vars, tasks
<1>10. QED
  BY <1>2, <1>3, <1>4, <1>5, <1>6, <1>7, <1>8, <1>9, StutterSlots DEF Next

\* Initially every slot is empty.
LEMMA InitImplements == Init => Slots!Init
BY DEF Init, Slots!Init, slot, Live

\* The service behind its lock is one slot per tag that holds at most one task.
THEOREM Refinement == Spec => ImplementsSlots
<1>1. Spec => Slots!Init /\ [][Slots!Next]_(Slots!vars)
  BY InitImplements, StepImplements, Invariance, PTL DEF Spec
<1>2. QED
  BY <1>1 DEF ImplementsSlots, Slots!Spec

---------------------------------------------------------------------------
\* The time of the last collection.  Whoever is about to store its `now` is inside
\* collect (t and a stand for todo and age).
Due(t, p) == t[p] # <<>> /\ Head(t[p]) \in {"collect", "force"}

\* Along the queue q the clock readings become younger, and none is older than b.
Sorted(q, b, t, a) ==
  /\ \A i \in 1..Len(q) : Due(t, q[i]) => a[q[i]] <= b
  /\ \A i, j \in 1..Len(q) : i < j /\ Due(t, q[i]) /\ Due(t, q[j]) => a[q[j]] <= a[q[i]]

\* A process that waits for the lock has read the clock after the last collection, and
\* before those who wait behind it; so has the one that forces a collection.
NowsInOrder ==
  /\ Sorted(waiters, gcAge, todo, age)
  /\ \A p \in Procs : holder = p /\ Due(todo, p) =>
       age[p] <= gcAge /\ Sorted(waiters, age[p], todo, age)

\* Removing an element leaves the others in order.
LEMMA SortedPart ==
  ASSUME NEW q \in Seq(Procs), NEW r \in Seq(Procs), NEW b, NEW t, NEW a, Sorted(q, b, t, a),
         NEW f \in [1..Len(r) -> 1..Len(q)],
         \A i \in 1..Len(r) : r[i] = q[f[i]],
         \A i, j \in 1..Len(r) : i < j => f[i] < f[j]
  PROVE  Sorted(r, b, t, a)
<1>1. \A i \in 1..Len(r) : f[i] \in 1..Len(q)
  OBVIOUS
<1>2. ASSUME NEW i \in 1..Len(r), Due(t, r[i])
      PROVE  a[r[i]] <= b
  BY <1>1, <1>2 DEF Sorted
<1>3. ASSUME NEW i \in 1..Len(r), NEW j \in 1..Len(r), i < j, Due(t, r[i]), Due(t, r[j])
      PROVE  a[r[j]] <= a[r[i]]
  BY <1>1, <1>3 DEF Sorted
<1> QED
  BY <1>2, <1>3 DEF Sorted

LEMMA SortedTail ==
  ASSUME NEW q \in Seq(Procs), q # <<>>, NEW b, NEW t, NEW a, Sorted(q, b, t, a)
  PROVE  /\ Sorted(Tail(q), b, t, a)
         /\ Due(t, Head(q)) => a[Head(q)] <= b /\ Sorted(Tail(q), a[Head(q)], t, a)
<1>1. /\ Tail(q) \in Seq(Procs) /\ Len(Tail(q)) = Len(q) - 1 /\ Len(q) \in Nat \ {0}
      /\ \A i \in 1..Len(Tail(q)) : Tail(q)[i] = q[i + 1]
      /\ Head(q) = q[1]
  OBVIOUS
<1> DEFINE f == [i \in 1..Len(Tail(q)) |-> i + 1]
<1>2. /\ f \in [1..Len(Tail(q)) -> 1..Len(q)]
      /\ \A i \in 1..Len(Tail(q)) : Tail(q)[i] = q[f[i]]
      /\ \A i, j \in 1..Len(Tail(q)) : i < j => f[i] < f[j]
  BY <1>1
<1> HIDE DEF f
<1>3. Sorted(Tail(q), b, t, a)
  BY <1>1, <1>2, SortedPart
<1>4. ASSUME Due(t, Head(q))
      PROVE  a[Head(q)] <= b /\ Sorted(Tail(q), a[Head(q)], t, a)
  <2>1. 1 \in 1..Len(q) /\ \A i \in 1..Len(Tail(q)) : i + 1 \in 1..Len(q) /\ 1 < i + 1
    BY <1>1
  <2>2. a[Head(q)] <= b
    BY <1>1, <1>4, <2>1 DEF Sorted
  <2>3. \A i \in 1..Len(Tail(q)) : Due(t, Tail(q)[i]) => a[Tail(q)[i]] <= a[Head(q)]
    BY <1>1, <1>4, <2>1 DEF Sorted
  <2> QED
    BY <1>3, <2>2, <2>3 DEF Sorted
<1> QED
  BY <1>3, <1>4

LEMMA SortedRemoved ==
  ASSUME NEW q \in Seq(Procs), NEW k \in 1..Len(q), NEW b, NEW t, NEW a, Sorted(q, b, t, a)
  PROVE  Sorted(RemoveAt(q, k), b, t, a)
<1>1. /\ RemoveAt(q, k) \in Seq(Procs)
      /\ Len(RemoveAt(q, k)) = Len(q) - 1
      /\ \A i \in 1..(Len(q) - 1) : RemoveAt(q, k)[i] = q[IF i < k THEN i ELSE i + 1]
  BY RemoveAtElements
<1>2. Len(q) \in Nat
  OBVIOUS
<1> DEFINE f == [i \in 1..(Len(q) - 1) |-> IF i < k THEN i ELSE i + 1]
<1>3. /\ f \in [1..(Len(q) - 1) -> 1..Len(q)]
      /\ \A i \in 1..(Len(q) - 1) : RemoveAt(q, k)[i] = q[f[i]]
      /\ \A i, j \in 1..(Len(q) - 1) : i < j => f[i] < f[j]
  BY <1>1, <1>2
<1> HIDE DEF f
<1> QED
  BY <1>1, <1>3, SortedPart

\* Who is not in the queue may change, and may join it with a new reading.
LEMMA SortedJoined ==
  ASSUME NEW q \in Seq(Procs), NEW b \in Nat, NEW p \in Procs,
         NEW t, NEW a \in [Procs -> Nat], NEW t2, NEW a2,
         Sorted(q, b, t, a), \A i \in 1..Len(q) : q[i] # p,
         \A x \in Procs \ {p} : t2[x] = t[x] /\ a2[x] = a[x], a2[p] = 0
  PROVE  Sorted(q, b, t2, a2) /\ Sorted(Append(q, p), b, t2, a2)
<1>1. \A i \in 1..Len(q) : /\ q[i] \in Procs \ {p} /\ a[q[i]] \in Nat /\ a2[q[i]] = a[q[i]]
                           /\ Due(t2, q[i]) <=> Due(t, q[i])
  BY DEF Due
<1>2. Sorted(q, b, t2, a2)
  BY <1>1 DEF Sorted
<1>3. /\ Append(q, p) \in Seq(Procs) /\ Len(Append(q, p)) = Len(q) + 1 /\ Len(q) \in Nat
      /\ Append(q, p)[Len(q) + 1] = p
      /\ \A i \in 1..Len(q) : Append(q, p)[i] = q[i]
  BY AppendProperties
<1>4. \A i \in 1..(Len(q) + 1) : i \in 1..Len(q) \/ i = Len(q) + 1
  BY <1>3
<1>5. ASSUME NEW i \in 1..(Len(q) + 1), Due(t2, Append(q, p)[i])
      PROVE  a2[Append(q, p)[i]] <= b
  BY <1>2, <1>3, <1>4, <1>5 DEF Sorted
<1>6. ASSUME NEW i \in 1..(Len(q) + 1), NEW j \in 1..(Len(q) + 1), i < j,
             Due(t2, Append(q, p)[i]), Due(t2, Append(q, p)[j])
      PROVE  a2[Append(q, p)[j]] <= a2[Append(q, p)[i]]
  <2>1. i \in 1..Len(q)
    BY <1>3, <1>6
  <2>2. CASE j \in 1..Len(q)
    BY <1>2, <1>3, <1>6, <2>1, <2>2 DEF Sorted
  <2>3. CASE j = Len(q) + 1
    BY <1>1, <1>3, <2>1, <2>3
  <2> QED
    BY <1>4, <2>2, <2>3
<1> QED
  BY <1>2, <1>3, <1>5, <1>6 DEF Sorted

\* Time passes for all readings alike.
LEMMA SortedOlder ==
  ASSUME NEW q \in Seq(Procs), NEW b \in 0..Interval,
         NEW t, NEW a \in [Procs -> 0..Interval], NEW a2, Sorted(q, b, t, a),
         \A x \in Procs : Due(t, x) => a2[x] = Older(a[x])
  PROVE  Sorted(q, Older(b), t, a2)
<1>1. \A m, n \in 0..Interval : m <= n => Older(m) <= Older(n)
  BY IntervalPositive DEF Older
<1>2. \A i \in 1..Len(q) : q[i] \in Procs /\ a[q[i]] \in 0..Interval
  OBVIOUS
<1> QED
  BY <1>1, <1>2 DEF Sorted

\* What p finds when it takes the lock or goes on with it: its own reading is the
\* oldest, and younger than the last collection.
LEMMA OthersSorted ==
  ASSUME IInv, NowsInOrder, NEW p \in Procs, AtSection(p)
  PROVE  /\ Others(p) \in Seq(Procs)
         /\ \A i \in 1..Len(Others(p)) : Others(p)[i] # p
         /\ Sorted(Others(p), gcAge, todo, age)
         /\ Due(todo, p) => age[p] <= gcAge /\ Sorted(Others(p), age[p], todo, age)
<1>1. /\ Others(p) \in Seq(Procs)
      /\ \A i \in 1..Len(Others(p)) : Others(p)[i] # p
  BY OthersQueue DEF IInv, QueueInv
<1>2. CASE holder = p
  BY <1>1, <1>2 DEF Others, NowsInOrder
<1>3. CASE holder = Free /\ waiters # <<>> /\ Head(waiters) = p
  <2>1. Others(p) = Tail(waiters) /\ waiters \in Seq(Procs) /\ waiters # <<>> /\ Head(waiters) = p
    BY <1>3, FreeFresh DEF Others, IInv, TypeOK
  <2>2. PICK b, t, a : b = gcAge /\ t = todo /\ a = age
    OBVIOUS
  <2>3. Sorted(waiters, b, t, a)
    BY <2>2 DEF NowsInOrder
  <2>4. /\ Sorted(Tail(waiters), b, t, a)
        /\ Due(t, Head(waiters)) => /\ a[Head(waiters)] <= b
                                    /\ Sorted(Tail(waiters), a[Head(waiters)], t, a)
    <3>1. PICK q \in Seq(Procs) : q = waiters
      BY <2>1
    <3> QED
      BY <2>1, <2>3, <3>1, SortedTail
  <2> QED
    BY <1>1, <2>1, <2>2, <2>4
<1> QED
  BY <1>2, <1>3 DEF AtSection

\* p runs on from a queue it is not in, and whoever holds the lock, if anyone does,
\* is another.
LEMMA RunOnSorted ==
  ASSUME TypeOK, NEW p \in Procs, NEW sections, NEW queue \in Seq(Procs),
         RunOn(p, sections, queue), \A i \in 1..Len(queue) : queue[i] # p,
         NEW b \in Nat, Sorted(queue, b, todo, age)
  PROVE  Sorted(waiters', b, todo', age')
<1>1. PICK t, t2, a2 : t = todo /\ t2 = todo' /\ a2 = age'
  OBVIOUS
<1>2. PICK a \in [Procs -> Nat] : a = age
  BY IntervalPositive DEF TypeOK
<1>3. /\ \A x \in Procs \ {p} : t2[x] = t[x] /\ a2[x] = a[x]
      /\ a2[p] = 0
      /\ waiters' = queue \/ waiters' = Append(queue, p)
  BY <1>1, <1>2 DEF RunOn, TypeOK
<1>4. Sorted(queue, b, t, a)
  BY <1>1, <1>2
<1>5. Sorted(queue, b, t2, a2) /\ Sorted(Append(queue, p), b, t2, a2)
  BY <1>3, <1>4, SortedJoined
<1> QED
  BY <1>1, <1>3, <1>5

\* A section that ends leaves the time of the last collection or makes it p's reading.
LEMMA FinishNows ==
  ASSUME IInv, NowsInOrder, NEW p \in Procs, AtSection(p), Finish(p),
         \/ gcAge' = gcAge
         \/ Due(todo, p) /\ gcAge' = age[p]
  PROVE  NowsInOrder' /\ gcAge' <= gcAge
<1>1. gcAge \in 0..Interval /\ age[p] \in 0..Interval /\ TypeOK
  BY DEF IInv, TypeOK
<1>2. /\ RunOn(p, Tail(todo[p]), Others(p)) /\ holder' = Free
  BY DEF Finish, Others
<1>3. PICK b \in Nat : b = gcAge'
  BY <1>1, IntervalPositive
<1>4. Sorted(Others(p), b, todo, age) /\ b <= gcAge
  BY <1>1, <1>3, OthersSorted
<1>5. PICK queue \in Seq(Procs) : queue = Others(p)
  BY OthersSorted
<1>a. PICK sections : sections = Tail(todo[p])
  OBVIOUS
<1>6. Sorted(waiters', b, todo', age')
  <2>1. \A i \in 1..Len(queue) : queue[i] # p
    BY <1>5, OthersSorted
  <2> QED
    BY <1>1, <1>2, <1>4, <1>5, <1>a, <2>1, RunOnSorted
<1> QED
  BY <1>2, <1>3, <1>4, <1>6, FreeFresh DEF NowsInOrder

\* A section that suspends leaves it.
LEMMA AwaitNows ==
  ASSUME IInv, NowsInOrder, NEW p \in Procs, AtSection(p), NEW t, Await(p, t), gcAge' = gcAge
  PROVE  NowsInOrder' /\ gcAge' <= gcAge
<1>1. waiters' = Others(p) /\ holder' = p /\ UNCHANGED <<todo, age>>
  BY DEF Await, Others
<1>2. gcAge' <= gcAge
  BY DEF IInv, TypeOK
<1>3. NowsInOrder'
  <2>1. Sorted(waiters', gcAge', todo', age')
    BY <1>1, OthersSorted
  <2>2. ASSUME NEW q \in Procs, holder' = q, Due(todo', q)
        PROVE  age'[q] <= gcAge' /\ Sorted(waiters', age'[q], todo', age')
    BY <1>1, <2>2, OthersSorted
  <2> QED
    BY <2>1, <2>2 DEF NowsInOrder
<1> QED
  BY <1>2, <1>3

LEMMA SectionNows ==
  ASSUME IInv, NowsInOrder, NEW p \in Procs, Step(p)
  PROVE  NowsInOrder' /\ gcAge' <= gcAge
<1>1. AtSection(p) /\ todo[p] # <<>>
  BY SectionCases
<1>2. CASE Head(todo[p]) = "force" /\ ForceSection(p)
  <2>1. Due(todo, p)
    BY <1>1, <1>2 DEF Due
  <2> QED
    BY <1>1, <1>2, <2>1, FinishNows, AwaitNows DEF ForceSection
<1>3. CASE Head(todo[p]) = "collect" /\ CollectSection(p)
  <2>1. Due(todo, p)
    BY <1>1, <1>3 DEF Due
  <2> QED
    BY <1>1, <1>3, <2>1, FinishNows DEF CollectSection
<1>4. CASE StartSection(p) \/ CancelSection(p) \/ CancelAllSection(p) \/ RestartResume(p)
  BY <1>1, <1>4, FinishNows DEF StartSection, CancelSection, CancelAllSection, RestartResume
<1>5. CASE RestartSection(p)
  BY <1>1, <1>5, FinishNows, AwaitNows DEF RestartSection
<1> QED
  BY <1>2, <1>3, <1>4, <1>5, SectionCases

\* A call that begins reads the clock last.
LEMMA EnterNows ==
  ASSUME IInv, NowsInOrder, NEW p \in Procs, todo[p] = <<>>, NEW sections,
         RunOn(p, sections, waiters), UNCHANGED <<holder, gcAge>>
  PROVE  NowsInOrder'
<1>1. /\ TypeOK /\ holder # p
      /\ \A i \in 1..Len(waiters) : waiters[i] # p
  BY DEF IInv, HolderSuspended, QueuedIsCalling
<1>2. PICK queue \in Seq(Procs) : queue = waiters
  BY <1>1 DEF TypeOK
<1>3. PICK b \in Nat : b = gcAge
  BY <1>1, IntervalPositive DEF TypeOK
<1>4. Sorted(waiters', gcAge', todo', age')
  <2>1. Sorted(queue, b, todo, age)
    BY <1>2, <1>3 DEF NowsInOrder
  <2>2. RunOn(p, sections, queue)
    BY <1>2
  <2>3. Sorted(waiters', b, todo', age')
    BY <1>1, <1>2, <2>1, <2>2, RunOnSorted
  <2> QED
    BY <1>3, <2>3
<1>5. ASSUME NEW q \in Procs, holder' = q, Due(todo', q)
      PROVE  age'[q] <= gcAge' /\ Sorted(waiters', age'[q], todo', age')
  <2>1. holder = q /\ q # p /\ todo'[q] = todo[q] /\ age'[q] = age[q]
    BY <1>1, <1>5 DEF RunOn, TypeOK
  <2>2. Due(todo, q)
    BY <1>5, <2>1 DEF Due
  <2>3. PICK c \in Nat : c = age[q]
    BY <1>1, IntervalPositive DEF TypeOK
  <2>4. Sorted(queue, c, todo, age) /\ RunOn(p, sections, queue) /\ c <= gcAge
    BY <1>2, <2>1, <2>2, <2>3 DEF NowsInOrder
  <2>5. Sorted(waiters', c, todo', age')
    BY <1>1, <1>2, <2>4, RunOnSorted
  <2> QED
    BY <2>1, <2>3, <2>4, <2>5
<1> QED
  BY <1>4, <1>5 DEF NowsInOrder

\* A call that is abandoned leaves the queue.
LEMMA InterruptNows ==
  ASSUME IInv, NowsInOrder, NEW p \in Procs, InterruptWait(p)
  PROVE  NowsInOrder'
<1>1. TypeOK /\ UNCHANGED <<holder, gcAge>>
  BY DEF IInv, InterruptWait
<1>2. PICK k \in 1..Len(waiters) : waiters[k] = p /\ waiters' = RemoveAt(waiters, k)
  BY DEF InterruptWait
<1>3. PICK q \in Seq(Procs) : q = waiters
  BY <1>1 DEF TypeOK
<1>4. holder # p
  BY <1>2 DEF IInv, NoSelfWait
<1>5. PICK r \in Seq(Procs) : r = RemoveAt(q, k)
  BY <1>2, <1>3, RemoveAtElements
<1>6. \A i \in 1..Len(r) : r[i] # p
  <2>1. IInv'
    BY InterruptWaitKeeps
  <2>2. todo'[p] = <<>>
    BY <1>1 DEF InterruptWait, TypeOK
  <2>3. r = waiters'
    BY <1>2, <1>3, <1>5
  <2> QED
    BY <2>1, <2>2, <2>3 DEF IInv, QueuedIsCalling
<1>7. PICK t, t2, a2 : t = todo /\ t2 = todo' /\ a2 = age'
  OBVIOUS
<1>8. PICK a \in [Procs -> Nat] : a = age
  BY <1>1, IntervalPositive DEF TypeOK
<1>9. /\ \A x \in Procs \ {p} : t2[x] = t[x] /\ a2[x] = a[x]
      /\ a2[p] = 0
  BY <1>1, <1>7, <1>8 DEF InterruptWait, TypeOK
<1>10. ASSUME NEW b \in Nat, Sorted(waiters, b, todo, age)
       PROVE  Sorted(waiters', b, todo', age')
  <2>1. Sorted(q, b, t, a) /\ k \in 1..Len(q)
    BY <1>2, <1>3, <1>7, <1>8, <1>10
  <2>2. Sorted(r, b, t, a)
    BY <1>5, <2>1, SortedRemoved
  <2>3. Sorted(r, b, t2, a2)
    BY <1>6, <1>9, <2>2, SortedJoined
  <2> QED
    BY <1>2, <1>3, <1>5, <1>7, <2>3
<1>11. Sorted(waiters', gcAge', todo', age')
  <2>1. PICK b \in Nat : b = gcAge
    BY <1>1, IntervalPositive DEF TypeOK
  <2> QED
    BY <1>1, <1>10, <2>1 DEF NowsInOrder
<1>12. ASSUME NEW x \in Procs, holder' = x, Due(todo', x)
       PROVE  age'[x] <= gcAge' /\ Sorted(waiters', age'[x], todo', age')
  <2>1. holder = x /\ x # p /\ todo'[x] = todo[x] /\ age'[x] = age[x]
    BY <1>1, <1>4, <1>7, <1>8, <1>9, <1>12
  <2>2. Due(todo, x)
    BY <1>12, <2>1 DEF Due
  <2>3. PICK c \in Nat : c = age[x]
    BY <1>1, IntervalPositive DEF TypeOK
  <2>4. Sorted(waiters, c, todo, age) /\ c <= gcAge
    BY <2>1, <2>2, <2>3 DEF NowsInOrder
  <2>5. Sorted(waiters', c, todo', age')
    BY <1>10, <2>4
  <2> QED
    BY <1>1, <2>1, <2>3, <2>4, <2>5
<1> QED
  BY <1>11, <1>12 DEF NowsInOrder

LEMMA TickNows ==
  ASSUME IInv, NowsInOrder, Tick
  PROVE  NowsInOrder'
<1>1. TypeOK /\ UNCHANGED <<todo, waiters, holder>> /\ gcAge' = Older(gcAge)
  BY DEF IInv, Tick
<1>a. PICK q \in Seq(Procs) : q = waiters
  BY <1>1 DEF TypeOK
<1>b. PICK t, a2 : t = todo /\ a2 = age'
  OBVIOUS
<1>2. q = waiters /\ t = todo /\ a2 = age'
  BY <1>a, <1>b
<1>3. PICK a \in [Procs -> 0..Interval] : a = age
  BY <1>1 DEF TypeOK
<1>4. \A x \in Procs : Due(t, x) => a2[x] = Older(a[x])
  BY <1>2, <1>3 DEF Tick, Timed, Due
<1>5. ASSUME NEW b \in 0..Interval, Sorted(q, b, t, a)
      PROVE  Sorted(q, Older(b), t, a2)
  BY <1>4, <1>5, SortedOlder
<1>6. Sorted(waiters', gcAge', todo', age')
  <2>1. PICK b \in 0..Interval : b = gcAge
    BY <1>1 DEF TypeOK
  <2>2. Sorted(q, Older(b), t, a2)
    BY <1>2, <1>3, <1>5, <2>1 DEF NowsInOrder
  <2> QED
    BY <1>1, <1>2, <2>1, <2>2
<1>7. ASSUME NEW p \in Procs, holder' = p, Due(todo', p)
      PROVE  age'[p] <= gcAge' /\ Sorted(waiters', age'[p], todo', age')
  <2>1. holder = p /\ Due(todo, p)
    BY <1>1, <1>7
  <2>2. PICK b \in 0..Interval, c \in 0..Interval : b = gcAge /\ c = age[p]
    BY <1>1 DEF TypeOK
  <2>3. c <= b /\ Sorted(q, c, t, a)
    BY <1>2, <1>3, <2>1, <2>2 DEF NowsInOrder
  <2>4. age'[p] = Older(c)
    BY <1>2, <1>3, <1>4, <2>1, <2>2
  <2>5. Older(c) <= Older(b)
    BY <2>2, <2>3, IntervalPositive DEF Older
  <2>6. Sorted(q, Older(c), t, a2)
    BY <1>5, <2>3
  <2> QED
    BY <1>1, <1>2, <2>2, <2>4, <2>5, <2>6
<1> QED
  BY <1>6, <1>7 DEF NowsInOrder

LEMMA InitNows == Init => NowsInOrder
<1> SUFFICES ASSUME Init PROVE NowsInOrder
  OBVIOUS
<1>1. Len(waiters) = 0 /\ \A p \in Procs : holder # p
  BY FreeFresh DEF Init
<1> QED
  BY <1>1 DEF NowsInOrder, Sorted

LEMMA NextNows ==
  ASSUME IInv, NowsInOrder, [Next]_vars
  PROVE  NowsInOrder' /\ (gcAge' <= gcAge \/ Tick)
<1>0. gcAge' = gcAge => gcAge' <= gcAge
  BY DEF IInv, TypeOK
<1>1. ASSUME UNCHANGED <<todo, waiters, holder, gcAge, age>>
      PROVE  NowsInOrder' /\ gcAge' <= gcAge
  BY <1>0, <1>1 DEF NowsInOrder
<1>2. ASSUME NEW p \in Callers, NEW op \in DOMAIN Operations, NEW g \in Tags, Call(p, op, g)
      PROVE  NowsInOrder' /\ gcAge' <= gcAge
  BY <1>0, <1>2, EnterNows DEF Call, Procs
<1>3. CASE CollectorWakes
  BY <1>0, <1>3, EnterNows DEF CollectorWakes, Procs
<1>4. ASSUME NEW exc \in BOOLEAN, Exit(exc)
      PROVE  NowsInOrder' /\ gcAge' <= gcAge
  BY <1>0, <1>4, EnterNows DEF Exit, Procs
<1>5. ASSUME NEW p \in Procs, Step(p)
      PROVE  NowsInOrder' /\ gcAge' <= gcAge
  BY <1>5, SectionNows
<1>6. ASSUME NEW p \in Callers \cup {Closer}, InterruptWait(p)
      PROVE  NowsInOrder' /\ gcAge' <= gcAge
  BY <1>0, <1>6, InterruptNows DEF InterruptWait, Procs
<1>7. ASSUME NEW p \in Callers \cup {Closer}, InterruptAwait(p)
      PROVE  NowsInOrder' /\ gcAge' <= gcAge
  BY <1>1, <1>7 DEF InterruptAwait
<1>8. ASSUME NEW t \in Tasks, TaskEnds(t)
      PROVE  NowsInOrder' /\ gcAge' <= gcAge
  BY <1>1, <1>8 DEF TaskEnds
<1>9. CASE Tick
  BY <1>9, TickNows
<1>10. CASE UNCHANGED vars
  BY <1>1, <1>10 DEF vars
<1> QED
  BY <1>2, <1>3, <1>4, <1>5, <1>6, <1>7, <1>8, <1>9, <1>10 DEF Next

\* collect reads `now` (line 101) before it waits for the lock and stores it after
\* (line 117): as the lock's queue is FIFO, whoever reads the clock first stores it
\* first, so the time of the last collection never moves back.
THEOREM CollectionTimeAdvances == Spec => GcNeverMovesBack
<1>1. Init => NowsInOrder
  BY InitNows
<1>2. IInv /\ NowsInOrder /\ [Next]_vars => NowsInOrder'
  BY NextNows
<1>3. IInv /\ NowsInOrder /\ [Next]_vars => [gcAge' <= gcAge \/ Tick]_vars
  BY NextNows
<1> QED
  BY <1>1, <1>2, <1>3, Invariance, PTL DEF Spec, GcNeverMovesBack
=============================================================================
