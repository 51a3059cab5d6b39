----------------------------- MODULE TaskSlots -----------------------------
(***************************************************************************)
(* What BackgroundTaskService promises, with no lock, queue or clock: each *)
(* tag is a slot that holds at most one task.  A task enters an empty slot *)
(* only, may be asked to stop, and leaves the slot by ending.              *)
(***************************************************************************)
CONSTANTS Tags, Tasks, NoTask

VARIABLES slot,      \* the task that occupies each tag, or NoTask
          stopping   \* the tasks that have been asked to stop

vars == <<slot, stopping>>

Occupants == {slot[g] : g \in Tags} \ {NoTask}

Init == slot = [g \in Tags |-> NoTask] /\ stopping = {}

Begin(g, t) ==
  /\ slot[g] = NoTask
  /\ t \notin Occupants
  /\ slot' = [slot EXCEPT ![g] = t]
  /\ UNCHANGED stopping

Stop(S) ==
  /\ S \subseteq Occupants
  /\ stopping' = stopping \cup S
  /\ UNCHANGED slot

End(g) ==
  /\ slot[g] # NoTask
  /\ slot' = [slot EXCEPT ![g] = NoTask]
  /\ stopping' = stopping \ {slot[g]}

Next == \/ \E g \in Tags, t \in Tasks : Begin(g, t)
        \/ \E S \in SUBSET Tasks : Stop(S)
        \/ \E g \in Tags : End(g)

Spec == Init /\ [][Next]_vars
=============================================================================
