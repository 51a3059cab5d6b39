------------------------------ MODULE Requests ------------------------------
(***************************************************************************)
(* The API's requests, packages/api/src/flux0_api and the middleware of    *)
(* server/src/flux0_server/app.py, over the user, agent and session stores *)
(* of core/storage/nanodb_memory.py and the correlation scopes of          *)
(* core/contextual_correlator.py: who a request acts for, what it checks   *)
(* before it acts, and under which correlation id its run speaks.          *)
(*                                                                         *)
(* Every call of a store waits for the store's lock, so others run between *)
(* any two of them.  A correlation id is the sequence of the scopes        *)
(* entered; it belongs to a task, and a new task begins with a copy of its *)
(* creator's.  Ids that the code generates are the request that does.      *)
(***************************************************************************)
EXTENDS Naturals, SequencesExt

CONSTANTS Requests,
          Calls,       \* what a request may ask: [kind, sub, agent, session, flag]
          Agents,      \* agents the modules created
          Given,       \* session ids that clients choose
          None

ASSUME NoneFresh == None \notin Calls \cup Requests

SessionIds == Given \cup Requests
AgentIds == Agents \cup Requests
Kinds == {"create_agent", "retrieve_agent", "list_agents", "create_session", "retrieve_session",
          "list_sessions", "list_events", "post"}

ASSUME CallsType ==
  \A c \in Calls : /\ c.kind \in Kinds /\ c.flag \in BOOLEAN
                   /\ c.agent \in AgentIds \cup {None} /\ c.session \in SessionIds \cup {None}

Tasks == {"http", "dispatcher", "run"} \X Requests
Rid(r) == <<"RID", r>>
Gen(r) == <<"gen", r>>

VARIABLES
  pc,        \* of each request's handler
  call,      \* what it was asked
  user,      \* the user it acts for
  held,      \* the session it has read, then the event it has stored
  ctx,       \* _scopes of each task
  users,     \* the users' collection
  agents,    \* the agents' collection
  sessions,  \* the sessions' collection
  events,    \* the messages stored
  subs,      \* what each request's stream has subscribed to
  disp,      \* each request's dispatcher: none, waiting, done
  run,       \* each request's run: none, running, done
  emitted,   \* history: the correlation ids each run has emitted under
  early,     \* history: requests whose look-up found no user of their sub
  listed     \* what a listing returned

handler == <<call, user, held>>
stores == <<users, agents, sessions, events>>
tasks == <<subs, disp, run, emitted>>
vars == <<pc, handler, ctx, stores, tasks, early, listed>>

Init == /\ pc = [r \in Requests |-> "idle"] /\ call = [r \in Requests |-> None]
        /\ user = [r \in Requests |-> None] /\ held = [r \in Requests |-> None]
        /\ ctx = [t \in Tasks |-> <<>>]
        /\ users = <<>> /\ agents = Agents /\ sessions = <<>> /\ events = {}
        /\ subs = [r \in Requests |-> {}]
        /\ disp = [r \in Requests |-> "none"] /\ run = [r \in Requests |-> "none"]
        /\ emitted = [r \in Requests |-> {}]
        /\ early = {} /\ listed = [r \in Requests |-> None]

---------------------------------------------------------------------------
At(r, p) == pc[r] = p
Goto(r, p) == pc' = [pc EXCEPT ![r] = p]
Kind(r) == call[r].kind

\* ContextualCorrelator.scope.
Enter(scopes, id) == Append(scopes, id)
Leave(scopes) == Front(scopes)

\* Where a collection has documents with value v in a field, and the first of these.
With(s, field, v) == {i \in DOMAIN s : s[i][field] = v}
FirstWith(s, field, v) == IF With(s, field, v) = {} THEN None ELSE s[Min(With(s, field, v))]

\* add_correlation_id: the rest of the request runs in its scope.
Arrive(r, c) ==
  /\ At(r, "idle")
  /\ Goto(r, "auth") /\ call' = [call EXCEPT ![r] = c]
  /\ ctx' = [ctx EXCEPT ![<<"http", r>>] = Enter(@, Rid(r))]
  /\ UNCHANGED <<user, held, stores, tasks, early, listed>>

---------------------------------------------------------------------------
\* NoopAuthHandler: reads the user of the sub, and creates it if there is none.

\* Mutant of UserOf: the user is the last one with the sub.
UserOf_Last(sub) == FirstWith(Reverse(users), "sub", sub)
UserOf(sub) == FirstWith(users, "sub", sub)

Authenticate(r) ==
  /\ At(r, "auth")
  /\ IF UserOf(call[r].sub) = None
     THEN Goto(r, "create_user") /\ early' = early \cup {r} /\ UNCHANGED user
     ELSE Goto(r, "handle") /\ user' = [user EXCEPT ![r] = UserOf(call[r].sub).id] /\ UNCHANGED early
  /\ UNCHANGED <<call, held, ctx, stores, tasks, listed>>

CreateUser(r) ==
  /\ At(r, "create_user")
  /\ users' = Append(users, [id |-> r, sub |-> call[r].sub])
  /\ user' = [user EXCEPT ![r] = r] /\ Goto(r, "handle")
  /\ UNCHANGED <<call, held, ctx, agents, sessions, events, tasks, early, listed>>

---------------------------------------------------------------------------
\* The routes of agents and sessions.  read_agent and read_session find by id.
Session(id) == FirstWith(sessions, "id", id)

CreateAgent(r) ==
  /\ At(r, "handle") /\ Kind(r) = "create_agent"
  /\ agents' = agents \cup {r} /\ Goto(r, "answered")
  /\ UNCHANGED <<handler, ctx, users, sessions, events, tasks, early, listed>>

\* retrieve_agent, and the look-up of the agent in create_session.
ReadAgent(r) ==
  /\ At(r, "handle") /\ Kind(r) \in {"retrieve_agent", "create_session"}
  /\ Goto(r, IF call[r].agent \notin agents THEN "refused"
             ELSE IF Kind(r) = "create_session" THEN "insert" ELSE "answered")
  /\ UNCHANGED <<handler, ctx, stores, tasks, early, listed>>

ListAgents(r) ==
  /\ At(r, "handle") /\ Kind(r) = "list_agents"
  /\ listed' = [listed EXCEPT ![r] = agents] /\ Goto(r, "answered")
  /\ UNCHANGED <<handler, ctx, stores, tasks, early>>

\* Mutant of Target: a session whose client gives no id gets none.
Target_AsGiven(r) == call[r].session

\* The session a request is about; one that the client leaves open is named by gen_id.
Target(r) == IF call[r].session = None THEN r ELSE call[r].session

\* Mutant of Owner: a session belongs to whoever has its id.
Owner_FirstOfId(r) == IF Session(Target(r)) = None THEN user[r] ELSE Session(Target(r)).user

Owner(r) == user[r]

\* create_user_session: nobody looks whether the id is free.
CreateSession(r) ==
  /\ At(r, "insert")
  /\ sessions' = Append(sessions, [id |-> Target(r), agent |-> call[r].agent,
                                   user |-> Owner(r), by |-> r])
  /\ Goto(r, IF call[r].flag THEN "greet" ELSE "answered")
  /\ UNCHANGED <<handler, ctx, users, agents, events, tasks, early, listed>>

\* list_sessions: those of the user, with the agent if one is given.
ListSessions(r) ==
  /\ At(r, "handle") /\ Kind(r) = "list_sessions"
  /\ listed' = [listed EXCEPT ![r] =
                  {s \in ToSet(sessions) : s.user = user[r] /\ call[r].agent \in {None, s.agent}}]
  /\ Goto(r, "answered")
  /\ UNCHANGED <<handler, ctx, stores, tasks, early>>

\* read_session: all of retrieve_session, and the first look-up of the routes of events,
\* before which a message that is not a user's text is refused.
ReadSession(r) ==
  /\ At(r, "handle") /\ Kind(r) \in {"retrieve_session", "list_events", "post"}
  /\ LET session == Session(call[r].session)
     IN /\ held' = [held EXCEPT ![r] = session]
        /\ Goto(r, IF session = None \/ (Kind(r) = "post" /\ ~call[r].flag) THEN "refused"
                   ELSE IF Kind(r) = "retrieve_session" THEN "answered" ELSE Kind(r))
  /\ UNCHANGED <<call, user, ctx, stores, tasks, early, listed>>

ListEvents(r) ==
  /\ At(r, "list_events")
  /\ listed' = [listed EXCEPT ![r] = {e \in events : e.session = call[r].session}]
  /\ Goto(r, "answered")
  /\ UNCHANGED <<handler, ctx, stores, tasks, early>>

---------------------------------------------------------------------------
\* _add_user_message goes on from the session it has read, which may be gone by now.
ReadSessionsAgent(r) ==
  /\ At(r, "post")
  /\ Goto(r, IF held[r].agent \in agents THEN "read_user" ELSE "refused")
  /\ UNCHANGED <<handler, ctx, stores, tasks, early, listed>>

\* The session's user is looked up for a name; post_event then enters its scope.
ReadSessionsUser(r) ==
  /\ At(r, "read_user")
  /\ Goto(r, "store")
  /\ ctx' = [ctx EXCEPT ![<<"http", r>>] = Enter(@, Gen(r))]
  /\ UNCHANGED <<handler, stores, tasks, early, listed>>

\* Mutant of StoreMessage: the dispatcher is created after the scope has been left.
StoreMessage_DispatchesOutside(r) ==
  LET corr == ctx[<<"http", r>>]
      event == [session |-> held[r].id, corr |-> corr, by |-> r]
  IN /\ At(r, "store") /\ Session(held[r].id) # None
     /\ events' = events \cup {event} /\ held' = [held EXCEPT ![r] = event]
     /\ disp' = [disp EXCEPT ![r] = "waiting"]
     /\ ctx' = [ctx EXCEPT ![<<"http", r>>] = Leave(corr), ![<<"dispatcher", r>>] = Leave(corr)]
     /\ Goto(r, "streaming")
     /\ UNCHANGED <<call, user, users, agents, sessions, subs, run, emitted, early, listed>>

\* post_event: the message is stored under the scope's id and a task, to which the scope is
\* copied, waits to dispatch the run.  The response, which streams, comes after the scope.
StoreMessage(r) ==
  LET corr == ctx[<<"http", r>>]
      event == [session |-> held[r].id, corr |-> corr, by |-> r]
  IN /\ At(r, "store") /\ Session(held[r].id) # None
     /\ events' = events \cup {event} /\ held' = [held EXCEPT ![r] = event]
     /\ disp' = [disp EXCEPT ![r] = "waiting"]
     /\ ctx' = [ctx EXCEPT ![<<"http", r>>] = Leave(corr), ![<<"dispatcher", r>>] = corr]
     /\ Goto(r, "streaming")
     /\ UNCHANGED <<call, user, users, agents, sessions, subs, run, emitted, early, listed>>

\* Mutant of StoreFails: the run is dispatched whether or not the message is stored.
StoreFails_Dispatches(r) ==
  /\ At(r, "store") /\ Session(held[r].id) = None
  /\ disp' = [disp EXCEPT ![r] = "waiting"]
  /\ ctx' = [ctx EXCEPT ![<<"http", r>>] = Leave(@), ![<<"dispatcher", r>>] = ctx[<<"http", r>>]]
  /\ Goto(r, "failed")
  /\ UNCHANGED <<handler, stores, subs, run, emitted, early, listed>>

\* create_event raises as the session has gone; the scope is left all the same.
StoreFails(r) ==
  /\ At(r, "store") /\ Session(held[r].id) = None
  /\ ctx' = [ctx EXCEPT ![<<"http", r>>] = Leave(@)]
  /\ Goto(r, "failed")
  /\ UNCHANGED <<handler, stores, tasks, early, listed>>

\* event_stream subscribes under the id of the event that was stored.
Subscribe(r) ==
  /\ At(r, "streaming") /\ subs[r] = {}
  /\ subs' = [subs EXCEPT ![r] = {held[r].corr}]
  /\ UNCHANGED <<pc, handler, ctx, stores, disp, run, emitted, early, listed>>

---------------------------------------------------------------------------
\* BackgroundTaskService.restart: the session's run is replaced, whoever began it.
Restarted(r) == [q \in Requests |->
                   IF q = r THEN "running"
                   ELSE IF run[q] = "running" /\ Target(q) = Target(r) THEN "done" ELSE run[q]]

\* dispatch_processing_task without an id enters a scope, but has left it when it restarts.
GreetScope(r) == Leave(Enter(ctx[<<"http", r>>], Gen(r)))

Greet(r) ==
  /\ At(r, "greet")
  /\ run' = Restarted(r) /\ Goto(r, "answered")
  /\ ctx' = [ctx EXCEPT ![<<"run", r>>] = GreetScope(r)]
  /\ UNCHANGED <<handler, stores, subs, disp, emitted, early, listed>>

\* _dispatch_processing_task_when_ready; the run's task copies the dispatcher's scopes.
Dispatch(r) ==
  /\ disp[r] = "waiting" /\ subs[r] # {}
  /\ run' = Restarted(r) /\ disp' = [disp EXCEPT ![r] = "done"]
  /\ ctx' = [ctx EXCEPT ![<<"run", r>>] = ctx[<<"dispatcher", r>>]]
  /\ UNCHANGED <<pc, handler, stores, subs, emitted, early, listed>>

\* The agent emits under the correlator's id.
Emit(r) ==
  /\ run[r] = "running" /\ emitted' = [emitted EXCEPT ![r] = @ \cup {ctx[<<"run", r>>]}]
  /\ UNCHANGED <<pc, handler, ctx, stores, subs, disp, run, early, listed>>

RunEnds(r) ==
  /\ run[r] = "running" /\ run' = [run EXCEPT ![r] = "done"]
  /\ UNCHANGED <<pc, handler, ctx, stores, subs, disp, emitted, early, listed>>

---------------------------------------------------------------------------
\* Agents and modules hold the stores: what no route deletes, they may.
DeleteSession(id) ==
  /\ With(sessions, "id", id) # {}
  /\ sessions' = RemoveAt(sessions, Min(With(sessions, "id", id)))
  /\ events' = {e \in events : e.session # id}
  /\ UNCHANGED <<pc, handler, ctx, users, agents, tasks, early, listed>>

DeleteAgent(a) ==
  /\ a \in agents /\ agents' = agents \ {a}
  /\ UNCHANGED <<pc, handler, ctx, users, sessions, events, tasks, early, listed>>

Handle(r) == \/ \E c \in Calls : Arrive(r, c)
             \/ Authenticate(r) \/ CreateUser(r)
             \/ CreateAgent(r) \/ ReadAgent(r) \/ ListAgents(r)
             \/ CreateSession(r) \/ ListSessions(r) \/ ReadSession(r) \/ ListEvents(r)
             \/ ReadSessionsAgent(r) \/ ReadSessionsUser(r) \/ StoreMessage(r) \/ StoreFails(r)
             \/ Subscribe(r) \/ Greet(r)

Next == \/ \E r \in Requests : Handle(r) \/ Dispatch(r) \/ Emit(r) \/ RunEnds(r)
        \/ \E id \in SessionIds : DeleteSession(id)
        \/ \E a \in AgentIds : DeleteAgent(a)

Spec == Init /\ [][Next]_vars
---------------------------------------------------------------------------
Users == [id : Requests, sub : {c.sub : c \in Calls}]
Docs == [id : SessionIds, agent : AgentIds, user : Requests, by : Requests]
Events == [session : SessionIds, corr : Seq({"RID", "gen"} \X Requests), by : Requests]
Refusals == {"refused", "failed"}

\* What the stores hold and the requests do has the types the code gives it: a session has an
\* id, an agent and a user, whatever the client left out (flux0_core/sessions.py, users.py).
TypeOK ==
  /\ pc \in [Requests -> {"idle", "auth", "create_user", "handle", "insert", "greet", "list_events",
                          "post", "read_user", "store", "streaming", "answered"} \cup Refusals]
  /\ call \in [Requests -> Calls \cup {None}] /\ user \in [Requests -> Requests \cup {None}]
  /\ \A r \in Requests : held[r] \in Docs \cup Events \cup {None}
  /\ users \in Seq(Users) /\ agents \subseteq AgentIds
  /\ sessions \in Seq(Docs) /\ events \subseteq Events
  /\ disp \in [Requests -> {"none", "waiting", "done"}]
  /\ run \in [Requests -> {"none", "running", "done"}]
  /\ early \subseteq Requests

\* NoopAuthHandler.__call__: first requests of a sub that overlap each create a user, but every
\* request that finds one acts for the first that was created, whatever is created after it: the
\* race leaves a sub no two lasting identities.
LateRequestsAgree ==
  \A r \in Requests \ early : user[r] # None =>
    \E i \in DOMAIN users : /\ users[i].id = user[r] /\ users[i].sub = call[r].sub
                            /\ \A j \in 1..(i - 1) : users[j].sub # call[r].sub

\* list_sessions gives a client the sessions created by requests of its sub and no others; and,
\* if none of the requests raced to create the user, all of them.
OwnSessionsListed ==
  [][\A r \in Requests : listed'[r] # listed[r] /\ Kind(r) = "list_sessions" =>
       LET own == {s \in ToSet(sessions) : call[s.by].sub = call[r].sub /\ call[r].agent \in {None, s.agent}}
       IN /\ listed'[r] \subseteq own
          /\ {s \in own : {s.by, r} \cap early = {}} \subseteq listed'[r]]_vars

\* Correlation ids are copied from request to dispatcher to run: what the run of a message emits
\* is under the id its own response has subscribed to, and no response hears another's run or a
\* greeting (session_service.py, contextual_correlator.py).
RunsSpeakToTheirStream ==
  \A r \in Requests : /\ \A q \in Requests \ {r} : emitted[q] \cap subs[r] = {}
                      /\ call[r] # None /\ Kind(r) = "post" => emitted[r] \subseteq subs[r]

\* A request that is refused, or fails as the session goes while it is handled, leaves no session,
\* no message, no dispatcher and no run behind, and its own scope only.
RefusedLeavesNothing ==
  \A r \in Requests : pc[r] \in Refusals =>
    /\ \A s \in ToSet(sessions) : s.by # r
    /\ \A e \in events : e.by # r
    /\ disp[r] = "none" /\ run[r] = "none"
    /\ ctx[<<"http", r>>] = <<Rid(r)>>

\* What requests leave in the stores and tasks is well typed, and nothing if they are refused.
Inv == TypeOK /\ RefusedLeavesNothing
=============================================================================
