--------------------------- MODULE Requests_proof ---------------------------
(***************************************************************************)
(* Proofs about Requests, for any requests, calls, agents and ids.         *)
(*                                                                         *)
(* Runs speak to their own response only: a correlation id goes from the   *)
(* task of the request to its dispatcher's, to the run's and into what the *)
(* run emits, and SInv says, for each request on its own, what each of     *)
(* these holds by how far the request has come.                            *)
(*                                                                         *)
(* RInv adds what is in the stores and whose it is: users are named for    *)
(* the requests that created them, the first of a sub stays the first, and *)
(* a session or message leads back to a request that got far enough to     *)
(* leave it.  Identity, listings and refusals follow.                      *)
(***************************************************************************)
EXTENDS Requests, SequenceTheorems, FiniteSetTheorems, TLAPS

Points == {"idle", "auth", "create_user", "handle", "insert", "greet", "list_events", "post",
           "read_user", "store", "streaming", "answered", "refused", "failed"}

\* The id a message is stored under, and that of a request outside that scope.
Speech(r) == <<Rid(r), Gen(r)>>
Plain(r) == <<Rid(r)>>

Shapes == /\ pc \in [Requests -> Points]
          /\ call \in [Requests -> Calls \cup {None}]
          /\ DOMAIN held = Requests
          /\ DOMAIN ctx = Tasks
          /\ DOMAIN subs = Requests
          /\ disp \in [Requests -> {"none", "waiting", "done"}]
          /\ run \in [Requests -> {"none", "running", "done"}]
          /\ DOMAIN emitted = Requests

\* What a request was asked decides where it can be.
Asked(r) ==
  /\ pc[r] = "idle" => call[r] = None
  /\ pc[r] \in {"insert", "greet"} => Kind(r) = "create_session"
  /\ pc[r] = "list_events" => Kind(r) = "list_events"
  /\ pc[r] \in {"post", "read_user", "store", "streaming"} => Kind(r) = "post"
  /\ pc[r] = "answered" => Kind(r) # "post"

\* The scopes of its task, of its dispatcher's and of its run's.
Scopes(r) ==
  /\ ctx[<<"http", r>>] = IF pc[r] = "idle" THEN <<>> ELSE IF pc[r] = "store" THEN Speech(r) ELSE Plain(r)
  /\ disp[r] # "none" => ctx[<<"dispatcher", r>>] = Speech(r)
  /\ run[r] # "none" => ctx[<<"run", r>>] = IF pc[r] = "streaming" THEN Speech(r) ELSE Plain(r)

\* What its response listens to, and when there is a dispatcher and a run.
Heard(r) ==
  /\ pc[r] = "streaming" => held[r].corr = Speech(r)
  /\ pc[r] # "streaming" => disp[r] = "none" /\ subs[r] = {}
  /\ subs[r] \subseteq {Speech(r)}
  /\ disp[r] = "done" => subs[r] = {Speech(r)}
  /\ run[r] # "none" => pc[r] = "answered" \/ disp[r] = "done"

\* What its run has emitted under.
Said(r) ==
  /\ run[r] = "none" => emitted[r] = {}
  /\ emitted[r] \subseteq {IF pc[r] = "streaming" THEN Speech(r) ELSE Plain(r)}

SInv == Shapes /\ \A r \in Requests : Asked(r) /\ Scopes(r) /\ Heard(r) /\ Said(r)

-----------------------------------------------------------------------------
(* Two scopes, the second entered and left.                                 *)
LEMMA TwoScopes ==
  ASSUME NEW a, NEW b
  PROVE  /\ Append(<<a>>, b) = <<a, b>>
         /\ Front(<<a, b>>) = <<a>>
<1> DEFINE S == {a, b}
           s == <<a, b>>
<1>1. <<a>> \in Seq(S) /\ s \in Seq(S) /\ Len(<<a>>) = 1 /\ Len(s) = 2 /\ s[1] = a /\ s[2] = b
  OBVIOUS
<1>2. Append(<<a>>, b) = s
  <2>1. Append(<<a>>, b) \in Seq(S) /\ Len(Append(<<a>>, b)) = 2
    BY <1>1
  <2>2. Append(<<a>>, b)[1] = a /\ Append(<<a>>, b)[2] = b
    BY <1>1
  <2> HIDE DEF s
  <2> QED
    BY <1>1, <2>1, <2>2, SeqEqual
<1>3. Front(s) = SubSeq(s, 1, 1)
  BY <1>1 DEF Front
<1>4. SubSeq(s, 1, 1) = <<a>>
  <2>1. \A i \in 1..1 : s[i] \in S
    BY <1>1
  <2> HIDE DEF s
  <2>2. SubSeq(s, 1, 1) \in Seq(S) /\ Len(SubSeq(s, 1, 1)) = 1 /\ SubSeq(s, 1, 1)[1] = s[1]
    BY <2>1, SubSeqProperties
  <2>3. \A i \in 1..Len(<<a>>) : SubSeq(s, 1, 1)[i] = <<a>>[i]
    BY <1>1, <2>2
  <2> QED
    BY <1>1, <2>2, <2>3, SeqEqual
<1> QED
  BY <1>2, <1>3, <1>4

(* A scope that is entered and left leaves the scopes as they were.         *)
LEMMA EnterLeave ==
  ASSUME NEW r \in Requests
  PROVE  /\ Enter(<<>>, Rid(r)) = Plain(r)
         /\ Enter(Plain(r), Gen(r)) = Speech(r)
         /\ Leave(Speech(r)) = Plain(r)
<1>1. Enter(<<>>, Rid(r)) = Plain(r)
  BY DEF Enter, Plain
<1> QED
  BY <1>1, TwoScopes DEF Enter, Leave, Plain, Speech

(* Ids of different requests differ, and so do those in and out of a scope. *)
LEMMA Distinct ==
  ASSUME NEW r \in Requests, NEW q \in Requests
  PROVE  /\ Speech(q) = Speech(r) => q = r
         /\ Plain(q) # Speech(r)
<1>1. Speech(q) = Speech(r) => Speech(q)[1] = Speech(r)[1]
  OBVIOUS
<1>2. Speech(q)[1] = <<"RID", q>> /\ Speech(r)[1] = <<"RID", r>>
  BY DEF Speech, Rid
<1>3. Len(Plain(q)) = 1 /\ Len(Speech(r)) = 2
  BY DEF Plain, Speech
<1> QED
  BY <1>1, <1>2, <1>3

(* It follows that runs speak to their own response.                        *)
LEMMA Speaks ==
  ASSUME SInv
  PROVE  RunsSpeakToTheirStream
<1> SUFFICES ASSUME NEW r \in Requests
             PROVE  /\ \A q \in Requests \ {r} : emitted[q] \cap subs[r] = {}
                    /\ call[r] # None /\ Kind(r) = "post" => emitted[r] \subseteq subs[r]
  BY DEF RunsSpeakToTheirStream
<1>1. ASSUME NEW q \in Requests \ {r} PROVE emitted[q] \cap subs[r] = {}
  <2>1. emitted[q] \subseteq {Speech(q), Plain(q)} /\ subs[r] \subseteq {Speech(r)}
    BY DEF SInv, Said, Heard
  <2> QED
    BY <2>1, Distinct
<1>2. ASSUME Kind(r) = "post", emitted[r] # {} PROVE emitted[r] \subseteq subs[r]
  <2>1. run[r] # "none" /\ pc[r] # "answered"
    BY <1>2 DEF SInv, Said, Asked
  <2>2. disp[r] = "done" /\ pc[r] = "streaming"
    BY <2>1 DEF SInv, Heard, Shapes
  <2> QED
    BY <2>2 DEF SInv, Heard, Said
<1> QED
  BY <1>1, <1>2

-----------------------------------------------------------------------------
LEMMA Initially ==
  ASSUME Init
  PROVE  SInv
<1> USE NoneFresh DEF Init
<1>1. Shapes
  BY DEF Shapes, Points
<1>2. ASSUME NEW r \in Requests PROVE Asked(r) /\ Scopes(r) /\ Heard(r) /\ Said(r)
  <2>1. \A t \in Tasks : ctx[t] = <<>>
    OBVIOUS
  <2>2. <<"http", r>> \in Tasks
    BY DEF Tasks
  <2> QED
    BY <2>1, <2>2 DEF Asked, Scopes, Heard, Said
<1> QED
  BY <1>1, <1>2 DEF SInv

(* Steps that change nothing but where the handler of r is, in the course of *)
(* what it was asked.                                                        *)
Moves(r) == /\ pc' = [pc EXCEPT ![r] = pc'[r]] /\ pc'[r] \in Points
            /\ {pc[r], pc'[r]} \cap {"idle", "store", "streaming"} = {}
            /\ run[r] = "none"
            /\ held' \in {held, [held EXCEPT ![r] = held'[r]]}
            /\ UNCHANGED <<call, ctx, subs, disp, run, emitted>>

\* What the invariant says of request q is about nothing that has changed.
Apart(q) == /\ pc'[q] = pc[q] /\ call'[q] = call[q] /\ held'[q] = held[q]
            /\ subs'[q] = subs[q] /\ disp'[q] = disp[q] /\ emitted'[q] = emitted[q]
            /\ (run'[q] = "none") = (run[q] = "none")
            /\ \A k \in {"http", "dispatcher", "run"} : ctx'[<<k, q>>] = ctx[<<k, q>>]

LEMMA ApartKeeps ==
  ASSUME SInv, NEW q \in Requests, Apart(q)
  PROVE  (Asked(q) /\ Scopes(q) /\ Heard(q) /\ Said(q))'
BY DEF SInv, Apart, Asked, Scopes, Heard, Said, Kind

LEMMA MovesKeep ==
  ASSUME SInv, NEW r \in Requests, Moves(r), Asked(r)'
  PROVE  SInv'
<1> USE DEF Moves
<1>1. Shapes'
  BY DEF SInv, Shapes
<1>2. ASSUME NEW q \in Requests, q # r PROVE Apart(q)
  BY <1>2 DEF SInv, Shapes, Apart
<1>3. (Scopes(r) /\ Heard(r) /\ Said(r))'
  BY DEF SInv, Scopes, Heard, Said, Shapes
<1> QED
  BY <1>1, <1>2, <1>3, ApartKeeps DEF SInv

(* A request whose handler has not streamed or answered has no run.         *)
LEMMA NoRunYet ==
  ASSUME SInv, NEW r \in Requests, pc[r] \notin {"streaming", "answered"}
  PROVE  run[r] = "none" /\ disp[r] = "none" /\ subs[r] = {} /\ emitted[r] = {}
BY DEF SInv, Heard, Said

(* The steps of a handler that read or write the stores.                    *)
LEMMA StoreSteps ==
  ASSUME SInv, NEW r \in Requests,
         \/ Authenticate(r) \/ CreateUser(r) \/ CreateAgent(r) \/ ReadAgent(r) \/ ListAgents(r)
         \/ CreateSession(r) \/ ListSessions(r) \/ ReadSession(r) \/ ListEvents(r)
         \/ ReadSessionsAgent(r)
  PROVE  SInv'
<1> USE DEF At, Goto, handler, stores, tasks
<1>1. pc[r] \in Points /\ DOMAIN pc = Requests /\ DOMAIN held = Requests
  BY DEF SInv, Shapes
<1>2. CASE Authenticate(r)
  <2>1. Moves(r)
    BY <1>1, <1>2, NoRunYet DEF Authenticate, Moves, Points
  <2>2. Asked(r)'
    BY <1>1, <1>2 DEF Authenticate, Asked, Kind
  <2> QED
    BY <2>1, <2>2, MovesKeep
<1>3. CASE CreateUser(r)
  <2>1. Moves(r)
    BY <1>1, <1>3, NoRunYet DEF CreateUser, Moves, Points
  <2>2. Asked(r)'
    BY <1>1, <1>3 DEF CreateUser, Asked, Kind
  <2> QED
    BY <2>1, <2>2, MovesKeep
<1>4. CASE CreateAgent(r) \/ ListAgents(r) \/ ListSessions(r) \/ ListEvents(r)
  <2>1. Moves(r)
    BY <1>1, <1>4, NoRunYet DEF CreateAgent, ListAgents, ListSessions, ListEvents, Moves, Points
  <2>2. pc'[r] = "answered" /\ call' = call /\ Kind(r) # "post"
    BY <1>1, <1>4 DEF CreateAgent, ListAgents, ListSessions, ListEvents, SInv, Asked
  <2>3. Asked(r)'
    BY <2>2 DEF Asked, Kind
  <2> QED
    BY <2>1, <2>3, MovesKeep
<1>5. CASE ReadAgent(r)
  <2>1. Moves(r)
    BY <1>1, <1>5, NoRunYet DEF ReadAgent, Moves, Points
  <2>2. Asked(r)'
    BY <1>1, <1>5 DEF ReadAgent, Asked, Kind
  <2> QED
    BY <2>1, <2>2, MovesKeep
<1>6. CASE CreateSession(r)
  <2>1. Moves(r)
    BY <1>1, <1>6, NoRunYet DEF CreateSession, Moves, Points
  <2>2. Asked(r)'
    BY <1>1, <1>6 DEF CreateSession, SInv, Asked, Kind
  <2> QED
    BY <2>1, <2>2, MovesKeep
<1>7. CASE ReadSession(r)
  <2>1. Moves(r)
    BY <1>1, <1>7, NoRunYet DEF ReadSession, Moves, Points
  <2>2. Asked(r)'
    BY <1>1, <1>7 DEF ReadSession, Asked, Kind
  <2> QED
    BY <2>1, <2>2, MovesKeep
<1>8. CASE ReadSessionsAgent(r)
  <2>1. Moves(r)
    BY <1>1, <1>8, NoRunYet DEF ReadSessionsAgent, Moves, Points
  <2>2. Asked(r)'
    BY <1>1, <1>8 DEF ReadSessionsAgent, SInv, Asked, Kind
  <2> QED
    BY <2>1, <2>2, MovesKeep
<1> QED
  BY <1>2, <1>3, <1>4, <1>5, <1>6, <1>7, <1>8

-----------------------------------------------------------------------------
(* The steps that move scopes: a request arrives, post_event enters its own, *)
LEMMA ScopeSteps ==
  ASSUME SInv, NEW r \in Requests,
         \/ \E c \in Calls : Arrive(r, c)
         \/ ReadSessionsUser(r) \/ StoreMessage(r) \/ StoreFails(r)
  PROVE  SInv'
<1> USE DEF At, Goto, handler, stores, tasks
<1>1. /\ pc[r] \in Points /\ DOMAIN pc = Requests /\ DOMAIN held = Requests
      /\ DOMAIN call = Requests /\ DOMAIN ctx = Tasks /\ DOMAIN disp = Requests
  BY DEF SInv, Shapes
<1>2. \A q \in Requests, k \in {"http", "dispatcher", "run"} : <<k, q>> \in Tasks
  BY DEF Tasks
<1>3. CASE \E c \in Calls : Arrive(r, c)
  <2>1. PICK c \in Calls : Arrive(r, c)
    BY <1>3
  <2>2. Shapes'
    BY <1>1, <2>1 DEF Arrive, SInv, Shapes, Points
  <2>3. ASSUME NEW q \in Requests, q # r PROVE Apart(q)
    BY <1>1, <1>2, <2>1, <2>3 DEF Arrive, Apart
  <2>4. ctx'[<<"http", r>>] = Plain(r)
    BY <1>1, <1>2, <2>1, EnterLeave DEF Arrive, SInv, Scopes
  <2>5. /\ run'[r] = "none" /\ disp'[r] = "none" /\ subs'[r] = {} /\ emitted'[r] = {}
        /\ pc'[r] = "auth"
    BY <1>1, <2>1, NoRunYet DEF Arrive
  <2>6. (Asked(r) /\ Scopes(r) /\ Heard(r) /\ Said(r))'
    BY <2>4, <2>5 DEF Asked, Scopes, Heard, Said
  <2> QED
    BY <2>2, <2>3, <2>6, ApartKeeps DEF SInv
<1>4. CASE ReadSessionsUser(r)
  <2>1. Shapes'
    BY <1>1, <1>4 DEF ReadSessionsUser, SInv, Shapes, Points
  <2>2. ASSUME NEW q \in Requests, q # r PROVE Apart(q)
    BY <1>1, <1>2, <1>4, <2>2 DEF ReadSessionsUser, Apart
  <2>3. ctx'[<<"http", r>>] = Speech(r)
    BY <1>1, <1>2, <1>4, EnterLeave DEF ReadSessionsUser, SInv, Scopes
  <2>4. /\ run'[r] = "none" /\ disp'[r] = "none" /\ subs'[r] = {} /\ emitted'[r] = {}
        /\ pc'[r] = "store" /\ call' = call /\ Kind(r) = "post"
    BY <1>1, <1>4, NoRunYet DEF ReadSessionsUser, SInv, Asked
  <2>5. (Asked(r) /\ Scopes(r) /\ Heard(r) /\ Said(r))'
    BY <2>3, <2>4 DEF Asked, Scopes, Heard, Said, Kind
  <2> QED
    BY <2>1, <2>2, <2>5, ApartKeeps DEF SInv
<1>5. CASE StoreMessage(r)
  <2>1. Shapes'
    BY <1>1, <1>5 DEF StoreMessage, SInv, Shapes, Points
  <2>2. ASSUME NEW q \in Requests, q # r PROVE Apart(q)
    BY <1>1, <1>2, <1>5, <2>2 DEF StoreMessage, Apart
  <2>3. ctx[<<"http", r>>] = Speech(r)
    BY <1>5 DEF StoreMessage, SInv, Scopes
  <2>4. ctx'[<<"http", r>>] = Plain(r) /\ ctx'[<<"dispatcher", r>>] = Speech(r)
    BY <1>1, <1>2, <1>5, <2>3, EnterLeave DEF StoreMessage
  <2>5. /\ run'[r] = "none" /\ disp'[r] = "waiting" /\ subs'[r] = {} /\ emitted'[r] = {}
        /\ pc'[r] = "streaming" /\ call' = call /\ Kind(r) = "post"
        /\ held'[r].corr = Speech(r)
    BY <1>1, <1>5, <2>3, NoRunYet DEF StoreMessage, SInv, Asked
  <2>6. (Asked(r) /\ Scopes(r) /\ Heard(r) /\ Said(r))'
    BY <2>4, <2>5 DEF Asked, Scopes, Heard, Said, Kind
  <2> QED
    BY <2>1, <2>2, <2>6, ApartKeeps DEF SInv
<1>6. CASE StoreFails(r)
  <2>1. Shapes'
    BY <1>1, <1>6 DEF StoreFails, SInv, Shapes, Points
  <2>2. ASSUME NEW q \in Requests, q # r PROVE Apart(q)
    BY <1>1, <1>2, <1>6, <2>2 DEF StoreFails, Apart
  <2>3. ctx'[<<"http", r>>] = Plain(r)
    BY <1>1, <1>2, <1>6, EnterLeave DEF StoreFails, SInv, Scopes
  <2>4. /\ run'[r] = "none" /\ disp'[r] = "none" /\ subs'[r] = {} /\ emitted'[r] = {}
        /\ pc'[r] = "failed" /\ call' = call
    BY <1>1, <1>6, NoRunYet DEF StoreFails
  <2>5. (Asked(r) /\ Scopes(r) /\ Heard(r) /\ Said(r))'
    BY <2>3, <2>4 DEF Asked, Scopes, Heard, Said, Kind
  <2> QED
    BY <2>1, <2>2, <2>5, ApartKeeps DEF SInv
<1> QED
  BY <1>3, <1>4, <1>5, <1>6

(* and those of the responses, the dispatchers and the runs.                *)
LEMMA RunSteps ==
  ASSUME SInv, NEW r \in Requests,
         Subscribe(r) \/ Greet(r) \/ Dispatch(r) \/ Emit(r) \/ RunEnds(r)
  PROVE  SInv'
<1> USE DEF At, Goto, handler, stores, tasks
<1>1. /\ pc[r] \in Points /\ DOMAIN pc = Requests
      /\ DOMAIN ctx = Tasks /\ DOMAIN disp = Requests /\ DOMAIN subs = Requests
      /\ DOMAIN emitted = Requests /\ run \in [Requests -> {"none", "running", "done"}]
  BY DEF SInv, Shapes
<1>2. \A q \in Requests, k \in {"http", "dispatcher", "run"} : <<k, q>> \in Tasks
  BY DEF Tasks
<1>3. /\ Restarted(r) \in [Requests -> {"none", "running", "done"}]
      /\ Restarted(r)[r] = "running"
      /\ \A q \in Requests \ {r} : (Restarted(r)[q] = "none") = (run[q] = "none")
  BY <1>1 DEF Restarted
<1>4. CASE Subscribe(r)
  <2>1. held[r].corr = Speech(r) /\ pc[r] = "streaming"
    BY <1>4 DEF Subscribe, SInv, Heard
  <2>2. subs' = [subs EXCEPT ![r] = {Speech(r)}]
    BY <1>4, <2>1 DEF Subscribe
  <2>3. Shapes'
    BY <1>1, <1>4, <2>2 DEF Subscribe, SInv, Shapes
  <2>4. ASSUME NEW q \in Requests, q # r PROVE Apart(q)
    BY <1>1, <1>4, <2>2, <2>4 DEF Subscribe, Apart
  <2>5. (Asked(r) /\ Scopes(r) /\ Heard(r) /\ Said(r))'
    BY <1>1, <1>4, <2>1, <2>2 DEF Subscribe, SInv, Asked, Scopes, Heard, Said, Kind
  <2> QED
    BY <2>3, <2>4, <2>5, ApartKeeps DEF SInv
<1>5. CASE Greet(r)
  <2>1. Shapes'
    BY <1>1, <1>3, <1>5 DEF Greet, SInv, Shapes, Points
  <2>2. ASSUME NEW q \in Requests, q # r PROVE Apart(q)
    BY <1>1, <1>2, <1>3, <1>5, <2>2 DEF Greet, Apart
  <2>3. GreetScope(r) = Plain(r)
    BY <1>5, EnterLeave DEF Greet, GreetScope, SInv, Scopes
  <2>4. ctx'[<<"http", r>>] = Plain(r) /\ ctx'[<<"run", r>>] = Plain(r)
    BY <1>1, <1>2, <1>5, <2>3 DEF Greet, SInv, Scopes
  <2>5. /\ run'[r] = "running" /\ disp'[r] = "none" /\ subs'[r] = {} /\ emitted'[r] = {}
        /\ pc'[r] = "answered" /\ call' = call /\ Kind(r) = "create_session"
    BY <1>1, <1>3, <1>5, NoRunYet DEF Greet, SInv, Asked
  <2>6. (Asked(r) /\ Scopes(r) /\ Heard(r) /\ Said(r))'
    BY <2>4, <2>5 DEF Asked, Scopes, Heard, Said, Kind
  <2> QED
    BY <2>1, <2>2, <2>6, ApartKeeps DEF SInv
<1>6. CASE Dispatch(r)
  <2>1. Shapes'
    BY <1>1, <1>3, <1>6 DEF Dispatch, SInv, Shapes
  <2>2. ASSUME NEW q \in Requests, q # r PROVE Apart(q)
    BY <1>1, <1>2, <1>3, <1>6, <2>2 DEF Dispatch, Apart
  <2>3. pc[r] = "streaming" /\ subs[r] = {Speech(r)}
    BY <1>6 DEF Dispatch, SInv, Heard
  <2>4. /\ ctx'[<<"run", r>>] = Speech(r) /\ ctx'[<<"http", r>>] = ctx[<<"http", r>>]
        /\ ctx'[<<"dispatcher", r>>] = Speech(r)
    BY <1>1, <1>2, <1>6 DEF Dispatch, SInv, Scopes
  <2>5. /\ run'[r] = "running" /\ disp'[r] = "done"
        /\ UNCHANGED <<pc, call, held, subs, emitted>>
    BY <1>1, <1>3, <1>6 DEF Dispatch
  <2>6. (Asked(r) /\ Scopes(r) /\ Heard(r) /\ Said(r))'
    BY <2>3, <2>4, <2>5 DEF SInv, Asked, Scopes, Heard, Said, Kind
  <2> QED
    BY <2>1, <2>2, <2>6, ApartKeeps DEF SInv
<1>7. CASE Emit(r)
  <2>1. Shapes'
    BY <1>1, <1>7 DEF Emit, SInv, Shapes
  <2>2. ASSUME NEW q \in Requests, q # r PROVE Apart(q)
    BY <1>1, <1>7, <2>2 DEF Emit, Apart
  <2>3. ctx[<<"run", r>>] = IF pc[r] = "streaming" THEN Speech(r) ELSE Plain(r)
    BY <1>7 DEF Emit, SInv, Scopes
  <2>4. emitted'[r] \subseteq {IF pc[r] = "streaming" THEN Speech(r) ELSE Plain(r)}
    BY <1>1, <1>7, <2>3 DEF Emit, SInv, Said
  <2>5. (Asked(r) /\ Scopes(r) /\ Heard(r) /\ Said(r))'
    BY <1>7, <2>4 DEF Emit, SInv, Asked, Scopes, Heard, Said, Kind
  <2> QED
    BY <2>1, <2>2, <2>5, ApartKeeps DEF SInv
<1>8. CASE RunEnds(r)
  <2>1. Shapes'
    BY <1>1, <1>8 DEF RunEnds, SInv, Shapes
  <2>2. ASSUME NEW q \in Requests PROVE Apart(q)
    BY <1>1, <1>8 DEF RunEnds, Apart
  <2> QED
    BY <2>1, <2>2, ApartKeeps DEF SInv
<1> QED
  BY <1>4, <1>5, <1>6, <1>7, <1>8

-----------------------------------------------------------------------------
LEMMA Inductive ==
  ASSUME SInv, [Next]_vars
  PROVE  SInv'
<1> USE DEF handler, stores, tasks
<1>1. CASE \E r \in Requests : Handle(r) \/ Dispatch(r) \/ Emit(r) \/ RunEnds(r)
  BY <1>1, StoreSteps, ScopeSteps, RunSteps DEF Handle
<1>2. CASE \/ \E id \in SessionIds : DeleteSession(id)
           \/ \E a \in AgentIds : DeleteAgent(a)
           \/ UNCHANGED vars
  <2>1. UNCHANGED <<pc, call, held, ctx, subs, disp, run, emitted>>
    BY <1>2 DEF DeleteSession, DeleteAgent, vars
  <2>2. Shapes'
    BY <2>1 DEF SInv, Shapes
  <2>3. ASSUME NEW q \in Requests PROVE Apart(q)
    BY <2>1 DEF Apart
  <2> QED
    BY <2>2, <2>3, ApartKeeps DEF SInv
<1> QED
  BY <1>1, <1>2 DEF Next

(* What a run emits is under the id its own response has subscribed to, and  *)
(* no response hears another's run or a greeting: post_event creates the     *)
(* dispatcher's task, and the dispatcher the run's, inside its scope.        *)
THEOREM SpeakToOwnStream == Spec => []RunsSpeakToTheirStream
<1>1. Init => SInv
  BY Initially
<1>2. SInv /\ [Next]_vars => SInv'
  BY Inductive
<1>3. SInv => RunsSpeakToTheirStream
  BY Speaks
<1> QED
  BY <1>1, <1>2, <1>3, PTL DEF Spec
-----------------------------------------------------------------------------
(* What the stores hold has the types of the code.                          *)
Stores == /\ user \in [Requests -> Requests \cup {None}]
          /\ \A r \in Requests : held[r] \in Docs \cup Events \cup {None}
          /\ users \in Seq(Users)
          /\ agents \subseteq AgentIds
          /\ sessions \in Seq(Docs)
          /\ events \subseteq Events
          /\ early \subseteq Requests
          /\ DOMAIN listed = Requests

\* What a request knows by how far it has come.
Placed(r) ==
  /\ (user[r] = None) = (pc[r] \in {"idle", "auth", "create_user"})
  /\ pc[r] # "idle" => call[r] \in Calls
  /\ pc[r] = "create_user" => r \in early
  /\ pc[r] = "insert" => call[r].agent \in AgentIds
  /\ pc[r] \in {"post", "read_user", "store"} => held[r] \in Docs

\* Each user was created by the request it is named for, and one that a request acts for is of
\* its sub.
Identified ==
  /\ \A r \in Requests : user[r] # None =>
       \E i \in DOMAIN users : users[i].id = user[r] /\ users[i].sub = call[r].sub
  /\ \A i \in DOMAIN users : user[users[i].id] # None
  /\ \A i, j \in DOMAIN users : users[i].id = users[j].id => i = j

\* Sessions belong to the user of the request that created them and has been answered; messages
\* are those of requests whose responses stream.
Owned == \A i \in DOMAIN sessions : /\ pc[sessions[i].by] \in {"greet", "answered"}
                                    /\ sessions[i].user = user[sessions[i].by]
Messages == \A e \in events : pc[e.by] = "streaming"

RInv == /\ SInv /\ Stores /\ \A r \in Requests : Placed(r)
        /\ Identified /\ LateRequestsAgree /\ Owned /\ Messages
-----------------------------------------------------------------------------
(* A set of positions has a least one: of the intervals that lead to them,   *)
(* one contains no other.                                                   *)
LEMMA LeastPosition ==
  ASSUME NEW n \in Nat, NEW S \in SUBSET (1..n), S # {}
  PROVE  Min(S) \in S /\ \A i \in S : Min(S) <= i
<1> DEFINE T == {1..i : i \in S}
           R == StrictSubsetOrdering(1..n)
<1>1. IsWellFoundedOn(R, FiniteSubsetsOf(1..n)) /\ FiniteSubsetsOf(1..n) = SUBSET (1..n)
  <2>1. IsFiniteSet(1..n)
    BY FS_Interval
  <2>2. FiniteSubsetsOf(1..n) = SUBSET (1..n)
    BY <2>1, FS_FiniteSubsetsOfFinite
  <2>3. IsWellFoundedOn(R, FiniteSubsetsOf(1..n))
    BY FS_StrictSubsetOrderingWellFounded
  <2> QED
    BY <2>2, <2>3
<1>2. T \subseteq SUBSET (1..n) /\ T # {}
  <2>1. \A i \in S : 1..i \subseteq 1..n
    OBVIOUS
  <2> QED
    BY <2>1
<1>3. \E x \in T : \A y \in T : ~(<<y, x>> \in R)
  <2> HIDE DEF T, R
  <2> QED
    BY <1>1, <1>2, WFMin
<1>4. PICK m \in S : \A i \in S : ~(<<1..i, 1..m>> \in R)
  BY <1>3
<1>5. ASSUME NEW i \in S PROVE m <= i
  <2>1. SUFFICES ASSUME i < m PROVE FALSE
    OBVIOUS
  <2>2. 1..i \subseteq 1..m /\ m \in 1..m /\ m \notin 1..i
    BY <2>1
  <2>3. <<1..i, 1..m>> \in R
    BY <2>2 DEF StrictSubsetOrdering
  <2> QED
    BY <1>4, <2>3
<1> QED
  BY <1>5 DEF Min

(* The first document with a value in a field, or None.                     *)
LEMMA FirstWithIs ==
  ASSUME NEW D, NEW s \in Seq(D), NEW field, NEW v
  PROVE  \/ FirstWith(s, field, v) = None
         \/ \E i \in DOMAIN s : /\ FirstWith(s, field, v) = s[i] /\ s[i][field] = v
                                /\ \A j \in 1..(i - 1) : s[j][field] # v
<1> DEFINE W == With(s, field, v)
<1>1. PICK n \in Nat : Len(s) = n /\ DOMAIN s = 1..n
  OBVIOUS
<1>2. SUFFICES ASSUME W # {}
               PROVE  \E i \in DOMAIN s : /\ FirstWith(s, field, v) = s[i] /\ s[i][field] = v
                                          /\ \A j \in 1..(i - 1) : s[j][field] # v
  BY DEF FirstWith
<1>3. W \in SUBSET (1..n)
  BY <1>1 DEF With
<1>4. Min(W) \in W /\ \A i \in W : Min(W) <= i
  <2> HIDE DEF W
  <2> QED
    BY <1>2, <1>3, LeastPosition
<1>5. Min(W) \in 1..n /\ s[Min(W)][field] = v
  BY <1>1, <1>4 DEF With
<1>6. ASSUME NEW j \in 1..(Min(W) - 1) PROVE s[j][field] # v
  <2>1. j \in 1..n /\ ~(Min(W) <= j)
    <3> HIDE DEF W
    <3> QED
      BY <1>5
  <2>2. j \notin W
    BY <1>4, <2>1
  <2> QED
    BY <1>1, <2>1, <2>2 DEF With
<1>7. FirstWith(s, field, v) = s[Min(W)]
  BY <1>2 DEF FirstWith
<1> QED
  BY <1>1, <1>5, <1>6, <1>7

(* What is left of a collection was in it.                                  *)
LEMMA RemoveAtKeeps ==
  ASSUME NEW D, NEW s \in Seq(D), NEW i \in DOMAIN s
  PROVE  /\ RemoveAt(s, i) \in Seq(D)
         /\ \A k \in DOMAIN RemoveAt(s, i) : \E j \in DOMAIN s : RemoveAt(s, i)[k] = s[j]
<1> DEFINE a == SubSeq(s, 1, i - 1)
           b == SubSeq(s, i + 1, Len(s))
           E == {s[j] : j \in DOMAIN s}
<1>1. Len(s) \in Nat /\ DOMAIN s = 1..Len(s) /\ i \in 1..Len(s)
  OBVIOUS
<1>2. \A j \in 1..(i - 1) : j \in DOMAIN s
  BY <1>1
<1>3. \A j \in (i + 1)..Len(s) : j \in DOMAIN s
  BY <1>1
<1>4. s \in Seq(E)
  BY <1>1
<1>5. a \in Seq(E)
  BY <1>1, <1>4
<1>6. b \in Seq(E)
  BY <1>1, <1>4
<1>7. RemoveAt(s, i) = a \o b
  BY DEF RemoveAt
<1>8. RemoveAt(s, i) \in Seq(E)
  <2> HIDE DEF a, b, E
  <2> QED
    BY <1>5, <1>6, <1>7
<1>9. E \subseteq D
  BY <1>1
<1>10. \A k \in DOMAIN RemoveAt(s, i) : RemoveAt(s, i)[k] \in E
  <2> HIDE DEF a, b, E
  <2> QED
    BY <1>8
<1> QED
  BY <1>8, <1>9, <1>10
-----------------------------------------------------------------------------
LEMMA InitiallyStored ==
  ASSUME Init
  PROVE  RInv
<1>1. SInv
  BY Initially
<1> USE DEF Init
<1>2. Stores
  BY DEF Stores, AgentIds
<1>3. ASSUME NEW r \in Requests PROVE Placed(r)
  BY DEF Placed
<1>4. Identified /\ LateRequestsAgree /\ Owned /\ Messages
  BY DEF Identified, LateRequestsAgree, Owned, Messages
<1> QED
  BY <1>1, <1>2, <1>3, <1>4 DEF RInv

(* Only what Placed says of r can change as the handler of r moves.          *)
LEMMA OthersPlaced ==
  ASSUME RInv, NEW r \in Requests, pc' = [pc EXCEPT ![r] = pc'[r]],
         \A q \in Requests \ {r} : user'[q] = user[q] /\ call'[q] = call[q] /\ held'[q] = held[q],
         early \subseteq early', Placed(r)'
  PROVE  \A q \in Requests : Placed(q)'
<1> SUFFICES ASSUME NEW q \in Requests \ {r} PROVE Placed(q)'
  OBVIOUS
<1>1. pc'[q] = pc[q]
  BY DEF RInv, SInv, Shapes
<1> QED
  BY <1>1 DEF RInv, Placed

(* Who requests act for is the same as long as the users and the requests'   *)
(* own are.                                                                  *)
LEMMA SameUsers ==
  ASSUME RInv, UNCHANGED <<user, call, users, early>>
  PROVE  Identified' /\ LateRequestsAgree'
BY DEF RInv, Identified, LateRequestsAgree

(* What requests left in the stores stays theirs, while another's handler    *)
(* moves.                                                                    *)
LEMMA SameDocuments ==
  ASSUME RInv, NEW r \in Requests, pc' = [pc EXCEPT ![r] = pc'[r]],
         pc[r] \notin {"streaming", "answered"}, pc[r] = "greet" => pc'[r] = "answered",
         \A q \in Requests : user[q] # None => user'[q] = user[q],
         UNCHANGED <<sessions, events>>
  PROVE  Owned' /\ Messages'
<1>1. \A q \in Requests \ {r} : pc'[q] = pc[q]
  BY DEF RInv, SInv, Shapes
<1>2. Owned'
  <2> SUFFICES ASSUME NEW i \in DOMAIN sessions
               PROVE  pc'[sessions[i].by] \in {"greet", "answered"} /\ sessions[i].user = user'[sessions[i].by]
    BY DEF Owned
  <2>1. sessions[i] \in Docs
    BY DEF RInv, Stores
  <2>2. PICK q \in Requests : sessions[i].by = q
    BY <2>1 DEF Docs
  <2>3. pc[q] \in {"greet", "answered"} /\ sessions[i].user = user[q]
    BY <2>2 DEF RInv, Owned
  <2>4. user'[q] = user[q]
    BY <2>3 DEF RInv, Placed
  <2>5. pc'[q] \in {"greet", "answered"}
    BY <1>1, <2>3 DEF RInv, SInv, Shapes
  <2> QED
    BY <2>2, <2>3, <2>4, <2>5
<1>3. Messages'
  <2> SUFFICES ASSUME NEW e \in events PROVE pc'[e.by] = "streaming"
    BY DEF Messages
  <2>1. e.by \in Requests /\ pc[e.by] = "streaming"
    BY DEF RInv, Stores, Events, Messages
  <2> QED
    BY <1>1, <2>1
<1> QED
  BY <1>2, <1>3

(* Users are named for the requests that created them.                      *)
LEMMA UserIds ==
  ASSUME RInv, NEW i \in DOMAIN users
  PROVE  users[i].id \in Requests
<1>1. users[i] \in Users
  <2>1. users \in Seq(Users)
    BY DEF RInv, Stores
  <2> QED
    BY <2>1
<1> QED
  BY <1>1 DEF Users

(* A request that arrives is asked something.                               *)
LEMMA ArriveStores ==
  ASSUME RInv, NEW r \in Requests, NEW c \in Calls, Arrive(r, c)
  PROVE  Stores' /\ (\A q \in Requests : Placed(q)') /\ Identified' /\ LateRequestsAgree'
         /\ Owned' /\ Messages'
<1> USE DEF At, Goto, handler, stores, tasks
<1>1. /\ DOMAIN pc = Requests /\ DOMAIN call = Requests /\ user[r] = None
      /\ pc[r] = "idle" /\ pc' = [pc EXCEPT ![r] = "auth"] /\ call' = [call EXCEPT ![r] = c]
      /\ UNCHANGED <<user, held, users, agents, sessions, events, early, listed>>
  BY DEF Arrive, RInv, SInv, Shapes, Placed
<1>2. Stores'
  BY <1>1 DEF RInv, Stores
<1>3. Placed(r)'
  BY <1>1 DEF Placed
<1>4. \A q \in Requests : Placed(q)'
  BY <1>1, <1>3, OthersPlaced
<1>5. \A q \in Requests : user[q] # None => call'[q] = call[q]
  BY <1>1
<1>6. Identified' /\ LateRequestsAgree'
  BY <1>1, <1>5 DEF RInv, Identified, LateRequestsAgree
<1>7. Owned' /\ Messages'
  BY <1>1, SameDocuments
<1> QED
  BY <1>2, <1>4, <1>6, <1>7

(* A request that finds a user of its sub finds the first.                  *)
LEMMA AuthenticateStores ==
  ASSUME RInv, NEW r \in Requests, Authenticate(r)
  PROVE  Stores' /\ (\A q \in Requests : Placed(q)') /\ Identified' /\ LateRequestsAgree'
         /\ Owned' /\ Messages'
<1> USE DEF At, Goto, handler, stores, tasks
<1>1. /\ DOMAIN pc = Requests /\ DOMAIN user = Requests /\ user[r] = None /\ call[r] \in Calls
      /\ pc[r] = "auth" /\ None \notin Requests
      /\ UNCHANGED <<call, held, users, agents, sessions, events, listed>>
  BY NoneFresh DEF Authenticate, RInv, SInv, Shapes, Stores, Placed
<1>2. CASE UserOf(call[r].sub) = None
  <2>1. /\ pc' = [pc EXCEPT ![r] = "create_user"] /\ early' = early \cup {r} /\ user' = user
    BY <1>2 DEF Authenticate
  <2>2. Stores'
    BY <1>1, <2>1 DEF RInv, Stores
  <2>3. Placed(r)'
    BY <1>1, <2>1 DEF Placed
  <2>4. \A q \in Requests : Placed(q)'
    BY <1>1, <2>1, <2>3, OthersPlaced
  <2>5. Identified' /\ LateRequestsAgree'
    BY <1>1, <2>1 DEF RInv, Identified, LateRequestsAgree
  <2>6. Owned' /\ Messages'
    BY <1>1, <2>1, SameDocuments
  <2> QED
    BY <2>2, <2>4, <2>5, <2>6
<1>3. CASE UserOf(call[r].sub) # None
  <2>1. users \in Seq(Users)
    BY DEF RInv, Stores
  <2>2. PICK i \in DOMAIN users : /\ UserOf(call[r].sub) = users[i] /\ users[i]["sub"] = call[r].sub
                                  /\ \A j \in 1..(i - 1) : users[j]["sub"] # call[r].sub
    BY <1>3, <2>1, FirstWithIs DEF UserOf
  <2>3. users[i].id \in Requests
    BY UserIds
  <2>4. /\ pc' = [pc EXCEPT ![r] = "handle"] /\ early' = early
        /\ user' = [user EXCEPT ![r] = users[i].id]
    BY <1>3, <2>2 DEF Authenticate
  <2>5. Stores'
    BY <1>1, <2>3, <2>4 DEF RInv, Stores
  <2>6. Placed(r)'
    BY <1>1, <2>3, <2>4 DEF Placed
  <2>7. \A q \in Requests : Placed(q)'
    BY <1>1, <2>4, <2>6, OthersPlaced
  <2>8. /\ users[i].id = user'[r] /\ users[i].sub = call'[r].sub
        /\ \A j \in 1..(i - 1) : users[j].sub # call'[r].sub
    BY <1>1, <2>2, <2>4
  <2>9. \A q \in Requests \ {r} : user'[q] = user[q]
    BY <1>1, <2>4
  <2>10. \A k \in DOMAIN users : user'[users[k].id] # None
    <3>1. \A k \in DOMAIN users : users[k].id \in Requests
      BY UserIds
    <3> QED
      BY <1>1, <2>3, <2>4, <2>9, <3>1 DEF RInv, Identified
  <2>11. Identified'
    <3>1. \A q \in Requests : user'[q] # None =>
            \E k \in DOMAIN users : users[k].id = user'[q] /\ users[k].sub = call[q].sub
      BY <1>1, <2>8, <2>9 DEF RInv, Identified
    <3>2. \A k, m \in DOMAIN users : users[k].id = users[m].id => k = m
      BY DEF RInv, Identified
    <3> QED
      BY <1>1, <2>10, <3>1, <3>2 DEF Identified
  <2>12. LateRequestsAgree'
    BY <1>1, <2>4, <2>8, <2>9 DEF RInv, LateRequestsAgree
  <2>13. Owned' /\ Messages'
    BY <1>1, <2>4, <2>9, SameDocuments
  <2> QED
    BY <2>5, <2>7, <2>11, <2>12, <2>13
<1> QED
  BY <1>2, <1>3

(* One that found none creates its own, after all those there are.          *)
LEMMA CreateUserStores ==
  ASSUME RInv, NEW r \in Requests, CreateUser(r)
  PROVE  Stores' /\ (\A q \in Requests : Placed(q)') /\ Identified' /\ LateRequestsAgree'
         /\ Owned' /\ Messages'
<1> USE DEF At, Goto, handler, stores, tasks
<1> DEFINE new == [id |-> r, sub |-> call[r].sub]
<1>1. /\ DOMAIN pc = Requests /\ DOMAIN user = Requests /\ user[r] = None /\ call[r] \in Calls
      /\ pc[r] = "create_user" /\ None \notin Requests /\ r \in early
      /\ users \in Seq(Users)
  BY NoneFresh DEF CreateUser, RInv, SInv, Shapes, Stores, Placed
<1>2. /\ pc' = [pc EXCEPT ![r] = "handle"] /\ user' = [user EXCEPT ![r] = r]
      /\ users' = Append(users, new)
      /\ UNCHANGED <<call, held, agents, sessions, events, early, listed>>
  BY DEF CreateUser
<1>3. new \in Users
  BY <1>1 DEF Users
<1>4. PICK n \in Nat : /\ Len(users) = n /\ DOMAIN users = 1..n
                       /\ users' \in Seq(Users) /\ DOMAIN users' = 1..(n + 1)
                       /\ \A i \in 1..n : users'[i] = users[i]
                       /\ users'[n + 1].id = r /\ users'[n + 1].sub = call[r].sub
  <2>1. Len(users) \in Nat /\ DOMAIN users = 1..Len(users)
    BY <1>1
  <2>2. /\ users' \in Seq(Users) /\ Len(users') = Len(users) + 1
        /\ \A i \in 1..Len(users) : users'[i] = users[i]
        /\ users'[Len(users) + 1] = new
    <3> HIDE DEF new
    <3> QED
      BY <1>1, <1>2, <1>3, AppendProperties
  <2>3. DOMAIN users' = 1..(Len(users) + 1)
    BY <2>2
  <2>4. new.id = r /\ new.sub = call[r].sub
    OBVIOUS
  <2> HIDE DEF new
  <2> QED
    BY <2>1, <2>2, <2>3, <2>4
<1> HIDE DEF new
<1>5. Stores'
  BY <1>1, <1>2, <1>4 DEF RInv, Stores
<1>6. Placed(r)'
  BY <1>1, <1>2 DEF Placed
<1>7. \A q \in Requests : Placed(q)'
  BY <1>1, <1>2, <1>6, OthersPlaced
<1>8. \A q \in Requests \ {r} : user'[q] = user[q]
  BY <1>1, <1>2
<1>9. user'[r] = r /\ call' = call
  BY <1>1, <1>2
<1>10. 1..n \subseteq 1..(n + 1) /\ n + 1 \in 1..(n + 1) /\ \A i \in 1..(n + 1) : i \in 1..n \/ i = n + 1
  OBVIOUS
<1>11. \A i \in 1..n : users[i].id \in Requests /\ users[i].id # r
  <2>1. \A i \in 1..n : users[i].id \in Requests /\ user[users[i].id] # None
    BY <1>4, UserIds DEF RInv, Identified
  <2> QED
    BY <1>1, <2>1
<1>12. Identified'
  <2>1. \A q \in Requests : user'[q] # None =>
          \E i \in 1..(n + 1) : users'[i].id = user'[q] /\ users'[i].sub = call'[q].sub
    BY <1>4, <1>8, <1>9, <1>10 DEF RInv, Identified
  <2>2. \A i \in 1..(n + 1) : user'[users'[i].id] # None
    BY <1>1, <1>4, <1>8, <1>9, <1>10, <1>11 DEF RInv, Identified
  <2>3. \A i, j \in 1..(n + 1) : users'[i].id = users'[j].id => i = j
    <3>1. \A i, j \in 1..n : users[i].id = users[j].id => i = j
      BY <1>4 DEF RInv, Identified
    <3> QED
      BY <1>4, <1>10, <1>11, <3>1
  <2> QED
    BY <1>4, <2>1, <2>2, <2>3 DEF Identified
<1>13. LateRequestsAgree'
  <2> SUFFICES ASSUME NEW q \in Requests \ early, user[q] # None, q # r
               PROVE  \E i \in 1..(n + 1) : /\ users'[i].id = user[q] /\ users'[i].sub = call[q].sub
                                            /\ \A j \in 1..(i - 1) : users'[j].sub # call[q].sub
    BY <1>1, <1>2, <1>4, <1>8 DEF LateRequestsAgree
  <2>1. PICK i \in 1..n : /\ users[i].id = user[q] /\ users[i].sub = call[q].sub
                          /\ \A j \in 1..(i - 1) : users[j].sub # call[q].sub
    BY <1>4 DEF RInv, LateRequestsAgree
  <2>2. 1..(i - 1) \subseteq 1..n
    OBVIOUS
  <2> QED
    BY <1>4, <1>10, <2>1, <2>2
<1>14. Owned' /\ Messages'
  BY <1>1, <1>2, <1>8, SameDocuments
<1> QED
  BY <1>5, <1>7, <1>12, <1>13, <1>14
-----------------------------------------------------------------------------
(* A handler that knows its user goes on: it may read a session, and agents  *)
(* come and go.                                                              *)
GoesOn(r) == /\ pc' = [pc EXCEPT ![r] = pc'[r]]
             /\ pc[r] \notin {"idle", "auth", "create_user", "streaming", "answered"}
             /\ pc'[r] \notin {"idle", "auth", "create_user"}
             /\ pc[r] = "greet" => pc'[r] = "answered"
             /\ pc'[r] = "insert" => call[r].agent \in AgentIds
             /\ pc'[r] \in {"post", "read_user", "store"} => held'[r] \in Docs
             /\ held' \in {held, [held EXCEPT ![r] = held'[r]]}
             /\ held'[r] \in Docs \cup Events \cup {None}
             /\ agents' \subseteq AgentIds /\ DOMAIN listed' = Requests
             /\ UNCHANGED <<call, user, users, sessions, events, early>>

LEMMA GoesOnStores ==
  ASSUME RInv, NEW r \in Requests, GoesOn(r)
  PROVE  Stores' /\ (\A q \in Requests : Placed(q)') /\ Identified' /\ LateRequestsAgree'
         /\ Owned' /\ Messages'
<1>1. DOMAIN pc = Requests /\ DOMAIN held = Requests
  BY DEF RInv, SInv, Shapes
<1>2. \A q \in Requests \ {r} : held'[q] = held[q]
  BY <1>1 DEF GoesOn
<1>3. Stores'
  BY <1>2 DEF RInv, Stores, GoesOn
<1>4. Placed(r)'
  BY <1>1 DEF RInv, Placed, GoesOn
<1>5. \A q \in Requests : Placed(q)'
  BY <1>2, <1>4, OthersPlaced DEF GoesOn
<1>6. Identified' /\ LateRequestsAgree'
  BY SameUsers DEF GoesOn
<1>7. Owned' /\ Messages'
  BY SameDocuments DEF GoesOn
<1> QED
  BY <1>3, <1>5, <1>6, <1>7

(* A session that is found by id is a session.                              *)
LEMMA SessionIs ==
  ASSUME RInv, NEW id, Session(id) # None
  PROVE  Session(id) \in Docs
<1>1. sessions \in Seq(Docs)
  BY DEF RInv, Stores
<1>2. PICK i \in DOMAIN sessions : Session(id) = sessions[i]
  BY <1>1, FirstWithIs DEF Session
<1> QED
  BY <1>1, <1>2

LEMMA HandlerStores ==
  ASSUME RInv, NEW r \in Requests,
         \/ CreateAgent(r) \/ ReadAgent(r) \/ ListAgents(r) \/ ListSessions(r) \/ ReadSession(r)
         \/ ListEvents(r) \/ ReadSessionsAgent(r) \/ ReadSessionsUser(r) \/ StoreFails(r) \/ Greet(r)
  PROVE  Stores' /\ (\A q \in Requests : Placed(q)') /\ Identified' /\ LateRequestsAgree'
         /\ Owned' /\ Messages'
<1> USE DEF At, Goto, handler, stores, tasks
<1>1. /\ DOMAIN pc = Requests /\ DOMAIN held = Requests /\ DOMAIN listed = Requests
      /\ held[r] \in Docs \cup Events \cup {None} /\ agents \subseteq AgentIds
      /\ pc[r] \in {"post", "read_user", "store"} => held[r] \in Docs
  BY DEF RInv, SInv, Shapes, Stores, Placed
<1>2. CASE CreateAgent(r)
  BY <1>1, <1>2, GoesOnStores DEF CreateAgent, GoesOn, AgentIds
<1>3. CASE ReadAgent(r)
  BY <1>1, <1>3, GoesOnStores DEF ReadAgent, GoesOn
<1>4. CASE ListAgents(r)
  BY <1>1, <1>4, GoesOnStores DEF ListAgents, GoesOn
<1>5. CASE ListSessions(r)
  BY <1>1, <1>5, GoesOnStores DEF ListSessions, GoesOn
<1>6. CASE ReadSession(r)
  <2> DEFINE found == Session(call[r].session)
  <2>1. found \in Docs \cup {None}
    BY SessionIs
  <2>2. /\ pc[r] = "handle" /\ held' = [held EXCEPT ![r] = found]
        /\ pc' = [pc EXCEPT ![r] = IF found = None \/ (Kind(r) = "post" /\ ~call[r].flag) THEN "refused"
                                   ELSE IF Kind(r) = "retrieve_session" THEN "answered" ELSE Kind(r)]
        /\ Kind(r) \in {"retrieve_session", "list_events", "post"}
        /\ UNCHANGED <<call, user, users, agents, sessions, events, early, listed>>
    BY <1>6 DEF ReadSession
  <2> HIDE DEF found
  <2>3. held'[r] = found
    BY <1>1, <2>2
  <2>4. GoesOn(r)
    BY <1>1, <2>1, <2>2, <2>3 DEF GoesOn
  <2> QED
    BY <2>4, GoesOnStores
<1>7. CASE ListEvents(r)
  BY <1>1, <1>7, GoesOnStores DEF ListEvents, GoesOn
<1>8. CASE ReadSessionsAgent(r)
  BY <1>1, <1>8, GoesOnStores DEF ReadSessionsAgent, GoesOn
<1>9. CASE ReadSessionsUser(r)
  BY <1>1, <1>9, GoesOnStores DEF ReadSessionsUser, GoesOn
<1>10. CASE StoreFails(r)
  BY <1>1, <1>10, GoesOnStores DEF StoreFails, GoesOn
<1>11. CASE Greet(r)
  BY <1>1, <1>11, GoesOnStores DEF Greet, GoesOn
<1> QED
  BY <1>2, <1>3, <1>4, <1>5, <1>6, <1>7, <1>8, <1>9, <1>10, <1>11

(* A session is created for the user of the request that creates it.        *)
LEMMA CreateSessionStores ==
  ASSUME RInv, NEW r \in Requests, CreateSession(r)
  PROVE  Stores' /\ (\A q \in Requests : Placed(q)') /\ Identified' /\ LateRequestsAgree'
         /\ Owned' /\ Messages'
<1> USE DEF At, Goto, handler, stores, tasks
<1> DEFINE new == [id |-> Target(r), agent |-> call[r].agent, user |-> Owner(r), by |-> r]
<1>1. /\ DOMAIN pc = Requests /\ pc[r] = "insert" /\ call[r] \in Calls /\ call[r].agent \in AgentIds
      /\ user[r] \in Requests /\ sessions \in Seq(Docs)
  BY DEF CreateSession, RInv, SInv, Shapes, Stores, Placed
<1>2. /\ pc' = [pc EXCEPT ![r] = pc'[r]] /\ pc'[r] \in {"greet", "answered"}
      /\ sessions' = Append(sessions, new)
      /\ UNCHANGED <<call, user, held, users, agents, events, early, listed>>
  BY <1>1 DEF CreateSession
<1>3. new \in Docs /\ new.by = r /\ new.user = user[r]
  <2>1. Target(r) \in SessionIds
    BY <1>1, CallsType DEF Target, SessionIds
  <2> QED
    BY <1>1, <2>1 DEF Docs, Owner
<1> HIDE DEF new
<1>4. PICK n \in Nat : /\ DOMAIN sessions = 1..n
                       /\ sessions' \in Seq(Docs) /\ DOMAIN sessions' = 1..(n + 1)
                       /\ \A i \in 1..n : sessions'[i] = sessions[i]
                       /\ sessions'[n + 1] = new
  <2>1. Len(sessions) \in Nat /\ DOMAIN sessions = 1..Len(sessions)
    BY <1>1
  <2>2. /\ sessions' \in Seq(Docs) /\ Len(sessions') = Len(sessions) + 1
        /\ \A i \in 1..Len(sessions) : sessions'[i] = sessions[i]
        /\ sessions'[Len(sessions) + 1] = new
    BY <1>1, <1>2, <1>3, AppendProperties
  <2>3. DOMAIN sessions' = 1..(Len(sessions) + 1)
    BY <2>2
  <2> QED
    BY <2>1, <2>2, <2>3
<1>5. Stores'
  BY <1>1, <1>2, <1>4 DEF RInv, Stores
<1>6. Placed(r)'
  BY <1>1, <1>2 DEF RInv, Placed
<1>7. \A q \in Requests : Placed(q)'
  BY <1>1, <1>2, <1>6, OthersPlaced
<1>8. Identified' /\ LateRequestsAgree'
  BY <1>2, SameUsers
<1>9. \A q \in Requests \ {r} : pc'[q] = pc[q]
  BY <1>1, <1>2
<1>10. Owned'
  <2>1. ASSUME NEW i \in 1..n
        PROVE  pc'[sessions'[i].by] \in {"greet", "answered"} /\ sessions'[i].user = user[sessions'[i].by]
    <3>1. sessions[i] \in Docs
      BY <1>1, <1>4
    <3>2. PICK q \in Requests : sessions[i].by = q
      BY <3>1 DEF Docs
    <3>3. pc[q] \in {"greet", "answered"} /\ sessions[i].user = user[q] /\ q # r
      BY <1>1, <1>4, <3>2 DEF RInv, Owned
    <3> QED
      BY <1>4, <1>9, <3>2, <3>3
  <2>2. pc'[sessions'[n + 1].by] \in {"greet", "answered"} /\ sessions'[n + 1].user = user[sessions'[n + 1].by]
    BY <1>2, <1>3, <1>4
  <2>3. \A i \in 1..(n + 1) : i \in 1..n \/ i = n + 1
    OBVIOUS
  <2> QED
    BY <1>2, <1>4, <2>1, <2>2, <2>3 DEF Owned
<1>11. Messages'
  <2> SUFFICES ASSUME NEW e \in events PROVE pc'[e.by] = "streaming"
    BY <1>2 DEF Messages
  <2>1. e.by \in Requests /\ pc[e.by] = "streaming"
    BY DEF RInv, Stores, Events, Messages
  <2> QED
    BY <1>1, <1>9, <2>1
<1> QED
  BY <1>5, <1>7, <1>8, <1>10, <1>11

(* A message is stored by the request whose response then streams.          *)
LEMMA StoreMessageStores ==
  ASSUME RInv, NEW r \in Requests, StoreMessage(r)
  PROVE  Stores' /\ (\A q \in Requests : Placed(q)') /\ Identified' /\ LateRequestsAgree'
         /\ Owned' /\ Messages'
<1> USE DEF At, Goto, handler, stores, tasks
<1> DEFINE event == [session |-> held[r].id, corr |-> ctx[<<"http", r>>], by |-> r]
<1>1. DOMAIN pc = Requests /\ DOMAIN held = Requests /\ pc[r] = "store" /\ held[r] \in Docs
  BY DEF StoreMessage, RInv, SInv, Shapes, Placed
<1>2. /\ pc' = [pc EXCEPT ![r] = "streaming"] /\ events' = events \cup {event}
      /\ held' = [held EXCEPT ![r] = event]
      /\ UNCHANGED <<call, user, users, agents, sessions, early, listed>>
  BY DEF StoreMessage
<1>3. event \in Events /\ event.by = r
  <2>1. ctx[<<"http", r>>] = Speech(r)
    BY <1>1 DEF RInv, SInv, Scopes
  <2>2. Speech(r) \in Seq({"RID", "gen"} \X Requests)
    <3>1. Rid(r) \in {"RID", "gen"} \X Requests /\ Gen(r) \in {"RID", "gen"} \X Requests
      BY DEF Rid, Gen
    <3> QED
      BY <3>1 DEF Speech
  <2>3. held[r].id \in SessionIds
    BY <1>1 DEF Docs
  <2> QED
    BY <2>1, <2>2, <2>3 DEF Events
<1> HIDE DEF event
<1>4. held'[r] = event /\ (\A q \in Requests \ {r} : held'[q] = held[q] /\ pc'[q] = pc[q])
      /\ pc'[r] = "streaming"
  BY <1>1, <1>2
<1>5. Stores'
  BY <1>2, <1>3, <1>4 DEF RInv, Stores
<1>6. Placed(r)'
  BY <1>1, <1>2, <1>4 DEF RInv, Placed
<1>7. \A q \in Requests : Placed(q)'
  BY <1>1, <1>2, <1>4, <1>6, OthersPlaced
<1>8. Identified' /\ LateRequestsAgree'
  BY <1>2, SameUsers
<1>9. Owned'
  <2> SUFFICES ASSUME NEW i \in DOMAIN sessions
               PROVE  pc'[sessions[i].by] \in {"greet", "answered"} /\ sessions[i].user = user[sessions[i].by]
    BY <1>2 DEF Owned
  <2>1. sessions[i] \in Docs
    BY DEF RInv, Stores
  <2>2. PICK q \in Requests : sessions[i].by = q
    BY <2>1 DEF Docs
  <2>3. pc[q] \in {"greet", "answered"} /\ sessions[i].user = user[q] /\ q # r
    BY <1>1, <2>2 DEF RInv, Owned
  <2> QED
    BY <1>4, <2>2, <2>3
<1>10. Messages'
  <2>1. ASSUME NEW e \in events PROVE pc'[e.by] = "streaming"
    <3>1. e.by \in Requests /\ pc[e.by] = "streaming"
      BY DEF RInv, Stores, Events, Messages
    <3> QED
      BY <1>1, <1>4, <3>1
  <2>2. pc'[event.by] = "streaming"
    BY <1>3, <1>4
  <2> QED
    BY <1>2, <2>1, <2>2 DEF Messages
<1> QED
  BY <1>5, <1>7, <1>8, <1>9, <1>10

(* Agents and modules that delete a session leave the others in order.      *)
LEMMA DeleteStores ==
  ASSUME RInv, \/ \E id \in SessionIds : DeleteSession(id)
               \/ \E a \in AgentIds : DeleteAgent(a)
  PROVE  Stores' /\ (\A q \in Requests : Placed(q)') /\ Identified' /\ LateRequestsAgree'
         /\ Owned' /\ Messages'
<1> USE DEF handler, stores, tasks
<1>1. /\ UNCHANGED <<pc, call, user, held, users, early, listed>>
      /\ agents' \subseteq agents /\ events' \subseteq events
  BY DEF DeleteSession, DeleteAgent
<1>2. /\ sessions' \in Seq(Docs)
      /\ \A k \in DOMAIN sessions' : \E j \in DOMAIN sessions : sessions'[k] = sessions[j]
  <2>1. sessions \in Seq(Docs)
    BY DEF RInv, Stores
  <2>2. CASE \E a \in AgentIds : DeleteAgent(a)
    BY <2>1, <2>2 DEF DeleteAgent
  <2>3. CASE \E id \in SessionIds : DeleteSession(id)
    <3>1. PICK id : With(sessions, "id", id) # {} /\ sessions' = RemoveAt(sessions, Min(With(sessions, "id", id)))
      BY <2>3 DEF DeleteSession
    <3> DEFINE W == With(sessions, "id", id)
    <3>2. PICK n \in Nat : DOMAIN sessions = 1..n
      BY <2>1
    <3>3. W \in SUBSET (1..n)
      BY <3>2 DEF With
    <3>4. Min(W) \in DOMAIN sessions
      <4> HIDE DEF W
      <4>1. W # {}
        BY <3>1 DEF W
      <4> QED
        BY <3>2, <3>3, <4>1, LeastPosition
    <3> QED
      BY <2>1, <3>1, <3>4, RemoveAtKeeps
  <2> QED
    BY <2>2, <2>3
<1>3. Stores'
  BY <1>1, <1>2 DEF RInv, Stores
<1>4. \A q \in Requests : Placed(q)'
  BY <1>1 DEF RInv, Placed
<1>5. Identified' /\ LateRequestsAgree'
  BY <1>1, SameUsers
<1>6. Owned'
  BY <1>1, <1>2 DEF RInv, Owned
<1>7. Messages'
  BY <1>1 DEF RInv, Messages
<1> QED
  BY <1>3, <1>4, <1>5, <1>6, <1>7

(* The steps of the response, the dispatcher and the run leave the stores    *)
(* alone.                                                                    *)
LEMMA StoresKept ==
  ASSUME RInv, UNCHANGED <<pc, call, user, held, users, agents, sessions, events, early, listed>>
  PROVE  Stores' /\ (\A q \in Requests : Placed(q)') /\ Identified' /\ LateRequestsAgree'
         /\ Owned' /\ Messages'
<1>1. Stores'
  BY DEF RInv, Stores
<1>2. \A q \in Requests : Placed(q)'
  BY DEF RInv, Placed
<1>3. Identified' /\ LateRequestsAgree'
  BY SameUsers
<1>4. Owned' /\ Messages'
  BY DEF RInv, Owned, Messages
<1> QED
  BY <1>1, <1>2, <1>3, <1>4

LEMMA InductiveStored ==
  ASSUME RInv, [Next]_vars
  PROVE  RInv'
<1>1. SInv'
  BY Inductive DEF RInv
<1>2. Stores' /\ (\A q \in Requests : Placed(q)') /\ Identified' /\ LateRequestsAgree'
      /\ Owned' /\ Messages'
  <2>1. CASE UNCHANGED vars
    BY <2>1, StoresKept DEF vars, handler, stores
  <2>2. CASE \/ \E id \in SessionIds : DeleteSession(id)
             \/ \E a \in AgentIds : DeleteAgent(a)
    BY <2>2, DeleteStores
  <2>3. CASE \E r \in Requests : Handle(r) \/ Dispatch(r) \/ Emit(r) \/ RunEnds(r)
    <3>1. PICK r \in Requests : Handle(r) \/ Dispatch(r) \/ Emit(r) \/ RunEnds(r)
      BY <2>3
    <3>2. CASE Subscribe(r) \/ Dispatch(r) \/ Emit(r) \/ RunEnds(r)
      BY <3>2, StoresKept DEF Subscribe, Dispatch, Emit, RunEnds, handler, stores
    <3>3. CASE \E c \in Calls : Arrive(r, c)
      BY <3>3, ArriveStores
    <3>4. CASE Authenticate(r) \/ CreateUser(r)
      BY <3>4, AuthenticateStores, CreateUserStores
    <3>5. CASE CreateSession(r) \/ StoreMessage(r)
      BY <3>5, CreateSessionStores, StoreMessageStores
    <3> QED
      BY <3>1, <3>2, <3>3, <3>4, <3>5, HandlerStores DEF Handle
  <2> QED
    BY <2>1, <2>2, <2>3 DEF Next
<1> QED
  BY <1>1, <1>2 DEF RInv
-----------------------------------------------------------------------------
(* What follows from the invariant: a refused request has left nothing.      *)
LEMMA NothingLeft ==
  ASSUME RInv
  PROVE  Inv
<1>1. TypeOK
  BY DEF RInv, SInv, Shapes, Stores, TypeOK, Points, Refusals
<1>2. RefusedLeavesNothing
  <2> SUFFICES ASSUME NEW r \in Requests, pc[r] \in {"refused", "failed"}
               PROVE  /\ \A s \in ToSet(sessions) : s.by # r
                      /\ \A e \in events : e.by # r
                      /\ disp[r] = "none" /\ run[r] = "none"
                      /\ ctx[<<"http", r>>] = <<Rid(r)>>
    BY DEF RefusedLeavesNothing, Refusals
  <2>1. \A s \in ToSet(sessions) : s.by # r
    BY DEF ToSet, RInv, Owned
  <2>2. \A e \in events : e.by # r
    BY DEF RInv, Messages
  <2>3. disp[r] = "none" /\ run[r] = "none"
    BY NoRunYet DEF RInv
  <2>4. ctx[<<"http", r>>] = <<Rid(r)>>
    BY DEF RInv, SInv, Scopes, Plain
  <2> QED
    BY <2>1, <2>2, <2>3, <2>4
<1> QED
  BY <1>1, <1>2 DEF Inv

(* The user a request acts for is of its sub, and of no other.               *)
LEMMA OneSub ==
  ASSUME RInv, NEW r \in Requests, NEW q \in Requests, user[r] # None, user[r] = user[q]
  PROVE  call[r].sub = call[q].sub
<1>1. PICK i \in DOMAIN users : users[i].id = user[r] /\ users[i].sub = call[r].sub
  BY DEF RInv, Identified
<1>2. PICK j \in DOMAIN users : users[j].id = user[q] /\ users[j].sub = call[q].sub
  BY DEF RInv, Identified
<1>3. i = j
  BY <1>1, <1>2 DEF RInv, Identified
<1> QED
  BY <1>1, <1>2, <1>3

(* Requests of a sub that found its user found the same.                     *)
LEMMA OneUser ==
  ASSUME RInv, NEW r \in Requests \ early, NEW q \in Requests \ early,
         user[r] # None, user[q] # None, call[r].sub = call[q].sub
  PROVE  user[r] = user[q]
<1>1. PICK n \in Nat : DOMAIN users = 1..n
  BY DEF RInv, Stores
<1>2. PICK i \in 1..n : /\ users[i].id = user[r] /\ users[i].sub = call[r].sub
                        /\ \A k \in 1..(i - 1) : users[k].sub # call[r].sub
  BY <1>1 DEF RInv, LateRequestsAgree
<1>3. PICK j \in 1..n : /\ users[j].id = user[q] /\ users[j].sub = call[q].sub
                        /\ \A k \in 1..(j - 1) : users[k].sub # call[q].sub
  BY <1>1 DEF RInv, LateRequestsAgree
<1>4. i \notin 1..(j - 1) /\ j \notin 1..(i - 1)
  BY <1>2, <1>3
<1>5. i = j
  BY <1>4
<1> QED
  BY <1>2, <1>3, <1>5

(* So what is listed for a client is its own.                               *)
LEMMA ListsOwn ==
  ASSUME RInv, NEW r \in Requests, ListSessions(r)
  PROVE  LET own == {s \in ToSet(sessions) : call[s.by].sub = call[r].sub
                                             /\ call[r].agent \in {None, s.agent}}
         IN /\ listed'[r] \subseteq own
            /\ {s \in own : {s.by, r} \cap early = {}} \subseteq listed'[r]
<1> DEFINE agent(s) == call[r].agent \in {None, s.agent}
<1>1. /\ pc[r] = "handle" /\ DOMAIN listed = Requests
      /\ listed' = [listed EXCEPT ![r] = {s \in ToSet(sessions) : s.user = user[r] /\ agent(s)}]
  BY DEF ListSessions, At, RInv, Stores
<1> HIDE DEF agent
<1>2. user[r] # None
  BY <1>1 DEF RInv, Placed
<1>3. listed'[r] = {s \in ToSet(sessions) : s.user = user[r] /\ agent(s)}
  BY <1>1
<1>4. ASSUME NEW s \in ToSet(sessions)
      PROVE  s.by \in Requests /\ user[s.by] # None /\ s.user = user[s.by]
  <2>1. PICK i \in DOMAIN sessions : s = sessions[i]
    BY DEF ToSet
  <2>2. s \in Docs
    BY <2>1 DEF RInv, Stores
  <2>3. s.by \in Requests
    BY <2>2 DEF Docs
  <2>4. pc[s.by] \in {"greet", "answered"} /\ s.user = user[s.by]
    BY <2>1 DEF RInv, Owned
  <2> QED
    BY <2>3, <2>4 DEF RInv, Placed
<1>5. ASSUME NEW s \in ToSet(sessions), s.user = user[r] PROVE call[s.by].sub = call[r].sub
  BY <1>2, <1>4, <1>5, OneSub
<1>6. ASSUME NEW s \in ToSet(sessions), call[s.by].sub = call[r].sub, s.by \notin early, r \notin early
      PROVE  s.user = user[r]
  BY <1>2, <1>4, <1>6, OneUser
<1> QED
  BY <1>3, <1>5, <1>6 DEF agent

(* Only the listing of sessions answers a request for one.                   *)
LEMMA OnlyListing ==
  ASSUME RInv, [Next]_vars, NEW r \in Requests, listed'[r] # listed[r], Kind(r) = "list_sessions"
  PROVE  ListSessions(r)
<1> USE DEF handler, stores, tasks
<1>1. DOMAIN listed = Requests
  BY DEF RInv, Stores
<1>2. PICK q \in Requests : ListSessions(q) \/ ListAgents(q) \/ ListEvents(q)
  BY DEF Next, Handle, vars, Arrive, Authenticate, CreateUser, CreateAgent, ReadAgent, CreateSession,
         ReadSession, ReadSessionsAgent, ReadSessionsUser, StoreMessage, StoreFails, Subscribe, Greet,
         Dispatch, Emit, RunEnds, DeleteSession, DeleteAgent
<1>3. q = r
  BY <1>1, <1>2 DEF ListSessions, ListAgents, ListEvents
<1>4. ~ListAgents(r)
  BY DEF ListAgents
<1>5. ~ListEvents(r)
  BY DEF ListEvents, At, RInv, SInv, Asked
<1> QED
  BY <1>2, <1>3, <1>4, <1>5

(* What the stores hold and the requests do has the types of the code, and a *)
(* request that is refused, or fails as its session goes, leaves nothing:    *)
(* the routes check before they insert, and dispatch after they have stored. *)
THEOREM RefusedLeaveNothing == Spec => []Inv
<1>1. Init => RInv
  BY InitiallyStored
<1>2. RInv /\ [Next]_vars => RInv'
  BY InductiveStored
<1>3. RInv => Inv
  BY NothingLeft
<1> QED
  BY <1>1, <1>2, <1>3, PTL DEF Spec

(* Requests that find a user act for the first created of their sub: the     *)
(* collection only grows at its end, and NoopAuthHandler takes the first.    *)
THEOREM OneIdentity == Spec => []LateRequestsAgree
<1>1. Init => RInv
  BY InitiallyStored
<1>2. RInv /\ [Next]_vars => RInv'
  BY InductiveStored
<1>3. RInv => LateRequestsAgree
  BY DEF RInv
<1> QED
  BY <1>1, <1>2, <1>3, PTL DEF Spec

(* list_sessions gives a client sessions that requests of its sub created,   *)
(* and all of them unless requests raced to create the user.                 *)
THEOREM OwnListed == Spec => OwnSessionsListed
<1>1. Init => RInv
  BY InitiallyStored
<1>2. RInv /\ [Next]_vars => RInv'
  BY InductiveStored
<1>3. RInv /\ [Next]_vars =>
        \A r \in Requests : listed'[r] # listed[r] /\ Kind(r) = "list_sessions" =>
          LET own == {s \in ToSet(sessions) : call[s.by].sub = call[r].sub /\ call[r].agent \in {None, s.agent}}
          IN /\ listed'[r] \subseteq own
             /\ {s \in own : {s.by, r} \cap early = {}} \subseteq listed'[r]
  BY OnlyListing, ListsOwn
<1> QED
  BY <1>1, <1>2, <1>3, PTL DEF Spec, OwnSessionsListed
=============================================================================
