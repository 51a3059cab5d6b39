------------------------------ MODULE LangChain ------------------------------
(***************************************************************************)
(* The LangChain adapter, packages/stream/src/flux0_stream/frameworks/     *)
(* langchain.py, over the emitter's queue and the event store: the events  *)
(* of an agent's chat model and tools become statuses and JSON patches,    *)
(* and those become the messages a session keeps.                          *)
(*                                                                         *)
(* A run of the model says a script, a sequence of chunks.  Text and       *)
(* arguments are represented by the position of their chunk in it.  Calls  *)
(* are numbered from 1 (the code: from 0).                                 *)
(***************************************************************************)
EXTENDS Naturals, SequencesExt

CONSTANTS Runs,      \* run ids of the chat model
          Scripts,   \* what each run may say
          MaxCalls,  \* bound: tool calls of a message
          Absent

\* The arguments a chunk has for a call: none; text that LangChain repairs to an
\* object but is not JSON by itself ("open", like `{"q`); text it cannot make an
\* object of ("mid", like ` Francisco`); or a JSON object ("whole").
Args == {"none", "open", "mid", "whole"}
CallChunk == [i : 1..MaxCalls, id : BOOLEAN, args : Args]
\* kwargs: additional_kwargs has the calls as the provider sent them.
Chunk == [text : BOOLEAN, calls : Seq(CallChunk), meta : {"none", "finish", "other"}, valid : BOOLEAN,
          kwargs : BOOLEAN]

ASSUME MaxCallsNat == MaxCalls \in Nat
ASSUME ScriptsAreStreams ==
  \A r \in Runs : \A s \in Scripts[r] :
    /\ s \in Seq(Chunk)
    /\ \A k \in DOMAIN s : \A t \in ToSet(s[k].calls) : t.id \/ t.args # "none"

\* Calls are numbered as they are opened, which is the first that is said of one; and one that
\* begins with a whole object has no more arguments, as all of them together are an object.
Places(s) == UNION {{k} \X DOMAIN s[k].calls : k \in DOMAIN s}
CallAt(s, p) == s[p[1]].calls[p[2]]
Earlier(p, q) == p[1] < q[1] \/ (p[1] = q[1] /\ p[2] < q[2])
ASSUME CallsAreStreams ==
  \A r \in Runs : \A s \in Scripts[r] : \A p \in Places(s) :
    LET t == CallAt(s, p)
        before == {CallAt(s, q).i : q \in {x \in Places(s) : Earlier(x, p)}}
    IN IF ~t.id THEN t.i \in before
       ELSE /\ before = 1..(t.i - 1)
            /\ t.args = "whole" => \A q \in Places(s) :
                                     CallAt(s, q).i = t.i => q = p \/ CallAt(s, q).args = "none"

Message(r) == <<r, 0>>       \* the event of a model run
Result(r, i) == <<r, i>>     \* the event of the tool run for its i-th call
Events == Runs \X (0..MaxCalls)

VARIABLES
  phase,   \* of the agent: running, done, failed (handle_event raised), cancelled
  stage,   \* of each model run: unborn, open, ended
  script,  \* what each run says
  said,    \* how many of its chunks have been handled
  tools,   \* the tool runs that have ended
  typing,  \* RunContext: the runs whose "typing" has been emitted
  queue,   \* the emitter's queue
  docs,    \* the store's documents in progress
  shown    \* what subscribers have been notified of, by event

agent == <<phase, stage, script, said, tools, typing>>
vars == <<agent, queue, docs, shown>>

Init == /\ phase = "running"
        /\ stage = [r \in Runs |-> "unborn"]
        /\ script = [r \in Runs |-> <<>>]
        /\ said = [r \in Runs |-> 0]
        /\ tools = {} /\ typing = {} /\ queue = <<>>
        /\ shown = [e \in Events |-> <<>>]
        /\ docs = [e \in Events |-> Absent]

Op(path, i, v) == [path |-> path, i |-> i, v |-> v]
ChunkMsg(ev, ops) == <<[ev |-> ev, ops |-> ops]>>
StatusMsg(ev, status) == <<[ev |-> ev, status |-> status]>>

---------------------------------------------------------------------------
\* handle_event: one event of the framework.  Putting on the queue never suspends.

\* LangChain keeps the calls of a chunk apart that it cannot make objects of.
ToolCalls(c) == {t \in ToSet(c.calls) : t.args # "mid"}

ArgsOps(t, k) == CASE t.args = "none" -> <<>>
                   [] t.args = "whole" -> <<Op("args", t.i, k)>>
                   [] OTHER -> <<Op("args/-", t.i, k)>>

CallOps(t, k) == (IF t.id THEN <<Op("call", t.i, k)>> ELSE <<>>) \o ArgsOps(t, k)

\* Mutant of FragmentMsgs: a fragment goes to its place in the chunk.
FragmentMsgs_ByPlace(r, c, k) ==
  [j \in DOMAIN c.calls |-> [ev |-> Message(r), ops |-> <<Op("args/-", j, k)>>]]

\* All calls of the chunk are invalid; every one goes to the index of the first, which is
\* looked up in additional_kwargs.
FragmentMsgs(r, c, k) ==
  IF ~c.kwargs THEN <<>>
  ELSE [j \in DOMAIN c.calls |-> [ev |-> Message(r), ops |-> <<Op("args/-", Head(c.calls).i, k)>>]]

TextMsgs(r, k) ==
  (IF r \in typing THEN <<>> ELSE StatusMsg(Message(r), "typing"))
  \o ChunkMsg(Message(r), <<Op("/-", 0, k)>>)

\* An empty chunk and the one that only says the call is finished emit nothing.
Emitted(r, c, k) ==
  (IF c.text THEN TextMsgs(r, k) ELSE <<>>)
  \o (IF ToolCalls(c) # {}
      THEN ChunkMsg(Message(r), FlattenSeq([j \in DOMAIN c.calls |-> CallOps(c.calls[j], k)]))
      ELSE FragmentMsgs(r, c, k))

\* Text whose metadata has no finish_reason raises a KeyError after it is emitted, and so do
\* fragments without the calls in additional_kwargs.
Raises(c) == \/ ~c.valid
             \/ c.text /\ c.calls = <<>> /\ c.meta = "other"
             \/ c.calls # <<>> /\ ToolCalls(c) = {} /\ ~c.kwargs

Start(r, s) ==
  /\ phase = "running" /\ stage[r] = "unborn"
  /\ stage' = [stage EXCEPT ![r] = "open"]
  /\ script' = [script EXCEPT ![r] = s]
  /\ queue' = queue \o StatusMsg(Message(r), "processing")
  /\ UNCHANGED <<phase, said, tools, typing, docs, shown>>

\* Mutant of Typed: that "typing" was emitted is not recorded.
Typed_Forgotten(r, c) == typing
Typed(r, c) == IF c.valid /\ c.text THEN typing \cup {r} ELSE typing

Stream(r) ==
  /\ phase = "running" /\ stage[r] = "open" /\ said[r] < Len(script[r])
  /\ LET k == said[r] + 1
         c == script[r][k]
     IN /\ queue' = IF c.valid THEN queue \o Emitted(r, c, k) ELSE queue
        /\ typing' = Typed(r, c)
        /\ phase' = IF Raises(c) THEN "failed" ELSE phase
        /\ said' = [said EXCEPT ![r] = k]
  /\ UNCHANGED <<stage, script, tools, docs, shown>>

End(r) ==
  /\ phase = "running" /\ stage[r] = "open" /\ said[r] = Len(script[r])
  /\ stage' = [stage EXCEPT ![r] = "ended"]
  /\ queue' = queue \o StatusMsg(Message(r), "ready")
  /\ UNCHANGED <<phase, script, said, tools, typing, docs, shown>>

Requested(r) == {t.i : t \in UNION {ToSet(script[r][k].calls) : k \in DOMAIN script[r]}}

\* Mutant of ResultOps: the result is that of the call before.
ResultOps_ZeroBased(i) == <<Op("results", i - 1, 0), Op("results/-", i - 1, 0)>>
ResultOps(i) == <<Op("results", i, 0), Op("results/-", i, 0)>>

\* Mutant of ToolEnd: nothing tells the store that the result is complete.
ToolEnd_NotReady(r, i) ==
  /\ phase = "running" /\ stage[r] = "ended" /\ i \in Requested(r) /\ Result(r, i) \notin tools
  /\ tools' = tools \cup {Result(r, i)}
  /\ queue' = queue \o ChunkMsg(Result(r, i), ResultOps(i))
  /\ UNCHANGED <<phase, stage, script, said, typing, docs, shown>>

\* The framework runs the tools a message requests once the message is complete.
ToolEnd(r, i) ==
  /\ phase = "running" /\ stage[r] = "ended" /\ i \in Requested(r) /\ Result(r, i) \notin tools
  /\ tools' = tools \cup {Result(r, i)}
  /\ queue' = queue \o ChunkMsg(Result(r, i), ResultOps(i)) \o StatusMsg(Result(r, i), "ready")
  /\ UNCHANGED <<phase, stage, script, said, typing, docs, shown>>

\* The events end, or the task that iterates them is cancelled.
Done == /\ phase = "running" /\ \A r \in Runs : stage[r] # "open"
        /\ phase' = "done"
        /\ UNCHANGED <<stage, script, said, tools, typing, queue, docs, shown>>

Cancelled == /\ phase = "running"
             /\ phase' = "cancelled"
             /\ UNCHANGED <<stage, script, said, tools, typing, queue, docs, shown>>

---------------------------------------------------------------------------
\* The store.  begun: a chunk has been accepted, so that only appends still are
\* (every chunk of the adapter has seq 0).
NewDoc == [root |-> "none", begun |-> FALSE, text |-> <<>>, calls |-> <<>>, results |-> <<>>]

\* An entry a patch's path had to create has no id and no arguments.
Blank == [opened |-> FALSE, form |-> "missing", args |-> <<>>]
Opened == [opened |-> TRUE, form |-> "list", args |-> <<>>]

\* ensure_structure_for_patch, for a path into the i-th call.
WithEntry(calls, i) ==
  IF i <= Len(calls) THEN calls ELSE calls \o [k \in 1..(i - Len(calls)) |-> Blank]

\* Whether apply_patch succeeds: keys need a dict, an index at most the next one.
Applies(doc, op) ==
  \/ op.path = "/-"
  \/ doc.root # "list" /\ CASE op.path = "call" -> op.i <= Len(doc.calls) + 1
                            [] op.path = "args" -> WithEntry(doc.calls, op.i)[op.i].form # "missing"
                            [] OTHER -> TRUE

\* What a patch makes of a call's arguments: replaced, or appended to; appending to
\* what is not a list sets the key "-" of a dict.
Replaced(entry, v) == [entry EXCEPT !.form = "dict", !.args = <<v>>]
Fragment(entry, v) == [entry EXCEPT !.form = IF @ = "list" THEN @ ELSE "dict", !.args = Append(@, v)]

WithCall(calls, op) ==
  CASE op.path = "call" -> InsertAt(calls, op.i, Opened)
    [] op.path = "args" -> [WithEntry(calls, op.i) EXCEPT ![op.i] = Replaced(@, op.v)]
    [] op.path = "args/-" -> [WithEntry(calls, op.i) EXCEPT ![op.i] = Fragment(@, op.v)]

Apply(doc, op) ==
  CASE op.path = "/-" -> [doc EXCEPT !.root = IF @ = "none" THEN "list" ELSE @,
                                     !.text = Append(@, op.v)]
    [] op.path = "results" -> [doc EXCEPT !.root = "dict", !.results = <<>>]
    [] op.path = "results/-" -> [doc EXCEPT !.root = "dict", !.results = Append(@, op.i)]
    [] OTHER -> [doc EXCEPT !.root = "dict", !.calls = WithCall(@, op)]

\* One patch after the other, up to the first that does not apply.
ApplyAll(doc, ops) ==
  LET upto[n \in 0..Len(ops)] ==
        IF n = 0 THEN [ok |-> TRUE, doc |-> doc]
        ELSE IF upto[n - 1].ok /\ Applies(upto[n - 1].doc, ops[n])
        THEN [ok |-> TRUE, doc |-> Apply(upto[n - 1].doc, ops[n])]
        ELSE [ok |-> FALSE, doc |-> upto[n - 1].doc]
  IN upto[Len(ops)]

\* Mutant of InTurn: chunks that do not append are not held to their order.
InTurn_Any(doc, ops) == TRUE
InTurn(doc, ops) ==
  \/ ~doc.begun
  \/ \E j \in DOMAIN ops : ops[j].path \in {"/-", "args/-", "results/-"}

Shown(ev, d) == [shown EXCEPT ![ev] = Append(@, d)]

ProcessChunk(m) ==
  LET doc == IF docs[m.ev] = Absent THEN NewDoc ELSE docs[m.ev]
      res == ApplyAll(doc, m.ops)
  IN IF ~InTurn(doc, m.ops) THEN docs' = [docs EXCEPT ![m.ev] = doc] /\ UNCHANGED shown
     ELSE /\ docs' = [docs EXCEPT ![m.ev] = [res.doc EXCEPT !.begun = doc.begun \/ res.ok]]
          /\ shown' = IF res.ok THEN Shown(m.ev, [what |-> m.ops[1].path]) ELSE shown

\* The chunks with arguments the model gave its i-th call, and those with its text.
ArgsSaid(r, i) ==
  {k \in DOMAIN script[r] : \E t \in ToSet(script[r][k].calls) : t.i = i /\ t.args # "none"}
TextSaid(r) == {k \in DOMAIN script[r] : script[r][k].text}

\* Each chunk's part once and in order.
Says(q, chunks) == ToSet(q) = chunks /\ \A m, n \in DOMAIN q : m < n => q[m] < q[n]

\* There is content, and all of its calls have their fields and arguments.
Builds(ev) ==
  /\ docs[ev] # Absent
  /\ docs[ev].root # "none"
  /\ docs[ev].root = "dict" => \A entry \in ToSet(docs[ev].calls) :
                                 entry.opened /\ (entry.form = "list" => entry.args # <<>>)

\* All arguments of a call together are JSON; those of them that were kept may be, too.
Complete(ev) ==
  \A i \in DOMAIN docs[ev].calls :
    docs[ev].calls[i].form = "list" => Says(docs[ev].calls[i].args, ArgsSaid(ev[1], i))

Final(doc) == IF doc.root = "list" THEN [text |-> doc.text]
              ELSE IF doc.calls # <<>> THEN [calls |-> [i \in DOMAIN doc.calls |-> doc.calls[i].args]]
              ELSE [results |-> doc.results]

\* The document goes whether or not an event comes of it; json.loads may take what is left
\* of the arguments.
ProcessStatus(m) ==
  IF m.status = "ready"
  THEN /\ docs' = [docs EXCEPT ![m.ev] = Absent]
       /\ \/ /\ Builds(m.ev)
             /\ shown' = Shown(m.ev, [what |-> "final", content |-> Final(docs[m.ev])])
          \/ /\ Builds(m.ev) => ~Complete(m.ev)
             /\ UNCHANGED shown
  ELSE /\ shown' = Shown(m.ev, [what |-> m.status])
       /\ UNCHANGED docs

WorkerStep ==
  /\ queue # <<>>
  /\ IF "ops" \in DOMAIN Head(queue) THEN ProcessChunk(Head(queue)) ELSE ProcessStatus(Head(queue))
  /\ queue' = Tail(queue)
  /\ UNCHANGED agent

---------------------------------------------------------------------------
Next == \/ \E r \in Runs : Stream(r) \/ End(r) \/ (\E s \in Scripts[r] : Start(r, s))
        \/ \E r \in Runs, i \in 1..MaxCalls : ToolEnd(r, i)
        \/ Done \/ Cancelled \/ WorkerStep

\* The event loop runs the emitter's worker whenever its queue has a message.
Spec == Init /\ [][Next]_vars /\ WF_vars(WorkerStep)

---------------------------------------------------------------------------
Entry == [opened : BOOLEAN, form : {"missing", "list", "dict"}, args : Seq(Nat)]
Doc == [root : {"none", "list", "dict"}, begun : BOOLEAN, text : Seq(Nat), calls : Seq(Entry),
        results : Seq(1..MaxCalls)]
ASSUME AbsentIsNoDoc == Absent \notin Doc

Whats == {"processing", "typing", "/-", "call", "args", "args/-", "results"}
Contents == [text : Seq(Nat)] \cup [calls : Seq(Seq(Nat))] \cup [results : Seq(1..MaxCalls)]

TypeOK == /\ phase \in {"running", "done", "failed", "cancelled"}
          /\ stage \in [Runs -> {"unborn", "open", "ended"}]
          /\ script \in [Runs -> (UNION {Scripts[r] : r \in Runs}) \cup {<<>>}]
          /\ said \in [Runs -> Nat] /\ \A r \in Runs : said[r] \in 0..Len(script[r])
          /\ tools \subseteq Events /\ typing \subseteq Runs
          /\ \A j \in DOMAIN queue : queue[j].ev \in Events
          /\ docs \in [Events -> Doc \cup {Absent}]
          /\ shown \in [Events -> Seq([what : Whats]
                                       \cup [what : {"final"}, content : Contents])]

Finals(ev) == {d.content : d \in {x \in ToSet(shown[ev]) : x.what = "final"}}

\* What is said of a call after it is opened is never in one chunk with anything else said of
\* a call; and the chunks of these that are a JSON object by themselves.
Alone(r, i) == \A p \in Places(script[r]) :
                 CallAt(script[r], p).i = i /\ ~CallAt(script[r], p).id
                   => Len(script[r][p[1]].calls) = 1
Objects(r, i) == {k \in DOMAIN script[r] :
                    \E t \in ToSet(script[r][k].calls) : t.i = i /\ ~t.id /\ t.args = "whole"}

\* A message that is kept says what the model said, whichever patches the store refuses or
\* applies out of place.  A text is all of the model's text, in order.  A call's arguments come
\* from the chunks that have some for it, in their order.  If they come one to a chunk, none is
\* there twice and none is missing, but for those that are objects by themselves: these are to
\* replace what was said before, and the store refuses that.  A result is that of its call.
FinalIsSaid ==
  \A r \in Runs :
    /\ \A f \in Finals(Message(r)) :
         \/ DOMAIN f = {"text"} /\ Says(f.text, TextSaid(r))
         \/ /\ DOMAIN f = {"calls"}
            /\ \A i \in DOMAIN f.calls :
                 LET q == f.calls[i] IN
                 /\ ToSet(q) \subseteq ArgsSaid(r, i)
                 /\ \A m, n \in DOMAIN q : m < n => q[m] <= q[n]
                 /\ Alone(r, i) => /\ \A m, n \in DOMAIN q : m < n => q[m] < q[n]
                                   /\ ArgsSaid(r, i) \ Objects(r, i) \subseteq ToSet(q)
    /\ \A i \in 1..MaxCalls : Finals(Result(r, i)) \subseteq {[results |-> <<i>>]}

\* Of an event, subscribers see "processing" first and "typing" at most once, before
\* the first of its text and not without text.
StatusOrder ==
  \A r \in Runs : LET seen == shown[Message(r)] IN
    \A j, k \in DOMAIN seen :
      /\ seen[k].what = "processing" => j >= k
      /\ seen[j].what = "typing" /\ seen[k].what = "typing" => j = k
      /\ seen[k].what = "/-" => \E t \in 1..(k - 1) : seen[t].what = "typing"

\* An agent that comes to the end of its events leaves no document in the store.
NothingLeft == phase = "done" /\ queue = <<>> => \A ev \in Events : docs[ev] = Absent

\* State and messages are well formed, what subscribers see of an event comes in its order,
\* and the store is empty after the agent.
Inv == TypeOK /\ StatusOrder /\ NothingLeft

\* The scripts the patches carry to the end: text alone, or calls that are all opened
\* in the first chunk that has any, with later fragments one to a chunk, none JSON by itself.
Plain(s) ==
  LET called == {k \in DOMAIN s : s[k].calls # <<>>}
      opening == {k \in called : \E t \in ToSet(s[k].calls) : t.id}
      args(i) == {k \in called : \E t \in ToSet(s[k].calls) : t.i = i /\ t.args # "none"}
  IN \/ called = {} /\ \E k \in DOMAIN s : s[k].text
     \/ /\ \A k \in DOMAIN s : ~s[k].text
        /\ \E o \in opening :
             /\ opening = {o}
             /\ \A k \in called \ {o} : k > o /\ Len(s[k].calls) = 1 /\ s[k].calls[1].args # "whole"
             /\ \A t \in ToSet(s[o].calls) : args(t.i) # {} /\ (t.args = "whole" => args(t.i) = {o})

\* Such a message is always kept, and whole, once the model has said it, even if the
\* agent is cancelled or fails right then.
PlainIsKept ==
  \A r \in Runs :
    stage[r] = "ended" /\ Plain(script[r]) ~>
      \E f \in Finals(Message(r)) :
        IF Requested(r) = {} THEN DOMAIN f = {"text"} /\ Says(f.text, TextSaid(r))
        ELSE /\ DOMAIN f = {"calls"} /\ DOMAIN f.calls = Requested(r)
             /\ \A i \in Requested(r) : Says(f.calls[i], ArgsSaid(r, i))
=============================================================================
