----------------------------- MODULE MCLangChain -----------------------------
(* Small instances of LangChain for TLC. *)
EXTENDS LangChain, TLC

Said(text, calls, meta) ==
  [text |-> text, calls |-> calls, meta |-> meta, valid |-> TRUE, kwargs |-> TRUE]
Empty == Said(FALSE, <<>>, "none")
Finish == Said(FALSE, <<>>, "finish")
Text == Said(TRUE, <<>>, "none")
Opening(i, args) == Said(FALSE, <<[i |-> i, id |-> TRUE, args |-> args]>>, "none")
More(i, args) == Said(FALSE, <<[i |-> i, id |-> FALSE, args |-> args]>>, "none")
Both(a, b) == Said(FALSE, <<[i |-> 1, id |-> TRUE, args |-> a], [i |-> 2, id |-> TRUE, args |-> b]>>, "none")
Crowd(a, b) == Said(FALSE, <<[i |-> 1, id |-> FALSE, args |-> a], [i |-> 2, id |-> FALSE, args |-> b]>>, "none")
NoId == [Empty EXCEPT !.valid = FALSE]
NoKwargs(c) == [c EXCEPT !.kwargs = FALSE]

\* One call: opened, then its arguments in fragments or whole.
OneCall == {<<Opening(1, "none"), More(1, "open"), More(1, "mid"), Finish>>,
            <<Opening(1, "none"), More(1, "whole"), Finish>>,
            <<Opening(1, "open"), More(1, "whole"), More(1, "mid")>>,
            <<Opening(1, "open"), More(1, "mid")>>,
            <<Opening(1, "open"), NoKwargs(More(1, "mid"))>>,
            <<Opening(1, "whole")>>}
\* Two calls, one after the other or in one chunk.
TwoCalls == {<<Opening(1, "none"), More(1, "open"), Opening(2, "none"), More(2, "open")>>,
             <<Opening(1, "open"), More(1, "mid"), Opening(2, "open"), More(2, "mid")>>,
             <<Opening(1, "whole"), Opening(2, "whole")>>,
             <<Both("whole", "whole")>>,
             <<Both("none", "none"), More(1, "open"), More(2, "mid")>>,
             <<Both("open", "open"), Crowd("mid", "mid")>>,
             <<Both("open", "open"), Crowd("whole", "open")>>}
Texts == {<<Empty, Text, Text, Finish>>, <<Text, Said(TRUE, <<>>, "other")>>, <<Text, NoId>>}
Mixed == {<<Text, Opening(1, "none"), More(1, "open")>>, <<Opening(1, "open"), Text>>}

\* One run may say anything, another, concurrent with it, says a text.
MCScripts == <<OneCall \cup TwoCalls \cup Texts \cup Mixed, {<<Text, Text>>}>>
=============================================================================
