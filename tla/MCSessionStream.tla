-------------------------- MODULE MCSessionStream --------------------------
(* Small instances of SessionStream for TLC. *)
EXTENDS SessionStream, TLC

CONSTANTS r1, r2, r3, a, b

\* Two requests to one session; a third to another.
MCPair == (r1 :> a) @@ (r2 :> a)
MCShared == MCPair @@ (r3 :> b)

\* The runs say something of every kind between them.
MCShort == [r \in {r1, r2} |-> <<"status", "message", "completed">>]
MCScripts == (r1 :> <<"status", "message", "completed">>) @@ (r2 :> <<"chunk", "completed">>)
             @@ (r3 :> <<"completed">>)
=============================================================================
