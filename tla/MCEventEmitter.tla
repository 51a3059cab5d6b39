--------------------------- MODULE MCEventEmitter ---------------------------
(* Small instances of EventEmitter for TLC. *)
EXTENDS EventEmitter, TLC

CONSTANTS e1, e2, r1, r2, s1

MCEvents == {e1, e2}
MCCorrs == {r1, r2}
MCCorrOf == (e1 :> r1) @@ (e2 :> r1)
MCSubCorr == s1 :> r1

ChunkOf(e, n, ops) == [ev |-> e, seq |-> n, ops |-> ops, named |-> TRUE]

\* An event of tokens and one of keys, some of which arrive out of order or misfit; a chunk of
\* a tool call both sets keys and appends.
MCChunks == {ChunkOf(e1, 0, <<"append">>), ChunkOf(e1, 1, <<"place">>),
             ChunkOf(e2, 0, <<"place", "append">>), ChunkOf(e2, 1, <<"garble">>)}
=============================================================================
