---------------------------- MODULE MCEventStore ----------------------------
(* Small instances of EventStore for TLC. *)
EXTENDS EventStore, TLC

CONSTANT e1

MCEvents == {e1}

ChunkOf(n, ops) == [ev |-> e1, seq |-> n, ops |-> ops, named |-> TRUE]

\* Tokens, keys, chunks of both kinds, and one without agent_name.
MCChunks ==
  {ChunkOf(n, ops) : n \in 0..2,
     ops \in {<<"append">>, <<"place">>, <<"append", "place">>, <<"place", "garble">>}}
  \cup {[ChunkOf(0, <<"append">>) EXCEPT !.named = FALSE]}

\* Chunks that are all checked for their order.
MCNumbered == {ChunkOf(n, <<"place">>) : n \in 0..2}
=============================================================================
