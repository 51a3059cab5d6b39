----------------------------- MODULE MCRequests -----------------------------
\* Instances of Requests for TLC.
EXTENDS Requests, TLC

CONSTANTS a0, s0, x, y

Ask(kind, sub, agent, session, flag) ==
  [kind |-> kind, sub |-> sub, agent |-> agent, session |-> session, flag |-> flag]

\* Two clients; sessions that the client names or leaves to be named; messages that are
\* well formed and not.
MCCalls == { Ask("create_agent", x, None, None, FALSE),
             Ask("retrieve_agent", x, a0, None, FALSE),
             Ask("list_agents", x, None, None, FALSE),
             Ask("create_session", x, a0, s0, TRUE),
             Ask("create_session", y, a0, s0, FALSE),
             Ask("create_session", x, a0, None, FALSE),
             Ask("list_sessions", x, None, None, FALSE),
             Ask("retrieve_session", x, None, s0, FALSE),
             Ask("list_events", x, None, s0, FALSE),
             Ask("post", x, None, s0, TRUE),
             Ask("post", y, None, s0, TRUE),
             Ask("post", x, None, s0, FALSE) }

Symmetry == Permutations(Requests)
=============================================================================
