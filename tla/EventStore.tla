----------------------------- MODULE EventStore -----------------------------
(***************************************************************************)
(* MemoryEventStore, packages/stream/src/flux0_stream/store/memory.py: it  *)
(* builds each event's document from chunks of JSON patch operations and   *)
(* turns it into a finalized event.                                        *)
(*                                                                         *)
(* An operation is "append" (its path ends in "/-": a token of text), or   *)
(* "place" (it sets a key), or "garble" (it sets the arguments of a tool   *)
(* call to text that is not JSON).  A document is the list of operations   *)
(* that were applied to it and the type of its root: that is what decides  *)
(* which operations still apply and whether it can be finalized.           *)
(***************************************************************************)
EXTENDS Naturals, Integers, Sequences, FiniteSetsExt

CONSTANTS Events,     \* event ids
          Chunks,     \* the chunks producers may send
          Absent,     \* "no value"
          MaxItems    \* bound: operations applied to a document

Ops == {"append", "place", "garble"}

\* named: the chunk's metadata has an agent_name.
Chunk == [ev : Events, seq : Nat, ops : Seq(Ops), named : BOOLEAN]

ASSUME ChunksAreChunks == Chunks \subseteq Chunk
ASSUME ChunksHaveOps == \A c \in Chunks : c.ops # <<>>
ASSUME MaxItemsNat == MaxItems \in Nat

Item == [seq : Nat, op : Ops]
Content == [type : {"list", "dict"}, items : Seq(Item)]
Doc == [named : BOOLEAN, type : {"none", "list", "dict"}, items : Seq(Item)]

ASSUME AbsentFresh == Absent \notin Doc

VARIABLES
  docs,       \* in_progress_docs
  tracker,    \* chunk_index_tracker, -1 for an event it does not hold
  finalized,  \* finalized_events
  offered     \* history: the seqs of the order-checked chunks of a document

storeVars == <<docs, tracker, finalized, offered>>

StoreInit == /\ docs = [e \in Events |-> Absent]
        /\ tracker = [e \in Events |-> -1]
        /\ finalized = [e \in Events |-> Absent]
        /\ offered = [e \in Events |-> {}]

---------------------------------------------------------------------------
IsAppend(c) == \E i \in DOMAIN c.ops : c.ops[i] = "append"

\* The document a chunk goes to, created with the first chunk's metadata.
DocFor(c) == IF docs[c.ev] = Absent
             THEN [named |-> c.named, type |-> "none", items |-> <<>>]
             ELSE docs[c.ev]

\* Mutant of InTurn: chunks are applied in the order they come.
InTurn_Any(c) == TRUE

\* A chunk that appends is never checked for its order.
InTurn(c) == IsAppend(c) \/ c.seq = tracker[c.ev] + 1

\* Mutant of RootType: a patch that wants another root type replaces the document's.
RootType_ByFirstPath(c) == IF Head(c.ops) = "append" THEN "list" ELSE "dict"

\* ensure_structure_for_patch chooses the root's type by the first path.
RootType(c) == IF DocFor(c).type # "none" THEN DocFor(c).type
               ELSE IF Head(c.ops) = "append" THEN "list" ELSE "dict"

\* A key cannot be set in a list: apply_patch raises, after the operations before it.
Misfits(c) == {i \in DOMAIN c.ops : RootType(c) = "list" /\ c.ops[i] # "append"}
Applied(c) == IF Misfits(c) = {} THEN c.ops ELSE SubSeq(c.ops, 1, Min(Misfits(c)) - 1)

\* add_chunk returns; otherwise it raises and its caller notifies nobody.
Accepted(c) == InTurn(c) /\ Misfits(c) = {}

Items(c, ops) == [i \in DOMAIN ops |-> [seq |-> c.seq, op |-> ops[i]]]

AddChunk(c) ==
  LET doc == DocFor(c)
      ops == IF InTurn(c) THEN Applied(c) ELSE <<>>  \* out of order: KeyError, line 111
  IN /\ docs' = [docs EXCEPT ![c.ev] =
                  [doc EXCEPT !.type = IF ops = <<>> THEN @ ELSE RootType(c),
                              !.items = @ \o Items(c, ops)]]
     /\ tracker' = [tracker EXCEPT ![c.ev] = IF Accepted(c) THEN c.seq ELSE @]
     /\ offered' = [offered EXCEPT ![c.ev] = IF IsAppend(c) THEN @ ELSE @ \cup {c.seq}]
     /\ UNCHANGED finalized

\* What finalize_event makes of event e: an event, None, or an exception.
Unusable(e) == ~docs[e].named \/ \E i \in DOMAIN docs[e].items :
                                    docs[e].type = "dict" /\ docs[e].items[i].op = "garble"
Finalizes_Empty(e) == docs[e] # Absent /\ ~Unusable(e)  \* mutant: no emptiness test
Finalizes(e) == docs[e] # Absent /\ ~Unusable(e) /\ docs[e].items # <<>>
FinalContent(e) == [type |-> docs[e].type, items |-> docs[e].items]

\* Mutant of Finalize: the index of the last chunk outlives the document.
Finalize_KeepsTracker(e) ==
  /\ docs' = [docs EXCEPT ![e] = Absent]
  /\ offered' = [offered EXCEPT ![e] = {}]
  /\ finalized' = IF Finalizes(e) THEN [finalized EXCEPT ![e] = FinalContent(e)]
                  ELSE finalized
  /\ UNCHANGED tracker

\* The document is dropped first, whatever becomes of it.
Finalize(e) ==
  /\ docs' = [docs EXCEPT ![e] = Absent]
  /\ tracker' = [tracker EXCEPT ![e] = -1]
  /\ offered' = [offered EXCEPT ![e] = {}]
  /\ finalized' = IF Finalizes(e) THEN [finalized EXCEPT ![e] = FinalContent(e)]
                  ELSE finalized

\* __aexit__: `self.finalized_events.clear` is not called.
Exit == /\ docs' = [e \in Events |-> Absent]
        /\ tracker' = [e \in Events |-> -1]
        /\ offered' = [e \in Events |-> {}]
        /\ UNCHANGED finalized

HasRoom(c) == docs[c.ev] # Absent => Len(docs[c.ev].items) + Len(c.ops) <= MaxItems

StoreNext == \/ \E c \in Chunks : HasRoom(c) /\ AddChunk(c)
        \/ \E e \in Events : Finalize(e)
        \/ Exit

StoreSpec == StoreInit /\ [][StoreNext]_storeVars

---------------------------------------------------------------------------
StoreTypeOK == /\ docs \in [Events -> Doc \cup {Absent}]
          /\ tracker \in [Events -> Nat \cup {-1}]
          /\ finalized \in [Events -> Content \cup {Absent}]
          /\ offered \in [Events -> SUBSET Nat]

Appends(e) == \E i \in DOMAIN docs[e].items : docs[e].items[i].op = "append"

\* A document built without appends has each of its chunks once, in sequence from
\* 0 and with no gap, whatever the order, repetition or loss of the chunks offered.
PlacedInSequence ==
  \A e \in Events : docs[e] # Absent /\ docs[e].items # <<>> /\ ~Appends(e) =>
    LET items == docs[e].items IN
    /\ items[1].seq = 0
    /\ \A i \in 2..Len(items) : items[i].seq - items[i-1].seq \in {0, 1}
    /\ items[Len(items)].seq = tracker[e]

\* The index of an event's last chunk never outlives its document: a new document
\* under the same id would wait for a chunk that is never sent again.
TrackerHasDoc == \A e \in Events : tracker[e] # -1 => docs[e] # Absent

\* A chunk that raised midway leaves what it applied, but only ever at the end of a
\* document whose root type it did not change; and it does not count as the last one
\* applied: the index moves to a chunk only when all of it is in the document.
Kept(e) == IF docs[e] = Absent THEN <<>> ELSE docs[e].items

FailureKeepsPrefix ==
  [][\A e \in Events : docs'[e] # Absent =>
       /\ docs[e] # Absent =>
            /\ docs[e].type \in {docs'[e].type, "none"}
            /\ docs'[e].named = docs[e].named
            /\ SubSeq(docs'[e].items, 1, Len(docs[e].items)) = docs[e].items
       /\ tracker'[e] # tracker[e] =>
            \E c \in Chunks : /\ c.ev = e /\ c.seq = tracker'[e]
                              /\ docs'[e].items = Kept(e) \o Items(c, c.ops)]_storeVars

\* "Handles out-of-order chunk arrivals using sequence numbers": once the chunks
\* 0..k have all been offered, in whatever order, they have all been applied.
OutOfOrderIsKept ==
  \A e \in Events : \A k \in offered[e] : 0..k \subseteq offered[e] => k <= tracker[e]
=============================================================================
