------------------------- MODULE EventEmitter_proof --------------------------
(***************************************************************************)
(* Proofs about EventStore and EventEmitter, for any events, chunks,       *)
(* subscribers and number of operations and messages.                      *)
(*                                                                         *)
(* The store on its own (StoreSpec): the invariant StoreInv adds to the    *)
(* properties what a document is like before its first operation, and that *)
(* a list holds an append: a chunk that only sets keys then applies to it  *)
(* not at all.                                                             *)
(*                                                                         *)
(* Subscribers are notified in the order messages were sent: the queue is  *)
(* in order, and whatever a subscriber has been notified of was sent       *)
(* before anything that is still in the queue (SInv).                      *)
(*                                                                         *)
(* What they are shown is what is kept: the store is changed by its own    *)
(* operations only, so its invariant holds in the emitter, and whoever     *)
(* listens to an event's chunks has been shown its document as far as it   *)
(* is built (EInv).                                                        *)
(***************************************************************************)
EXTENDS EventEmitter, SequenceTheorems, FiniteSetTheorems, TLAPS

Begun == \A e \in Events : docs[e] # Absent =>
           /\ docs[e].items = <<>> => tracker[e] = -1
           /\ docs[e].type = "none" => docs[e].items = <<>>
           /\ docs[e].type = "list" => Appends(e)

StoreInv == StoreTypeOK /\ TrackerHasDoc /\ Begun /\ PlacedInSequence

-----------------------------------------------------------------------------
(* A set of positions has a least one: of the intervals that lead to them,   *)
(* one contains no other.                                                   *)
LEMMA LeastPosition ==
  ASSUME NEW n \in Nat, NEW S \in SUBSET (1..n), S # {}
  PROVE  Min(S) \in S /\ \A i \in S : Min(S) <= i
<1> DEFINE T == {1..i : i \in S}
           R == StrictSubsetOrdering(1..n)
<1>1. IsWellFoundedOn(R, FiniteSubsetsOf(1..n)) /\ FiniteSubsetsOf(1..n) = SUBSET (1..n)
  <2>1. IsFiniteSet(1..n)
    BY FS_Interval
  <2>2. FiniteSubsetsOf(1..n) = SUBSET (1..n)
    BY <2>1, FS_FiniteSubsetsOfFinite
  <2>3. IsWellFoundedOn(R, FiniteSubsetsOf(1..n))
    BY FS_StrictSubsetOrderingWellFounded
  <2> QED
    BY <2>2, <2>3
<1>2. T \subseteq SUBSET (1..n) /\ T # {}
  <2>1. \A i \in S : 1..i \subseteq 1..n
    OBVIOUS
  <2> QED
    BY <2>1
<1>3. \E x \in T : \A y \in T : ~(<<y, x>> \in R)
  <2> HIDE DEF T, R
  <2> QED
    BY <1>1, <1>2, WFMin
<1>4. PICK m \in S : \A i \in S : ~(<<1..i, 1..m>> \in R)
  BY <1>3
<1>5. ASSUME NEW i \in S PROVE m <= i
  <2>1. SUFFICES ASSUME i < m PROVE FALSE
    OBVIOUS
  <2>2. 1..i \subseteq 1..m /\ m \in 1..m /\ m \notin 1..i
    BY <2>1
  <2>3. <<1..i, 1..m>> \in R
    BY <2>2 DEF StrictSubsetOrdering
  <2> QED
    BY <1>4, <2>3
<1> QED
  BY <1>5 DEF Min

(* The root is of the type of the first path, unless it has one.            *)
LEMMA RootTypes ==
  ASSUME StoreTypeOK, NEW c \in Chunks
  PROVE  /\ c \in Chunk /\ c.ops # <<>> /\ Len(c.ops) \in Nat \ {0} /\ Head(c.ops) = c.ops[1]
         /\ DocFor(c) \in Doc
         /\ RootType(c) \in {"list", "dict"}
<1>1. c \in Chunk /\ c.ops # <<>>
  BY ChunksAreChunks, ChunksHaveOps
<1>2. Len(c.ops) \in Nat \ {0} /\ Head(c.ops) = c.ops[1]
  BY <1>1 DEF Chunk
<1>3. DocFor(c) \in Doc
  <2>1. c.ev \in Events /\ c.named \in BOOLEAN
    BY <1>1 DEF Chunk
  <2>2. docs[c.ev] \in Doc \cup {Absent}
    BY <2>1 DEF StoreTypeOK
  <2>3. [named |-> c.named, type |-> "none", items |-> <<>>] \in Doc
    BY <2>1 DEF Doc
  <2> QED
    BY <2>2, <2>3 DEF DocFor
<1> QED
  BY <1>1, <1>2, <1>3 DEF RootType, Doc

(* What is applied of a chunk is a beginning of it: all of it in a dict, in *)
(* a list what comes before the first key.                                  *)
LEMMA AppliedOps ==
  ASSUME StoreTypeOK, NEW c \in Chunks
  PROVE  /\ Applied(c) \in Seq(Ops)
         /\ \A i \in 1..Len(Applied(c)) : Applied(c)[i] = c.ops[i]
         /\ Misfits(c) = {} => Applied(c) = c.ops
         /\ RootType(c) = "dict" => Misfits(c) = {}
         /\ RootType(c) = "list" /\ Head(c.ops) = "append" => Applied(c) # <<>>
         /\ RootType(c) = "list" /\ ~IsAppend(c) => Applied(c) = <<>>
<1>1. /\ c.ops \in Seq(Ops) /\ Len(c.ops) \in Nat \ {0} /\ DOMAIN c.ops = 1..Len(c.ops)
      /\ Head(c.ops) = c.ops[1]
  BY RootTypes DEF Chunk
<1>2. RootType(c) = "dict" => Misfits(c) = {}
  BY DEF Misfits
<1>3. CASE Misfits(c) = {}
  <2>1. Applied(c) = c.ops
    BY <1>3 DEF Applied
  <2>2. RootType(c) = "list" => \A i \in DOMAIN c.ops : c.ops[i] = "append"
    BY <1>3 DEF Misfits
  <2>3. RootType(c) = "list" => IsAppend(c)
    BY <1>1, <2>2 DEF IsAppend
  <2> QED
    BY <1>1, <1>2, <2>1, <2>3
<1>4. CASE Misfits(c) # {}
  <2> DEFINE m == Min(Misfits(c))
  <2>1. m \in Misfits(c) /\ \A i \in Misfits(c) : m <= i
    BY <1>1, <1>4, LeastPosition DEF Misfits
  <2>2. m \in 1..Len(c.ops) /\ c.ops[m] # "append"
    BY <1>1, <2>1 DEF Misfits
  <2>3. Applied(c) = SubSeq(c.ops, 1, m - 1)
    BY <1>4 DEF Applied
  <2> HIDE DEF m
  <2>4. /\ SubSeq(c.ops, 1, m - 1) \in Seq(Ops) /\ Len(SubSeq(c.ops, 1, m - 1)) = m - 1
        /\ \A i \in 1..(m - 1) : SubSeq(c.ops, 1, m - 1)[i] = c.ops[i]
    BY <1>1, <2>2
  <2>5. Head(c.ops) = "append" => m # 1
    BY <1>1, <2>2
  <2>6. ~IsAppend(c) /\ RootType(c) = "list" => m = 1
    <3>1. ~IsAppend(c) /\ RootType(c) = "list" => 1 \in Misfits(c)
      BY <1>1 DEF IsAppend, Misfits
    <3> QED
      BY <2>1, <2>2, <3>1
  <2>7. m = 1 => SubSeq(c.ops, 1, m - 1) = <<>>
    BY <2>4
  <2>8. m # 1 => SubSeq(c.ops, 1, m - 1) # <<>>
    BY <2>2, <2>4
  <2> QED
    BY <1>2, <1>4, <2>2, <2>3, <2>4, <2>5, <2>6, <2>7, <2>8
<1> QED
  BY <1>3, <1>4

-----------------------------------------------------------------------------
\* The operations of a chunk that get into its document.
Taken(c) == IF InTurn(c) THEN Applied(c) ELSE <<>>

\* Document u is d with what is taken of a chunk behind it.
Leaves(c, d, u) ==
  /\ Taken(c) \in Seq(Ops) /\ Len(Taken(c)) \in Nat
  /\ d \in Doc /\ Len(d.items) \in Nat
  /\ u \in Doc /\ u.named = d.named
  /\ u.type = IF Taken(c) = <<>> THEN d.type ELSE RootType(c)
  /\ Len(u.items) = Len(d.items) + Len(Taken(c))
  /\ \A i \in 1..Len(d.items) : u.items[i] = d.items[i]
  /\ \A i \in 1..Len(Taken(c)) : u.items[Len(d.items) + i] = [seq |-> c.seq, op |-> Taken(c)[i]]

(* The document that a chunk leaves, from the one it found.                 *)
LEMMA AddedTo ==
  ASSUME StoreTypeOK, NEW c \in Chunks, AddChunk(c),
         NEW d, d = DocFor(c), NEW e, e = c.ev
  PROVE  Leaves(c, d, docs'[e])
<1> DEFINE tagged == Items(c, Taken(c))
<1>1. c \in Chunk /\ d \in Doc /\ RootType(c) \in {"list", "dict"} /\ e \in Events
  BY RootTypes DEF Chunk
<1>2. Taken(c) \in Seq(Ops)
  BY AppliedOps DEF Taken
<1>3. docs' = [docs EXCEPT ![e] = [d EXCEPT !.type = IF Taken(c) = <<>> THEN @ ELSE RootType(c),
                                           !.items = @ \o tagged]]
  BY DEF AddChunk, Taken
<1>4. tagged \in Seq(Item) /\ Len(tagged) = Len(Taken(c)) /\ Len(Taken(c)) \in Nat
  <2>1. Len(Taken(c)) \in Nat /\ DOMAIN Taken(c) = 1..Len(Taken(c))
    BY <1>2, LenProperties
  <2>2. \A i \in 1..Len(Taken(c)) : [seq |-> c.seq, op |-> Taken(c)[i]] \in Item
    BY <1>1, <1>2 DEF Chunk, Item
  <2> QED
    BY <2>1, <2>2 DEF Items
<1>5. d.items \in Seq(Item) /\ d.type \in {"none", "list", "dict"} /\ d.named \in BOOLEAN
  BY <1>1 DEF Doc
<1>6. docs'[e] = [named |-> d.named, type |-> IF Taken(c) = <<>> THEN d.type ELSE RootType(c),
                  items |-> d.items \o tagged]
  BY <1>1, <1>3 DEF StoreTypeOK, Doc
<1>7. docs'[e] \in Doc
  <2>1. d.items \o tagged \in Seq(Item)
    BY <1>4, <1>5
  <2> QED
    BY <1>1, <1>5, <1>6, <2>1 DEF Doc
<1>8. \A i \in 1..Len(Taken(c)) : tagged[i] = [seq |-> c.seq, op |-> Taken(c)[i]]
  BY <1>2 DEF Items
<1> HIDE DEF tagged
<1>9. /\ Len(d.items \o tagged) = Len(d.items) + Len(Taken(c)) /\ Len(d.items) \in Nat
      /\ \A i \in 1..Len(d.items) : (d.items \o tagged)[i] = d.items[i]
      /\ \A i \in 1..Len(Taken(c)) : (d.items \o tagged)[Len(d.items) + i] = tagged[i]
  BY <1>4, <1>5
<1> QED
  BY <1>1, <1>2, <1>4, <1>6, <1>7, <1>8, <1>9 DEF Leaves

-----------------------------------------------------------------------------
(* A chunk that is accepted is taken whole, and what is taken of a chunk is  *)
(* in its order.                                                             *)
LEMMA TakenOps ==
  ASSUME StoreTypeOK, NEW c \in Chunks
  PROVE  /\ Accepted(c) => Taken(c) = c.ops
         /\ Accepted(c) => Taken(c) # <<>>
         /\ Taken(c) # <<>> => InTurn(c)
         /\ Taken(c) # <<>> /\ RootType(c) = "dict" => Accepted(c)
         /\ RootType(c) = "list" /\ DocFor(c).type # "list" /\ InTurn(c)
               => Taken(c) # <<>> /\ Taken(c)[1] = "append"
<1>1. c.ops # <<>> /\ Head(c.ops) = c.ops[1] /\ RootType(c) \in {"list", "dict"}
  BY RootTypes
<1>2. Misfits(c) = {} => Applied(c) = c.ops
  BY AppliedOps
<1>3. RootType(c) = "dict" => Misfits(c) = {}
  BY AppliedOps
<1>4. ASSUME RootType(c) = "list", DocFor(c).type # "list", InTurn(c)
      PROVE  Taken(c) # <<>> /\ Taken(c)[1] = "append"
  <2>1. Head(c.ops) = "append"
    BY <1>1, <1>4 DEF RootType
  <2>2. Applied(c) # <<>> /\ Applied(c) \in Seq(Ops)
    BY <1>4, <2>1, AppliedOps
  <2>3. 1 \in 1..Len(Applied(c))
    BY <2>2
  <2>4. Applied(c)[1] = c.ops[1]
    BY <2>3, AppliedOps
  <2> QED
    BY <1>1, <1>4, <2>1, <2>2, <2>4 DEF Taken
<1> QED
  BY <1>1, <1>2, <1>3, <1>4 DEF Taken, Accepted

(* A chunk leaves a document of a list with an append, and one without       *)
(* operations without an index.                                              *)
LEMMA ChunkBegins ==
  ASSUME StoreInv, NEW c \in Chunks, AddChunk(c), NEW e, e = c.ev
  PROVE  /\ docs'[e].items = <<>> => tracker'[e] = -1
         /\ docs'[e].type = "none" => docs'[e].items = <<>>
         /\ docs'[e].type = "list" => Appends(e)'
<1> DEFINE d == DocFor(c)
<1>0. StoreTypeOK /\ e \in Events /\ c \in Chunk
  BY RootTypes DEF StoreInv, Chunk
<1>1. /\ Taken(c) \in Seq(Ops) /\ Len(Taken(c)) \in Nat
      /\ d \in Doc /\ Len(d.items) \in Nat
      /\ docs'[e] \in Doc /\ docs'[e].named = d.named
      /\ docs'[e].type = IF Taken(c) = <<>> THEN d.type ELSE RootType(c)
      /\ Len(docs'[e].items) = Len(d.items) + Len(Taken(c))
      /\ \A i \in 1..Len(d.items) : docs'[e].items[i] = d.items[i]
      /\ \A i \in 1..Len(Taken(c)) :
           docs'[e].items[Len(d.items) + i] = [seq |-> c.seq, op |-> Taken(c)[i]]
  BY <1>0, AddedTo DEF Leaves
<1>2. tracker'[e] = IF Accepted(c) THEN c.seq ELSE tracker[e]
  BY <1>0 DEF AddChunk, StoreTypeOK
<1>3. d = IF docs[e] = Absent THEN [named |-> c.named, type |-> "none", items |-> <<>>] ELSE docs[e]
  BY DEF DocFor
<1> HIDE DEF d
<1>4. d.items = <<>> => tracker[e] = -1
  BY <1>0, <1>3 DEF StoreInv, TrackerHasDoc, Begun
<1>5. ASSUME docs'[e].items = <<>> PROVE tracker'[e] = -1
  <2>1. Len(docs'[e].items) = 0
    BY <1>5
  <2>2. Len(d.items) = 0 /\ Len(Taken(c)) = 0
    BY <1>1, <2>1
  <2>3. d.items = <<>> /\ Taken(c) = <<>>
    BY <1>1, <2>2 DEF Doc
  <2> QED
    BY <1>0, <1>2, <1>4, <2>3, TakenOps
<1>6. DOMAIN docs'[e].items = 1..Len(docs'[e].items)
  BY <1>1 DEF Doc
<1>7. ASSUME d.type = "list" PROVE Appends(e)'
  <2>1. docs[e] # Absent /\ d = docs[e] /\ Appends(e)
    BY <1>0, <1>3, <1>7 DEF StoreInv, Begun
  <2>2. PICK i \in DOMAIN d.items : d.items[i].op = "append"
    BY <2>1 DEF Appends
  <2>3. i \in 1..Len(d.items)
    BY <1>1 DEF Doc
  <2>4. i \in DOMAIN docs'[e].items /\ docs'[e].items[i].op = "append"
    BY <1>1, <1>6, <2>2, <2>3
  <2> QED
    BY <2>4 DEF Appends
<1>8. ASSUME Taken(c) # <<>>, RootType(c) = "list", d.type # "list" PROVE Appends(e)'
  <2>1. Taken(c)[1] = "append"
    BY <1>0, <1>8, TakenOps DEF d
  <2>2. 1 \in 1..Len(Taken(c))
    BY <1>1, <1>8
  <2>3. docs'[e].items[Len(d.items) + 1].op = "append"
    <3>1. docs'[e].items[Len(d.items) + 1] = [seq |-> c.seq, op |-> Taken(c)[1]]
      BY <1>1, <2>2
    <3> QED
      BY <2>1, <3>1
  <2>4. Len(d.items) + 1 \in DOMAIN docs'[e].items
    BY <1>1, <1>6, <2>2
  <2> QED
    BY <2>3, <2>4 DEF Appends
<1>9. ASSUME docs'[e].type = "none" PROVE docs'[e].items = <<>>
  <2>1. Taken(c) = <<>> /\ d.type = "none"
    BY <1>0, <1>1, <1>9, RootTypes
  <2>2. d.items = <<>>
    BY <1>0, <1>3, <2>1 DEF StoreInv, Begun
  <2>3. Len(docs'[e].items) = 0
    BY <1>1, <2>1, <2>2
  <2> QED
    BY <1>1, <2>3 DEF Doc
<1> QED
  BY <1>1, <1>5, <1>7, <1>8, <1>9

(* A chunk keeps the sequence of a document without appends.                *)
LEMMA ChunkInSequence ==
  ASSUME StoreInv, NEW c \in Chunks, AddChunk(c), NEW e, e = c.ev,
         docs'[e].items # <<>>, ~Appends(e)'
  PROVE  LET items == docs'[e].items IN
         /\ items[1].seq = 0
         /\ \A i \in 2..Len(items) : items[i].seq - items[i-1].seq \in {0, 1}
         /\ items[Len(items)].seq = tracker'[e]
<1> DEFINE d == DocFor(c)
           items == docs'[e].items
           n == Len(d.items)
<1>0. StoreTypeOK /\ e \in Events /\ c \in Chunk /\ c.seq \in Nat
  BY RootTypes DEF StoreInv, Chunk
<1>1. /\ Taken(c) \in Seq(Ops) /\ Len(Taken(c)) \in Nat
      /\ d \in Doc /\ n \in Nat
      /\ docs'[e] \in Doc
      /\ docs'[e].type = IF Taken(c) = <<>> THEN d.type ELSE RootType(c)
      /\ Len(items) = n + Len(Taken(c))
      /\ \A i \in 1..n : items[i] = d.items[i]
      /\ \A i \in 1..Len(Taken(c)) : items[n + i] = [seq |-> c.seq, op |-> Taken(c)[i]]
  BY <1>0, AddedTo DEF Leaves
<1>2. tracker'[e] = IF Accepted(c) THEN c.seq ELSE tracker[e]
  BY <1>0 DEF AddChunk, StoreTypeOK
<1>3. d = IF docs[e] = Absent THEN [named |-> c.named, type |-> "none", items |-> <<>>] ELSE docs[e]
  BY DEF DocFor
<1>4. DOMAIN items = 1..Len(items)
  BY <1>1 DEF Doc
<1>5. d.items \in Seq(Item) /\ d.items = <<>> => tracker[e] = -1
  BY <1>0, <1>1, <1>3 DEF StoreInv, TrackerHasDoc, Begun, Doc
<1>6. ASSUME d.items # <<>>
      PROVE  /\ d.items[1].seq = 0
             /\ \A i \in 2..n : d.items[i].seq - d.items[i-1].seq \in {0, 1}
             /\ d.items[n].seq = tracker[e]
  <2>1. docs[e] # Absent /\ d = docs[e]
    BY <1>3, <1>6
  <2>2. ~Appends(e)
    <3>1. SUFFICES ASSUME NEW i \in DOMAIN d.items, d.items[i].op = "append" PROVE FALSE
      BY <2>1 DEF Appends
    <3>2. i \in 1..n
      BY <1>1 DEF Doc
    <3>3. i \in DOMAIN items /\ items[i].op = "append"
      BY <1>1, <1>4, <3>1, <3>2
    <3> QED
      BY <3>3 DEF Appends
  <2> QED
    BY <1>0, <1>6, <2>1, <2>2 DEF StoreInv, PlacedInSequence
<1> HIDE DEF d, items, n
<1>7. CASE Taken(c) = <<>>
  <2>1. ~Accepted(c) /\ tracker'[e] = tracker[e]
    BY <1>0, <1>2, <1>7, TakenOps
  <2>2. Len(items) = n /\ n # 0
    <3>1. Len(Taken(c)) = 0
      BY <1>7
    <3>2. Len(items) = n
      BY <1>1, <3>1
    <3> QED
      BY <1>1, <3>2 DEF Doc, items
  <2>3. d.items # <<>>
    BY <1>1, <2>2 DEF n
  <2>4. /\ items[1] = d.items[1] /\ items[n] = d.items[n]
        /\ \A i \in 2..n : items[i] = d.items[i] /\ items[i-1] = d.items[i-1]
    BY <1>1, <2>2
  <2> QED
    BY <1>6, <2>1, <2>2, <2>3, <2>4 DEF items
<1>8. CASE Taken(c) # <<>>
  <2>1. RootType(c) = "dict"
    <3>1. RootType(c) = "list" => docs'[e].type = "list"
      BY <1>1, <1>8
    <3> QED
      BY <1>0, <3>1, ChunkBegins, RootTypes DEF d
  <2>2. InTurn(c) /\ Accepted(c) /\ Taken(c) = c.ops
    BY <1>0, <1>8, <2>1, TakenOps
  <2>3. Len(Taken(c)) \in Nat \ {0}
    BY <1>1, <1>8
  <2>4. ~IsAppend(c)
    <3>1. SUFFICES ASSUME NEW i \in DOMAIN c.ops, c.ops[i] = "append" PROVE FALSE
      BY DEF IsAppend
    <3>2. i \in 1..Len(Taken(c))
      BY <1>1, <2>2
    <3>3. items[n + i] = [seq |-> c.seq, op |-> Taken(c)[i]] /\ n + i \in 1..Len(items)
      BY <1>1, <3>2
    <3>4. items[n + i].op = "append"
      BY <2>2, <3>1, <3>3
    <3> QED
      BY <1>4, <3>3, <3>4 DEF Appends, items
  <2>5. c.seq = tracker[e] + 1 /\ tracker'[e] = c.seq
    BY <1>2, <2>2, <2>4 DEF InTurn
  <2>6. \A i \in (n + 1)..Len(items) : items[i].seq = c.seq
    <3>1. ASSUME NEW i \in (n + 1)..Len(items) PROVE items[i].seq = c.seq
      <4>1. i - n \in 1..Len(Taken(c)) /\ n + (i - n) = i
        BY <1>1, <2>3
      <4>2. items[i] = [seq |-> c.seq, op |-> Taken(c)[i - n]]
        BY <1>1, <4>1
      <4> QED
        BY <4>2
    <3> QED
      BY <3>1
  <2>7. Len(items) \in Nat /\ Len(items) >= n + 1
    BY <1>1, <2>3
  <2>8. CASE d.items = <<>>
    <3>1. n = 0 /\ c.seq = 0
      BY <1>5, <2>5, <2>8 DEF n
    <3> QED
      BY <2>5, <2>6, <2>7, <3>1 DEF items
  <2>9. CASE d.items # <<>>
    <3>1. n \in Nat \ {0}
      BY <1>1, <1>5, <2>9 DEF n
    <3>2. \A i \in 1..n : items[i].seq = d.items[i].seq
      BY <1>1
    <3>3. items[1].seq = 0 /\ items[n].seq = tracker[e]
      BY <1>6, <2>9, <3>1, <3>2
    <3>4. ASSUME NEW i \in 2..Len(items) PROVE items[i].seq - items[i-1].seq \in {0, 1}
      <4>1. CASE i <= n
        <5>1. i \in 2..n /\ i \in 1..n /\ i - 1 \in 1..n
          BY <3>1, <4>1
        <5> QED
          BY <1>6, <2>9, <3>2, <5>1
      <4>2. CASE i = n + 1
        <5>1. items[i].seq = c.seq /\ items[i-1].seq = tracker[e]
          BY <1>1, <2>6, <2>7, <3>3, <4>2
        <5> QED
          BY <1>0, <2>5, <5>1 DEF StoreTypeOK
      <4>3. CASE i > n + 1
        <5>1. i \in (n + 1)..Len(items) /\ i - 1 \in (n + 1)..Len(items)
          BY <1>1, <2>7, <4>3
        <5> QED
          BY <1>0, <2>6, <5>1
      <4> QED
        BY <1>1, <4>1, <4>2, <4>3
    <3>5. items[Len(items)].seq = tracker'[e]
      BY <1>1, <2>5, <2>6, <2>7
    <3> QED
      BY <3>3, <3>4, <3>5 DEF items
  <2> QED
    BY <2>8, <2>9
<1> QED
  BY <1>7, <1>8

-----------------------------------------------------------------------------
LEMMA StoreInitially ==
  ASSUME StoreInit
  PROVE  StoreInv
BY DEF StoreInit, StoreInv, StoreTypeOK, TrackerHasDoc, Begun, PlacedInSequence

LEMMA ChunkKeeps ==
  ASSUME StoreInv, NEW c \in Chunks, AddChunk(c)
  PROVE  StoreInv'
<1> DEFINE e == c.ev
<1>1. StoreTypeOK /\ c \in Chunk /\ e \in Events /\ c.seq \in Nat
  BY RootTypes DEF StoreInv, Chunk
<1>2. docs'[e] \in Doc /\ docs'[e] # Absent
  BY <1>1, AddedTo, AbsentFresh DEF Leaves
<1>3. \A q \in Events \ {e} : docs'[q] = docs[q] /\ tracker'[q] = tracker[q]
  BY <1>1 DEF AddChunk, StoreTypeOK
<1>4. StoreTypeOK'
  <2>1. docs' = [docs EXCEPT ![e] = docs'[e]]
    BY <1>1 DEF AddChunk, StoreTypeOK
  <2>2. docs' \in [Events -> Doc \cup {Absent}]
    BY <1>1, <1>2, <2>1 DEF StoreTypeOK
  <2>3. tracker' \in [Events -> Nat \cup {-1}]
    BY <1>1 DEF AddChunk, StoreTypeOK
  <2>4. offered' \in [Events -> SUBSET Nat] /\ finalized' = finalized
    BY <1>1 DEF AddChunk, StoreTypeOK
  <2> QED
    BY <1>1, <2>2, <2>3, <2>4 DEF StoreTypeOK
<1>5. TrackerHasDoc'
  BY <1>2, <1>3 DEF StoreInv, TrackerHasDoc
<1>6. Begun'
  <2>1. ASSUME NEW q \in Events, docs'[q] # Absent
        PROVE  /\ docs'[q].items = <<>> => tracker'[q] = -1
               /\ docs'[q].type = "none" => docs'[q].items = <<>>
               /\ docs'[q].type = "list" => Appends(q)'
    <3>1. CASE q = e
      BY <1>1, <3>1, ChunkBegins
    <3>2. CASE q # e
      BY <1>3, <2>1, <3>2 DEF StoreInv, Begun, Appends
    <3> QED
      BY <3>1, <3>2
  <2> QED
    BY <2>1 DEF Begun
<1>7. PlacedInSequence'
  <2> SUFFICES ASSUME NEW q \in Events,
                      docs'[q] # Absent, docs'[q].items # <<>>, ~Appends(q)'
               PROVE  LET items == docs'[q].items IN
                      /\ items[1].seq = 0
                      /\ \A i \in 2..Len(items) : items[i].seq - items[i-1].seq \in {0, 1}
                      /\ items[Len(items)].seq = tracker'[q]
    BY DEF PlacedInSequence
  <2>1. CASE q = e
    BY <2>1, ChunkInSequence
  <2>2. CASE q # e
    BY <1>3, <2>2 DEF StoreInv, PlacedInSequence, Appends
  <2> QED
    BY <2>1, <2>2
<1> QED
  BY <1>4, <1>5, <1>6, <1>7 DEF StoreInv

(* Finalizing an event and leaving the store drop documents with their index. *)
LEMMA DropsKeep ==
  ASSUME StoreInv, \/ \E e \in Events : Finalize(e)
               \/ Exit
  PROVE  StoreInv'
<1>1. \A q \in Events : \/ docs'[q] = docs[q] /\ tracker'[q] = tracker[q]
                        \/ docs'[q] = Absent /\ tracker'[q] = -1
  BY DEF Finalize, Exit, StoreInv, StoreTypeOK
<1>2. StoreTypeOK'
  <2>1. CASE Exit
    BY <2>1 DEF Exit, StoreInv, StoreTypeOK
  <2>2. CASE \E e \in Events : Finalize(e)
    <3>1. PICK e \in Events : Finalize(e)
      BY <2>2
    <3>2. Finalizes(e) => FinalContent(e) \in Content
      <4>1. ASSUME Finalizes(e)
            PROVE  docs[e] \in Doc /\ docs[e].items # <<>>
        BY <4>1 DEF Finalizes, StoreInv, StoreTypeOK
      <4>2. ASSUME Finalizes(e)
            PROVE  docs[e].type \in {"list", "dict"} /\ docs[e].items \in Seq(Item)
        BY <4>1, <4>2, AbsentFresh DEF Doc, StoreInv, Begun
      <4> QED
        BY <4>2 DEF FinalContent, Content
    <3> QED
      BY <3>1, <3>2 DEF Finalize, StoreInv, StoreTypeOK
  <2> QED
    BY <2>1, <2>2
<1>3. TrackerHasDoc'
  BY <1>1 DEF StoreInv, TrackerHasDoc
<1>4. Begun'
  BY <1>1 DEF StoreInv, Begun, Appends
<1>5. PlacedInSequence'
  <2> SUFFICES ASSUME NEW q \in Events,
                      docs'[q] # Absent, docs'[q].items # <<>>, ~Appends(q)'
               PROVE  LET items == docs'[q].items IN
                      /\ items[1].seq = 0
                      /\ \A i \in 2..Len(items) : items[i].seq - items[i-1].seq \in {0, 1}
                      /\ items[Len(items)].seq = tracker'[q]
    BY DEF PlacedInSequence
  <2>1. docs'[q] = docs[q] /\ tracker'[q] = tracker[q]
    BY <1>1
  <2> QED
    BY <2>1 DEF StoreInv, PlacedInSequence, Appends
<1> QED
  BY <1>2, <1>3, <1>4, <1>5 DEF StoreInv

LEMMA StoreInductive ==
  ASSUME StoreInv, [StoreNext]_storeVars
  PROVE  StoreInv'
<1>1. CASE \E c \in Chunks : HasRoom(c) /\ AddChunk(c)
  BY <1>1, ChunkKeeps
<1>2. CASE (\E e \in Events : Finalize(e)) \/ Exit
  BY <1>2, DropsKeep
<1>3. CASE UNCHANGED storeVars
  BY <1>3 DEF storeVars, StoreInv, StoreTypeOK, TrackerHasDoc, Begun, PlacedInSequence, Appends
<1> QED
  BY <1>1, <1>2, <1>3 DEF StoreNext

(* The operations of a chunk, as they are kept.                             *)
LEMMA ItemsType ==
  ASSUME NEW c \in Chunks
  PROVE  LET u == Items(c, c.ops) IN
         /\ u \in Seq(Item) /\ Len(u) = Len(c.ops) /\ Len(c.ops) \in Nat
         /\ \A k \in 1..Len(c.ops) : u[k] = [seq |-> c.seq, op |-> c.ops[k]]
<1>1. c \in Chunk
  BY ChunksAreChunks
<1>2. c.seq \in Nat /\ c.ops \in Seq(Ops)
  BY <1>1 DEF Chunk
<1>3. DOMAIN c.ops = 1..Len(c.ops) /\ Len(c.ops) \in Nat
  BY <1>2, LenProperties
<1>4. \A k \in 1..Len(c.ops) : [seq |-> c.seq, op |-> c.ops[k]] \in Item
  BY <1>2, <1>3 DEF Item
<1> QED
  BY <1>3, <1>4 DEF Items

(* A document grows by all of a chunk that is accepted.                     *)
LEMMA DocumentGrows ==
  ASSUME StoreInv, NEW c \in Chunks, AddChunk(c)
  PROVE  /\ Accepted(c) => Kept(c.ev)' = Kept(c.ev) \o Items(c, c.ops)
         /\ Taken(c) = <<>> => Kept(c.ev)' = Kept(c.ev)
<1> DEFINE e == c.ev
           d == DocFor(c)
           t == Taken(c)
<1>1. StoreTypeOK /\ AddChunk(c)
  BY DEF StoreInv
<1>2. d.items = Kept(e)
  BY DEF DocFor, Kept
<1>3. /\ Len(t) \in Nat /\ d \in Doc /\ Len(d.items) \in Nat /\ docs'[e] \in Doc
      /\ Len(docs'[e].items) = Len(d.items) + Len(t)
      /\ \A i \in 1..Len(d.items) : docs'[e].items[i] = d.items[i]
      /\ \A i \in 1..Len(t) : docs'[e].items[Len(d.items) + i] = [seq |-> c.seq, op |-> t[i]]
  <2>1. Leaves(c, d, docs'[e])
    BY <1>1, AddedTo
  <2> QED
    BY <2>1 DEF Leaves
<1>4. Accepted(c) => t = c.ops
  BY <1>1, TakenOps
<1>5. Kept(e)' = docs'[e].items
  BY <1>3, AbsentFresh DEF Kept
<1>6. docs'[e].items \in Seq(Item) /\ d.items \in Seq(Item)
  BY <1>3 DEF Doc
<1> HIDE DEF d, t, e
<1>0. Accepted(c) => Taken(c) # <<>>
  BY <1>1, TakenOps
<1>7. CASE Accepted(c)
  <2>1. t = c.ops
    BY <1>4, <1>7
  <2>2. /\ Items(c, c.ops) \in Seq(Item) /\ Len(Items(c, c.ops)) = Len(t)
        /\ \A k \in 1..Len(t) : Items(c, c.ops)[k] = [seq |-> c.seq, op |-> t[k]]
    BY <2>1, ItemsType
  <2> DEFINE u == Items(c, c.ops)
             x == d.items
             z == docs'[e].items
  <2>3. /\ x \o u \in Seq(Item) /\ Len(x \o u) = Len(x) + Len(u)
        /\ \A i \in 1..Len(x) : (x \o u)[i] = x[i]
        /\ \A i \in 1..Len(u) : (x \o u)[Len(x) + i] = u[i]
    <3> HIDE DEF u, x, z
    <3>1. x \in Seq(Item) /\ u \in Seq(Item)
      BY <1>6, <2>2 DEF x, u
    <3> QED
      BY <3>1
  <2>4. z = x \o u
    <3>1. /\ z \in Seq(Item) /\ Len(z) = Len(x) + Len(t) /\ Len(u) = Len(t)
          /\ Len(x) \in Nat /\ Len(t) \in Nat
          /\ \A i \in 1..Len(x) : z[i] = x[i]
          /\ \A i \in 1..Len(t) : z[Len(x) + i] = u[i]
      BY <1>3, <1>6, <2>2
    <3> HIDE DEF u, x, z
    <3>2. PICK a \in Nat, b \in Nat : a = Len(x) /\ b = Len(t)
      BY <3>1
    <3>3. \A i \in 1..(a + b) : z[i] = (x \o u)[i]
      <4> TAKE i \in 1..(a + b)
      <4>1. CASE i \in 1..a
        BY <2>3, <3>1, <3>2, <4>1
      <4>2. CASE i \notin 1..a
        <5>1. i - a \in 1..b /\ a + (i - a) = i
          BY <4>2
        <5> QED
          BY <2>3, <3>1, <3>2, <5>1
      <4> QED
        BY <4>1, <4>2
    <3> QED
      BY <2>3, <3>1, <3>2, <3>3, SeqEqual
  <2> QED
    BY <1>0, <1>2, <1>5, <1>7, <2>4 DEF e
<1>8. CASE Taken(c) = <<>>
  <2>1. t = <<>> /\ Len(t) = 0
    BY <1>8 DEF t
  <2>2. Len(docs'[e].items) = Len(d.items)
    BY <1>3, <2>1
  <2>3. docs'[e].items = d.items
    BY <1>3, <1>6, <2>2, SeqEqual
  <2> QED
    BY <1>0, <1>2, <1>5, <1>8, <2>3 DEF e
<1> QED
  BY <1>7, <1>8

(* A chunk only ever adds to a document, and leaves its root's type.        *)
LEMMA ChunkAdds ==
  ASSUME StoreTypeOK, NEW c \in Chunks, AddChunk(c), NEW e, e = c.ev, docs[e] # Absent
  PROVE  /\ docs[e].type \in {docs'[e].type, "none"}
         /\ docs'[e].named = docs[e].named
         /\ SubSeq(docs'[e].items, 1, Len(docs[e].items)) = docs[e].items
<1> DEFINE d == docs[e]
           n == Len(d.items)
<1>1. DocFor(c) = d
  BY DEF DocFor
<1>2. /\ d \in Doc /\ n \in Nat /\ Len(Taken(c)) \in Nat
      /\ docs'[e] \in Doc /\ docs'[e].named = d.named
      /\ docs'[e].type = IF Taken(c) = <<>> THEN d.type ELSE RootType(c)
      /\ Len(docs'[e].items) = n + Len(Taken(c))
      /\ \A i \in 1..n : docs'[e].items[i] = d.items[i]
  <2> DEFINE f == DocFor(c)
  <2>1. /\ f \in Doc /\ Len(f.items) \in Nat /\ Len(Taken(c)) \in Nat
        /\ docs'[e] \in Doc /\ docs'[e].named = f.named
        /\ docs'[e].type = IF Taken(c) = <<>> THEN f.type ELSE RootType(c)
        /\ Len(docs'[e].items) = Len(f.items) + Len(Taken(c))
        /\ \A i \in 1..Len(f.items) : docs'[e].items[i] = f.items[i]
    BY AddedTo DEF Leaves
  <2>2. f = d
    BY <1>1
  <2> HIDE DEF f, d
  <2> QED
    BY <2>1, <2>2 DEF n
<1>3. d.type # "none" => RootType(c) = d.type
  BY <1>1 DEF RootType
<1>4. SubSeq(docs'[e].items, 1, n) = d.items
  <2>1. docs'[e].items \in Seq(Item) /\ d.items \in Seq(Item)
    BY <1>2 DEF Doc
  <2> DEFINE items == docs'[e].items
  <2>2. \A i \in 1..n : items[i] \in Item
    BY <1>2, <2>1
  <2> HIDE DEF n, d, items
  <2>3. SubSeq(items, 1, n) \in Seq(Item) /\ Len(SubSeq(items, 1, n)) = n
        /\ \A i \in 1..n : SubSeq(items, 1, n)[i] = items[i]
    <3>1. n \in Nat
      BY <1>2
    <3>2. /\ SubSeq(items, 1, n) \in Seq(Item)
          /\ Len(SubSeq(items, 1, n)) = IF 1 <= n THEN n - 1 + 1 ELSE 0
          /\ \A i \in 1..(n - 1 + 1) : SubSeq(items, 1, n)[i] = items[1 + i - 1]
      BY <2>2, <3>1, SubSeqProperties
    <3> QED
      BY <3>1, <3>2
  <2>4. \A i \in 1..n : SubSeq(items, 1, n)[i] = d.items[i]
    BY <1>2, <2>3 DEF items
  <2>5. SubSeq(items, 1, n) = d.items
    BY <2>1, <2>3, <2>4, SeqEqual DEF n
  <2> QED
    BY <2>5 DEF items
<1> QED
  BY <1>2, <1>3, <1>4

\* What FailureKeepsPrefix says of one event.
Grown(e) ==
  /\ docs[e] # Absent =>
       /\ docs[e].type \in {docs'[e].type, "none"}
       /\ docs'[e].named = docs[e].named
       /\ SubSeq(docs'[e].items, 1, Len(docs[e].items)) = docs[e].items
  /\ tracker'[e] # tracker[e] =>
       \E c \in Chunks : /\ c.ev = e /\ c.seq = tracker'[e]
                         /\ docs'[e].items = Kept(e) \o Items(c, c.ops)

LEMMA Adds ==
  ASSUME StoreInv, [StoreNext]_storeVars, NEW e \in Events, docs'[e] # Absent
  PROVE  Grown(e)
<1>1. StoreTypeOK /\ docs[e] \in Doc \cup {Absent}
  BY DEF StoreInv, StoreTypeOK
<1>2. ASSUME docs'[e] = docs[e], tracker'[e] = tracker[e]
      PROVE  Grown(e)
  <2>1. docs[e].items \in Seq(Item)
    BY <1>1, <1>2 DEF Doc
  <2>2. SubSeq(docs[e].items, 1, Len(docs[e].items)) = docs[e].items
    BY <2>1, SubSeqFull
  <2> QED
    BY <1>2, <2>2 DEF Grown
<1>3. ASSUME NEW c \in Chunks, AddChunk(c), c.ev = e
      PROVE  Grown(e)
  <2>1. docs[e] # Absent =>
          /\ docs[e].type \in {docs'[e].type, "none"}
          /\ docs'[e].named = docs[e].named
          /\ SubSeq(docs'[e].items, 1, Len(docs[e].items)) = docs[e].items
    BY <1>1, <1>3, ChunkAdds
  <2>2. ASSUME tracker'[e] # tracker[e]
        PROVE  c.seq = tracker'[e] /\ docs'[e].items = Kept(e) \o Items(c, c.ops)
    <3>1. Accepted(c) /\ tracker'[e] = c.seq
      BY <1>1, <1>3, <2>2 DEF AddChunk, StoreTypeOK
    <3>2. Kept(e)' = Kept(e) \o Items(c, c.ops)
      BY <1>3, <3>1, DocumentGrows
    <3> QED
      BY <3>1, <3>2 DEF Kept
  <2> QED
    BY <1>3, <2>1, <2>2 DEF Grown
<1>4. CASE \E c \in Chunks : AddChunk(c)
  <2>1. PICK c \in Chunks : AddChunk(c)
    BY <1>4
  <2>2. c.ev # e => docs'[e] = docs[e] /\ tracker'[e] = tracker[e]
    BY <1>1, <2>1, RootTypes DEF AddChunk, StoreTypeOK, Chunk
  <2> QED
    BY <1>2, <1>3, <2>1, <2>2
<1>5. CASE \E f \in Events : Finalize(f)
  BY <1>1, <1>2, <1>5 DEF Finalize, StoreTypeOK
<1>6. CASE Exit \/ UNCHANGED storeVars
  BY <1>2, <1>6 DEF Exit, storeVars
<1> QED
  BY <1>4, <1>5, <1>6 DEF StoreNext

-----------------------------------------------------------------------------
LEMMA StoreInvariance == StoreSpec => []StoreInv
<1>1. StoreInit => StoreInv
  BY StoreInitially
<1>2. StoreInv /\ [StoreNext]_storeVars => StoreInv'
  BY StoreInductive
<1> QED
  BY <1>1, <1>2, PTL DEF StoreSpec

(* What MemoryEventStore holds is well typed; a finalized event has a root. *)
THEOREM StoreTypes == StoreSpec => []StoreTypeOK
<1>1. StoreInv => StoreTypeOK
  BY DEF StoreInv
<1> QED
  BY <1>1, StoreInvariance, PTL

(* add_chunk: however its chunks come, a document without appends holds     *)
(* chunks from 0 on, in sequence, without a gap and none twice.             *)
THEOREM InSequence == StoreSpec => []PlacedInSequence
<1>1. StoreInv => PlacedInSequence
  BY DEF StoreInv
<1> QED
  BY <1>1, StoreInvariance, PTL

(* finalize_event: no index of a last chunk outlives its document.          *)
THEOREM IndexHasDoc == StoreSpec => []TrackerHasDoc
<1>1. StoreInv => TrackerHasDoc
  BY DEF StoreInv
<1> QED
  BY <1>1, StoreInvariance, PTL

(* add_chunk: whatever raises midway, a document only ever grows at its end *)
(* and keeps the type of its root, and the index of its last chunk moves    *)
(* only with all of a chunk.                                                *)
THEOREM OnlyGrows == StoreSpec => FailureKeepsPrefix
<1>1. StoreInv /\ [StoreNext]_storeVars =>
        \A e \in Events : docs'[e] # Absent =>
          /\ docs[e] # Absent =>
               /\ docs[e].type \in {docs'[e].type, "none"}
               /\ docs'[e].named = docs[e].named
               /\ SubSeq(docs'[e].items, 1, Len(docs[e].items)) = docs[e].items
          /\ tracker'[e] # tracker[e] =>
               \E c \in Chunks : /\ c.ev = e /\ c.seq = tracker'[e]
                                 /\ docs'[e].items = Kept(e) \o Items(c, c.ops)
  BY Adds DEF Grown
<1> QED
  BY <1>1, StoreInvariance, PTL DEF StoreSpec, FailureKeepsPrefix

-----------------------------------------------------------------------------
Msg == ChunkMsg \cup StatusMsg

\* Of what is notified only its number matters.
Types0 == /\ sent \in 0..MaxSent
          /\ queue \in Seq(Msg)
          /\ DOMAIN inbox = Subs
          /\ \A s \in Subs : \E S : inbox[s] \in Seq(S)

QueueInOrder == /\ \A i, j \in 1..Len(queue) : i < j => queue[i].n < queue[j].n
                /\ \A i \in 1..Len(queue) : queue[i].n <= sent

Numbered == \A s \in Subs : \A i \in 1..Len(inbox[s]) :
              /\ inbox[s][i].n \in 1..sent
              /\ \A j \in 1..Len(queue) : inbox[s][i].n < queue[j].n

Ordered(q) == \A i, j \in 1..Len(q) : i < j => q[i].n < q[j].n

SInv == Types0 /\ QueueInOrder /\ Numbered /\ \A s \in Subs : Ordered(inbox[s])

LEMMA Numbers == \A m \in Msg : m.n \in Nat \ {0}
<1> TAKE m \in Msg
<1>1. 1..MaxSent \subseteq Nat \ {0}
  BY MaxSentNat
<1>2. m.n \in 1..MaxSent
  BY DEF Msg, ChunkMsg, StatusMsg
<1> QED
  BY <1>1, <1>2

LEMMA ChunkEvents == \A c \in Chunks : c.ev \in Events
BY ChunksAreChunks DEF Chunk

LEMMA Initially ==
  ASSUME Init
  PROVE  SInv
<1>1. inbox = [s \in Subs |-> <<>>] /\ queue = <<>> /\ sent = 0
  BY DEF Init
<1>2. \A s \in Subs : inbox[s] = <<>> /\ inbox[s] \in Seq({})
  BY <1>1
<1>3. Len(queue) = 0 /\ \A s \in Subs : Len(inbox[s]) = 0
  BY <1>1, <1>2
<1>4. Types0
  BY <1>1, <1>2, MaxSentNat DEF Types0
<1> QED
  BY <1>3, <1>4 DEF SInv, QueueInOrder, Numbered, Ordered

(* A message is put behind all others, with a number above theirs.          *)
LEMMA PutKeeps ==
  ASSUME SInv, NEW m \in Msg, m.n = sent + 1, Put(m)
  PROVE  SInv'
<1>1. /\ sent \in Nat /\ sent < MaxSent /\ sent' = sent + 1
      /\ queue' = Append(queue, m) /\ UNCHANGED inbox
  BY DEF Put, told, SInv, Types0
<1>2. PICK k \in Nat : k = Len(queue)
  BY LenProperties DEF SInv, Types0
<1>3. /\ queue' \in Seq(Msg) /\ Len(queue') = k + 1 /\ queue'[k + 1] = m
      /\ \A i \in 1..k : queue'[i] = queue[i]
  BY <1>1, <1>2, AppendProperties DEF SInv, Types0
<1>4. \A i \in 1..k : queue[i] \in Msg /\ queue[i].n \in Nat /\ queue[i].n <= sent
  BY <1>2, Numbers, ElementOfSeq DEF SInv, Types0, QueueInOrder
<1>5. \A i \in 1..(k + 1) : i \in 1..k \/ i = k + 1
  OBVIOUS
<1>6. Types0'
  BY <1>1, <1>3, MaxSentNat DEF SInv, Types0
<1>7. QueueInOrder'
  <2>1. \A i \in 1..(k + 1) : queue'[i].n <= sent + 1
    BY <1>1, <1>3, <1>4, <1>5
  <2>2. ASSUME NEW i \in 1..(k + 1), NEW j \in 1..(k + 1), i < j
        PROVE  queue'[i].n < queue'[j].n
    <3>1. i \in 1..k
      BY <2>2
    <3>2. CASE j \in 1..k
      BY <1>2, <1>3, <2>2, <3>1, <3>2 DEF SInv, QueueInOrder
    <3>3. CASE j = k + 1
      BY <1>1, <1>3, <1>4, <3>1, <3>3
    <3> QED
      BY <1>5, <3>2, <3>3
  <2> QED
    BY <1>1, <1>3, <2>1, <2>2 DEF QueueInOrder
<1>8. Numbered'
  <2>1. ASSUME NEW s \in Subs, NEW i \in 1..Len(inbox[s])
        PROVE  /\ inbox[s][i].n \in 1..(sent + 1)
               /\ \A j \in 1..(k + 1) : inbox[s][i].n < queue'[j].n
    <3>1. inbox[s][i].n \in 1..sent /\ \A j \in 1..k : inbox[s][i].n < queue[j].n
      BY <1>2 DEF SInv, Numbered
    <3> QED
      BY <1>1, <1>3, <1>5, <3>1
  <2> QED
    BY <1>1, <1>3, <2>1 DEF Numbered
<1>9. \A s \in Subs : Ordered(inbox'[s])
  BY <1>1 DEF SInv
<1> QED
  BY <1>6, <1>7, <1>8, <1>9 DEF SInv

(* The first message is taken; its subscribers are notified of it or not.   *)
LEMMA TakeKeeps ==
  ASSUME SInv, queue # <<>>, queue' = Tail(queue), sent' = sent,
         DOMAIN inbox' = Subs,
         \A s \in Subs : \/ inbox'[s] = inbox[s]
                         \/ \E d : d.n = Head(queue).n /\ inbox'[s] = Append(inbox[s], d)
  PROVE  SInv'
<1>1. queue \in Seq(Msg) /\ sent \in Nat
  BY DEF SInv, Types0
<1>2. PICK k \in Nat : Len(queue) = k + 1
  <2>1. Len(queue) \in Nat /\ Len(queue) # 0
    BY <1>1, LenProperties, EmptySeq
  <2>2. Len(queue) - 1 \in Nat /\ Len(queue) = (Len(queue) - 1) + 1
    BY <2>1
  <2> QED
    BY <2>2
<1>3. /\ Len(queue') = k /\ queue' \in Seq(Msg) /\ Head(queue) = queue[1]
      /\ \A j \in 1..k : queue'[j] = queue[j + 1] /\ j + 1 \in 1..Len(queue)
  BY <1>1, <1>2
<1>4. PICK h \in Nat : h = queue[1].n /\ h \in 1..sent
  <2>1. queue[1] \in Msg
    BY <1>1, <1>2
  <2>2. queue[1].n \in Nat \ {0} /\ queue[1].n <= sent
    BY <1>2, <2>1, Numbers DEF SInv, QueueInOrder
  <2> QED
    BY <1>1, <2>2
<1>5. QueueInOrder'
  <2>1. ASSUME NEW i \in 1..k, NEW j \in 1..k, i < j
        PROVE  queue[i + 1].n < queue[j + 1].n
    BY <1>3, <2>1 DEF SInv, QueueInOrder
  <2>2. \A i \in 1..k : queue[i + 1].n <= sent
    BY <1>3 DEF SInv, QueueInOrder
  <2> QED
    BY <1>3, <2>1, <2>2 DEF QueueInOrder
<1>6. \A j \in 1..k : h < queue'[j].n
  <2>1. \A j \in 1..k : 1 \in 1..Len(queue) /\ 1 < j + 1
    BY <1>2
  <2> QED
    BY <1>3, <1>4, <2>1 DEF SInv, QueueInOrder
<1>7. ASSUME NEW s \in Subs
      PROVE  /\ \E S : inbox'[s] \in Seq(S)
             /\ Ordered(inbox'[s])
             /\ \A i \in 1..Len(inbox'[s]) :
                  inbox'[s][i].n \in 1..sent /\ \A j \in 1..k : inbox'[s][i].n < queue'[j].n
  <2>1. PICK S : inbox[s] \in Seq(S)
    BY DEF SInv, Types0
  <2>2. PICK l \in Nat : l = Len(inbox[s])
    BY <2>1, LenProperties
  <2>3. \A i \in 1..l : /\ inbox[s][i].n \in 1..sent /\ inbox[s][i].n < h
                        /\ \A j \in 1..k : inbox[s][i].n < queue'[j].n
    BY <1>2, <1>3, <1>4, <2>2 DEF SInv, Numbered
  <2>4. CASE inbox'[s] = inbox[s]
    BY <2>1, <2>2, <2>3, <2>4 DEF SInv
  <2>5. ASSUME NEW d, d.n = Head(queue).n, inbox'[s] = Append(inbox[s], d)
        PROVE  /\ \E T : inbox'[s] \in Seq(T)
               /\ Ordered(inbox'[s])
               /\ \A i \in 1..Len(inbox'[s]) :
                    inbox'[s][i].n \in 1..sent /\ \A j \in 1..k : inbox'[s][i].n < queue'[j].n
    <3>1. inbox[s] \in Seq(S \cup {d}) /\ d \in S \cup {d}
      BY <2>1, SeqMonotonic
    <3>2. /\ inbox'[s] \in Seq(S \cup {d}) /\ Len(inbox'[s]) = l + 1
          /\ inbox'[s][l + 1] = d /\ \A i \in 1..l : inbox'[s][i] = inbox[s][i]
      BY <2>2, <2>5, <3>1, AppendProperties
    <3>3. \A i \in 1..(l + 1) : i \in 1..l \/ i = l + 1
      OBVIOUS
    <3>4. d.n = h
      BY <1>3, <1>4, <2>5
    <3>5. ASSUME NEW i \in 1..(l + 1), NEW j \in 1..(l + 1), i < j
          PROVE  inbox'[s][i].n < inbox'[s][j].n
      <4>1. i \in 1..l
        BY <3>5
      <4>2. CASE j \in 1..l
        <5>1. i \in 1..Len(inbox[s]) /\ j \in 1..Len(inbox[s])
          BY <2>2, <4>1, <4>2
        <5>2. inbox[s][i].n < inbox[s][j].n
          BY <3>5, <5>1 DEF SInv, Ordered
        <5> QED
          BY <3>2, <4>1, <4>2, <5>2
      <4>3. CASE j = l + 1
        BY <2>3, <3>2, <3>4, <4>1, <4>3
      <4> QED
        BY <3>3, <4>2, <4>3
    <3>6. \A i \in 1..(l + 1) :
            inbox'[s][i].n \in 1..sent /\ \A j \in 1..k : inbox'[s][i].n < queue'[j].n
      BY <1>4, <1>6, <2>3, <3>2, <3>3, <3>4
    <3>7. Ordered(inbox'[s])
      BY <3>2, <3>5 DEF Ordered
    <3> QED
      BY <3>2, <3>6, <3>7
  <2> QED
    BY <2>4, <2>5
<1> QED
  BY <1>1, <1>3, <1>5, <1>7 DEF SInv, Types0, Numbered

\* What a subscriber can be told while message m is processed: nothing, or one thing
\* with m's number.
Told(m) == /\ DOMAIN inbox' = Subs
           /\ \A s \in Subs : \/ inbox'[s] = inbox[s]
                              \/ \E d : d.n = m.n /\ inbox'[s] = Append(inbox[s], d)

LEMMA NotifyTells ==
  ASSUME NEW m, NEW S, NEW corr, NEW d, d.n = m.n, Notify(S, corr, d)
  PROVE  Told(m)
BY DEF Notify, Told

LEMMA ProcessTells ==
  ASSUME SInv, NEW m, Process(m)
  PROVE  Told(m)
<1> USE DEF told
<1>1. UNCHANGED inbox => Told(m)
  BY DEF SInv, Types0, Told
<1>2. CASE ProcessChunk(m)
  <2>1. CASE Accepted(m.chunk)
    <3>1. Notify(chunkSubs, m.corr, [n |-> m.n, chunk |-> m.chunk])
      BY <1>2, <2>1 DEF ProcessChunk, NotifyProcessed
    <3> QED
      BY <3>1, NotifyTells
  <2> QED
    BY <1>1, <1>2, <2>1 DEF ProcessChunk
<1>3. CASE ProcessStatus(m)
  <2>1. CASE m.status # "ready"
    <3>1. Notify(finalSubs, m.corr, [n |-> m.n, status |-> m.status])
      BY <1>3, <2>1 DEF ProcessStatus, NotifyStatus
    <3> QED
      BY <3>1, NotifyTells
  <2>2. CASE m.status = "ready" /\ m.ev # NoEvent /\ Finalizes(m.ev)
    <3>1. Notify(finalSubs, m.corr, [n |-> m.n, ev |-> m.ev, content |-> FinalContent(m.ev)])
      BY <1>3, <2>2 DEF ProcessStatus, FinalizeEvent
    <3> QED
      BY <3>1, NotifyTells
  <2> QED
    BY <1>1, <1>3, <2>1, <2>2 DEF ProcessStatus, FinalizeEvent
<1> QED
  BY <1>2, <1>3 DEF Process

-----------------------------------------------------------------------------
LEMMA Preserved ==
  ASSUME SInv, [Next]_vars
  PROVE  SInv'
<1>0. ASSUME UNCHANGED <<queue, inbox, sent>>
      PROVE  SInv'
  BY <1>0 DEF SInv, Types0, QueueInOrder, Numbered
<1>1. ASSUME NEW m \in Msg, m.n = sent + 1, Put(m)
      PROVE  SInv'
  BY <1>1, PutKeeps
<1>2. sent < MaxSent => sent + 1 \in 1..MaxSent
  BY MaxSentNat DEF SInv, Types0
<1>3. ASSUME NEW c \in Chunks, EnqueueChunk(c), c.ev \in Events
      PROVE  SInv'
  <2>1. [n |-> sent + 1, corr |-> CorrOf[c.ev], chunk |-> c] \in Msg
    BY <1>2, <1>3, CorrOfType DEF Msg, ChunkMsg, EnqueueChunk, Put
  <2> QED
    BY <1>1, <1>3, <2>1 DEF EnqueueChunk
<1>4. ASSUME NEW corr \in Corrs, NEW e \in Events \cup {NoEvent}, NEW status \in Statuses,
             EnqueueStatus(corr, e, status)
      PROVE  SInv'
  <2>1. [n |-> sent + 1, corr |-> corr, ev |-> e, status |-> status] \in Msg
    BY <1>2, <1>4 DEF Msg, StatusMsg, EnqueueStatus, Put
  <2> QED
    BY <1>1, <1>4, <2>1 DEF EnqueueStatus
<1>5. CASE \E s \in Subs : \/ SubscribeProcessed(s) \/ SubscribeFinal(s)
                          \/ UnsubscribeProcessed(s) \/ UnsubscribeFinal(s)
  BY <1>0, <1>5 DEF told, SubscribeProcessed, SubscribeFinal, UnsubscribeProcessed, UnsubscribeFinal
<1>6. CASE WorkerStep \/ DrainStep
  <2>1. /\ queue # <<>> /\ queue' = Tail(queue) /\ sent' = sent
        /\ Process(Head(queue))
    BY <1>6 DEF WorkerStep, DrainStep
  <2>2. Told(Head(queue))
    BY <2>1, ProcessTells
  <2> QED
    BY <2>1, <2>2, TakeKeeps DEF Told
<1>7. CASE Shutdown \/ DrainEnd
  BY <1>0, <1>7 DEF told, Shutdown, DrainEnd
<1>8. CASE UNCHANGED vars
  BY <1>0, <1>8 DEF vars
<1>9. \A e \in Events : CorrOf[e] \in Corrs
  BY CorrOfType
<1>10. "ready" \in Statuses
  BY DEF Statuses
<1> QED
  BY <1>3, <1>4, <1>5, <1>6, <1>7, <1>8, <1>9, <1>10, ChunkEvents DEF Next

-----------------------------------------------------------------------------
(* The FIFO queue (emitter/memory.py:43), the worker that takes one message *)
(* at a time (85-103) and the drain that goes on where it stopped (165-180) *)
(* give every subscriber what is sent under its correlation id in *)
(* the order it was sent, each message at most once.                        *)
THEOREM SentOrder == Spec => []InOrder
<1>1. Init => SInv
  BY Initially
<1>2. SInv /\ [Next]_vars => SInv'
  BY Preserved
<1>3. SInv => InOrder
  <2>1. ASSUME SInv, NEW s \in Subs
        PROVE  DOMAIN inbox[s] = 1..Len(inbox[s])
    BY <2>1, LenProperties DEF SInv, Types0
  <2> QED
    BY <2>1 DEF SInv, Ordered, InOrder
<1> QED
  BY <1>1, <1>2, <1>3, PTL DEF Spec

-----------------------------------------------------------------------------
(* Messages speak of an event under its own correlation id.                  *)
Addressed(m) == IF IsChunk(m) THEN m.corr = CorrOf[m.chunk.ev]
                ELSE m.ev # NoEvent => m.corr = CorrOf[m.ev]

Types1 == /\ chunkSubs \subseteq Subs /\ finalSubs \subseteq Subs
          /\ inbox \in [Subs -> Seq(Delivery)]
          /\ shown \in [Subs -> [Events -> Seq(Item)]]
          /\ missed \in [Subs -> SUBSET Events]
          /\ phase \in {"up", "draining", "down"}

\* Who has listened to an event's chunks since its document was begun has been shown the
\* document; before it is begun nobody has been shown anything of it.
Whole(e) == docs[e] # Absent => docs[e].type # "list" \/ ~Mixed(e)
Streamed == \A s \in chunkSubs, e \in Events :
              SubCorr[s] = CorrOf[e] /\ e \notin missed[s] /\ Whole(e) => shown[s][e] = Kept(e)
Unbegun == \A e \in Events : docs[e] = Absent => \A s \in Subs : shown[s][e] = <<>>

EInv == /\ SInv /\ StoreInv /\ Types1
        /\ \A j \in 1..Len(queue) : Addressed(queue[j])
        /\ Streamed /\ Unbegun
-----------------------------------------------------------------------------
(* What leaves the store alone keeps its invariant.                         *)
LEMMA SameStore ==
  ASSUME StoreInv, UNCHANGED storeVars
  PROVE  StoreInv'
BY StoreInductive

-----------------------------------------------------------------------------
(* What is notified of a message is a delivery.                             *)
LEMMA NotifyTypes ==
  ASSUME Types1, NEW S, NEW corr, NEW d \in Delivery, Notify(S, corr, d)
  PROVE  inbox' \in [Subs -> Seq(Delivery)]
<1>1. \A s \in Subs : Append(inbox[s], d) \in Seq(Delivery)
  BY AppendProperties DEF Types1
<1> QED
  BY <1>1 DEF Notify, Types1

(* A chunk that is not accepted adds nothing to a document, unless it mixes  *)
(* appends with keys in a list.                                              *)
LEMMA AllOrNothing ==
  ASSUME StoreInv, NEW c \in Chunks, AddChunk(c), Whole(c.ev)'
  PROVE  Whole(c.ev) /\ (Accepted(c) \/ Taken(c) = <<>>)
<1> DEFINE d == DocFor(c)
<1>1. StoreTypeOK
  BY DEF StoreInv
<1>2. /\ RootType(c) \in {"list", "dict"} /\ docs'[c.ev] # Absent
      /\ docs'[c.ev].type = IF Taken(c) = <<>> THEN d.type ELSE RootType(c)
  BY <1>1, AddedTo, RootTypes, AbsentFresh DEF Leaves
<1>3. ~Mixed(c.ev) \/ docs'[c.ev].type # "list"
  BY <1>2 DEF Whole, Mixed
<1>4. d.type = "list" => RootType(c) = "list"
  BY DEF RootType
<1>5. docs[c.ev] # Absent => d = docs[c.ev]
  BY DEF DocFor
<1>6. Whole(c.ev)
  BY <1>2, <1>3, <1>4, <1>5 DEF Whole
<1>7. ASSUME InTurn(c), Misfits(c) # {}
      PROVE  Taken(c) = <<>>
  <2>1. RootType(c) = "list" /\ \E i \in DOMAIN c.ops : c.ops[i] # "append"
    BY <1>7 DEF Misfits
  <2>2. CASE ~IsAppend(c)
    <3>1. Applied(c) = <<>>
      BY <1>1, <2>1, <2>2, AppliedOps
    <3> QED
      BY <3>1 DEF Taken
  <2>3. CASE IsAppend(c)
    <3>1. Mixed(c.ev)
      BY <2>1, <2>3 DEF Mixed
    <3>2. docs'[c.ev].type # "list"
      BY <1>3, <3>1
    <3> QED
      BY <1>1, <1>2, <1>7, <2>1, <3>2, TakenOps
  <2> QED
    BY <2>2, <2>3
<1> QED
  BY <1>6, <1>7 DEF Taken, Accepted

-----------------------------------------------------------------------------
(* A message of a chunk is one, and one of a status is not.                  *)
LEMMA MessageKinds ==
  ASSUME NEW m \in Msg
  PROVE  /\ IsChunk(m) => m \in ChunkMsg /\ m.n \in 1..MaxSent /\ m.chunk \in Chunks
         /\ ~IsChunk(m) => /\ m \in StatusMsg /\ m.n \in 1..MaxSent /\ m.status \in Statuses
                           /\ m.ev \in Events \cup {NoEvent}
<1>1. ASSUME m \in ChunkMsg PROVE IsChunk(m)
  BY <1>1 DEF ChunkMsg, IsChunk
<1>2. ASSUME m \in StatusMsg PROVE ~IsChunk(m)
  BY <1>2 DEF StatusMsg, IsChunk
<1> QED
  BY <1>1, <1>2 DEF Msg, ChunkMsg, StatusMsg

(* A chunk that is processed is shown as it is kept.                        *)
LEMMA ChunkKeepsShown ==
  ASSUME EInv, NEW m \in Msg, IsChunk(m), Addressed(m), ProcessChunk(m), UNCHANGED chunkSubs
  PROVE  /\ StoreInv' /\ inbox' \in [Subs -> Seq(Delivery)]
         /\ shown' \in [Subs -> [Events -> Seq(Item)]]
         /\ missed' \in [Subs -> SUBSET Events] /\ Streamed' /\ Unbegun'
<1> DEFINE c == m.chunk
           hears(s) == s \in chunkSubs /\ SubCorr[s] = m.corr
<1>1. c \in Chunks /\ c.ev \in Events /\ m.n \in 1..MaxSent /\ m.corr = CorrOf[c.ev]
  BY MessageKinds, ChunkEvents DEF Addressed
<1>2. AddChunk(c) /\ StoreInv /\ StoreTypeOK /\ Types1
  BY DEF ProcessChunk, EInv, StoreInv
<1>3. StoreInv'
  BY <1>1, <1>2, ChunkKeeps
<1>4. [n |-> m.n, chunk |-> c] \in Delivery
  BY <1>1 DEF Delivery
<1> HIDE DEF c
<1>5. Items(c, c.ops) \in Seq(Item)
  BY <1>1, ItemsType
<1>6. inbox' \in [Subs -> Seq(Delivery)]
  <2>1. CASE Accepted(c)
    BY <1>2, <1>4, <2>1, NotifyTypes DEF ProcessChunk, NotifyProcessed, c
  <2>2. CASE ~Accepted(c)
    BY <1>2, <2>2 DEF ProcessChunk, told, Types1, c
  <2> QED
    BY <2>1, <2>2
<1>7. \A s \in Subs, e \in Events :
        shown'[s][e] = IF Accepted(c) /\ hears(s) /\ e = c.ev
                       THEN shown[s][e] \o Items(c, c.ops) ELSE shown[s][e]
  <2>1. CASE Accepted(c)
    <3>1. shown' = [s \in Subs |-> IF hears(s) THEN [shown[s] EXCEPT ![c.ev] = @ \o Items(c, c.ops)]
                                   ELSE shown[s]]
      BY <2>1 DEF ProcessChunk, NotifyProcessed, c
    <3> QED
      BY <1>1, <1>2, <2>1, <3>1 DEF Types1
  <2>2. CASE ~Accepted(c)
    BY <2>2 DEF ProcessChunk, told, c
  <2> QED
    BY <2>1, <2>2
<1>8. shown' \in [Subs -> [Events -> Seq(Item)]]
  <2>1. \A s \in Subs : shown[s] \in [Events -> Seq(Item)]
    BY <1>2 DEF Types1
  <2>2. \A s \in Subs : (shown[s])[c.ev] \o Items(c, c.ops) \in Seq(Item)
    BY <1>1, <1>5, <2>1, ConcatProperties
  <2>3. \A s \in Subs : [shown[s] EXCEPT ![c.ev] = @ \o Items(c, c.ops)] \in [Events -> Seq(Item)]
    BY <1>1, <2>1, <2>2
  <2>4. CASE Accepted(c)
    <3>1. shown' = [s \in Subs |-> IF hears(s) THEN [shown[s] EXCEPT ![c.ev] = @ \o Items(c, c.ops)]
                                   ELSE shown[s]]
      BY <2>4 DEF ProcessChunk, NotifyProcessed, c
    <3> HIDE DEF hears
    <3> QED
      BY <2>1, <2>3, <3>1
  <2>5. CASE ~Accepted(c)
    BY <1>2, <2>5 DEF ProcessChunk, told, c, Types1
  <2> QED
    BY <2>4, <2>5
<1>9. missed' = missed
  BY DEF ProcessChunk, NotifyProcessed, told
<1>10. \A e \in Events : e # c.ev => docs'[e] = docs[e]
  BY <1>2 DEF AddChunk, StoreTypeOK, c
<1>11. Streamed'
  <2> SUFFICES ASSUME NEW s \in chunkSubs, NEW e \in Events, SubCorr[s] = CorrOf[e],
                      e \notin missed[s], Whole(e)'
               PROVE  shown'[s][e] = Kept(e)'
    BY <1>9 DEF Streamed
  <2>1. s \in Subs /\ (Whole(e) => shown[s][e] = Kept(e))
    BY <1>2 DEF EInv, Streamed, Types1
  <2>2. CASE e = c.ev
    <3>1. hears(s)
      BY <1>1, <2>2
    <3>2. Whole(e) /\ (Accepted(c) \/ Taken(c) = <<>>)
      BY <1>1, <1>2, <2>2, AllOrNothing DEF c
    <3>3. /\ Accepted(c) => Kept(e)' = Kept(e) \o Items(c, c.ops)
          /\ Taken(c) = <<>> => Kept(e)' = Kept(e)
      BY <1>1, <1>2, <2>2, DocumentGrows DEF c
    <3> QED
      BY <1>7, <2>1, <2>2, <3>1, <3>2, <3>3
  <2>3. CASE e # c.ev
    <3>1. docs'[e] = docs[e]
      BY <1>10, <2>3
    <3> QED
      BY <1>7, <2>1, <2>3, <3>1 DEF Kept, Whole
  <2> QED
    BY <2>2, <2>3
<1>12. Unbegun'
  <2>1. docs'[c.ev] # Absent
    BY <1>1, <1>2, AddedTo, AbsentFresh DEF Leaves, c
  <2> QED
    BY <1>7, <1>10, <2>1 DEF EInv, Unbegun
<1>13. missed' \in [Subs -> SUBSET Events]
  BY <1>2, <1>9 DEF Types1
<1> QED
  BY <1>3, <1>6, <1>8, <1>11, <1>12, <1>13

(* What finalize_event returns is the document, which has a root.           *)
LEMMA FinalTypes ==
  ASSUME StoreInv, NEW e \in Events, Finalizes(e)
  PROVE  FinalContent(e) \in Content /\ FinalContent(e).items = Kept(e)
<1>1. docs[e] # Absent /\ docs[e] \in Doc /\ docs[e].items # <<>>
  BY DEF Finalizes, StoreInv, StoreTypeOK
<1>2. docs[e].type \in {"list", "dict"} /\ docs[e].items \in Seq(Item)
  BY <1>1 DEF StoreInv, Begun, Doc, Item, Item,
              Ops, Ops
<1> QED
  BY <1>1, <1>2 DEF FinalContent, Content, Kept

(* Finalizing drops the document and what was shown of it alike.            *)
LEMMA StatusKeepsShown ==
  ASSUME EInv, NEW m \in Msg, ~IsChunk(m), ProcessStatus(m), UNCHANGED chunkSubs
  PROVE  /\ StoreInv' /\ inbox' \in [Subs -> Seq(Delivery)]
         /\ shown' \in [Subs -> [Events -> Seq(Item)]]
         /\ missed' \in [Subs -> SUBSET Events] /\ Streamed' /\ Unbegun'
<1>1. m.n \in 1..MaxSent /\ m.status \in Statuses /\ m.ev \in Events \cup {NoEvent}
  BY MessageKinds
<1>2. StoreInv /\ StoreTypeOK /\ Types1
  BY DEF EInv, StoreInv
<1>3. ASSUME UNCHANGED <<storeVars, shown, missed>>
      PROVE  /\ StoreInv' /\ shown' \in [Subs -> [Events -> Seq(Item)]]
             /\ missed' \in [Subs -> SUBSET Events] /\ Streamed' /\ Unbegun'
  <2>1. StoreInv'
    BY <1>2, <1>3, SameStore
  <2>2. Streamed' /\ Unbegun'
    BY <1>3 DEF EInv, Streamed, Unbegun, Kept, Whole, storeVars
  <2> QED
    BY <1>2, <1>3, <2>1, <2>2 DEF Types1
<1>4. CASE m.status # "ready" /\ NotifyStatus(m)
  <2>1. [n |-> m.n, status |-> m.status] \in Delivery
    BY <1>1, <1>4 DEF Delivery
  <2>2. inbox' \in [Subs -> Seq(Delivery)]
    BY <1>2, <1>4, <2>1, NotifyTypes DEF NotifyStatus
  <2> QED
    BY <1>3, <1>4, <2>2 DEF NotifyStatus
<1>5. CASE UNCHANGED <<storeVars, told>>
  BY <1>2, <1>3, <1>5 DEF told, Types1
<1>6. CASE m.ev \in Events /\ FinalizeEvent(m)
  <2>1. Finalize(m.ev) /\ Finalize(m.ev)
    BY <1>6 DEF FinalizeEvent
  <2>2. StoreInv'
    BY <1>2, <1>6, <2>1, DropsKeep
  <2>3. inbox' \in [Subs -> Seq(Delivery)]
    <3>1. CASE Finalizes(m.ev)
      <4>1. [n |-> m.n, ev |-> m.ev, content |-> FinalContent(m.ev)] \in Delivery
        BY <1>1, <1>2, <1>6, <3>1, FinalTypes DEF Delivery
      <4> QED
        BY <1>2, <1>6, <3>1, <4>1, NotifyTypes DEF FinalizeEvent
    <3>2. CASE ~Finalizes(m.ev)
      BY <1>2, <1>6, <3>2 DEF FinalizeEvent, Types1
    <3> QED
      BY <3>1, <3>2
  <2>4. shown' = [s \in Subs |-> [shown[s] EXCEPT ![m.ev] = <<>>]]
    BY <1>6 DEF FinalizeEvent
  <2>5. shown' \in [Subs -> [Events -> Seq(Item)]]
    <3>1. \A s \in Subs : shown[s] \in [Events -> Seq(Item)]
      BY <1>2 DEF Types1
    <3>2. \A s \in Subs : [shown[s] EXCEPT ![m.ev] = <<>>] \in [Events -> Seq(Item)]
      <4> DEFINE T == Seq(Item)
      <4>1. <<>> \in T
        OBVIOUS
      <4> HIDE DEF T
      <4>2. \A f \in [Events -> T] : [f EXCEPT ![m.ev] = <<>>] \in [Events -> T]
        BY <4>1
      <4> QED
        BY <3>1, <4>2 DEF T
    <3> QED
      BY <2>4, <3>2
  <2>6. \A e \in Events : docs'[e] = IF e = m.ev THEN Absent ELSE docs[e]
    BY <1>2, <2>1 DEF Finalize, StoreTypeOK
  <2>7. \A s \in Subs, e \in Events : shown'[s][e] = IF e = m.ev THEN <<>> ELSE shown[s][e]
    <3> TAKE s \in Subs, e \in Events
    <3>1. shown[s] \in [Events -> Seq(Item)]
      BY <1>2 DEF Types1
    <3> QED
      BY <2>4, <3>1
  <2>8. missed' = [s \in Subs |-> missed[s] \ {m.ev}]
    BY <1>6 DEF FinalizeEvent
  <2>9. Streamed'
    <3> SUFFICES ASSUME NEW s \in chunkSubs, NEW e \in Events, SubCorr[s] = CorrOf[e],
                        e \notin missed'[s], Whole(e)'
                 PROVE  shown'[s][e] = Kept(e)'
      BY DEF Streamed
    <3>1. s \in Subs
      BY <1>2 DEF Types1
    <3>2. CASE e = m.ev
      BY <2>6, <2>7, <3>1, <3>2 DEF Kept
    <3>3. CASE e # m.ev
      <4>1. e \notin missed[s] /\ Whole(e)
        BY <2>6, <2>8, <3>1, <3>3 DEF Whole
      <4>2. shown[s][e] = Kept(e)
        BY <4>1 DEF EInv, Streamed
      <4> QED
        BY <2>6, <2>7, <3>1, <3>3, <4>2 DEF Kept
    <3> QED
      BY <3>2, <3>3
  <2>10. Unbegun'
    BY <2>6, <2>7 DEF EInv, Unbegun
  <2>11. missed' \in [Subs -> SUBSET Events]
    BY <1>2, <2>8 DEF Types1
  <2> QED
    BY <2>2, <2>3, <2>5, <2>9, <2>10, <2>11
<1> QED
  BY <1>1, <1>4, <1>5, <1>6 DEF ProcessStatus
-----------------------------------------------------------------------------
LEMMA InitiallyShown ==
  ASSUME Init
  PROVE  EInv
<1>1. SInv
  BY Initially
<1>2. StoreInv
  <2>1. StoreInit
    BY DEF Init, StoreInit, StoreInit
  <2> QED
    BY <2>1, StoreInitially
<1>3. /\ \A s \in Subs : inbox[s] = <<>>
      /\ \A s \in Subs, e \in Events : shown[s][e] = <<>>
      /\ \A e \in Events : docs[e] = Absent
      /\ queue = <<>> /\ chunkSubs = {}
  BY DEF Init, StoreInit
<1>4. Types1
  <2>1. inbox \in [Subs -> Seq(Delivery)]
    BY DEF Init
  <2>2. shown \in [Subs -> [Events -> Seq(Item)]]
    <3>1. [e \in Events |-> <<>>] \in [Events -> Seq(Item)]
      OBVIOUS
    <3> QED
      BY <3>1 DEF Init
  <2>3. missed \in [Subs -> SUBSET Events]
    BY DEF Init
  <2> QED
    BY <2>1, <2>2, <2>3 DEF Init, Types1
<1>5. Len(queue) = 0
  BY <1>3
<1> QED
  BY <1>1, <1>2, <1>3, <1>4, <1>5 DEF EInv, Streamed, Unbegun, Kept

(* Steps that process nothing.                                              *)
LEMMA QuietKeeps ==
  ASSUME EInv, SInv', UNCHANGED <<storeVars, inbox, shown>>, missed' \in [Subs -> SUBSET Events],
         chunkSubs' \subseteq Subs, finalSubs' \subseteq Subs, phase' \in {"up", "draining", "down"},
         \A s \in chunkSubs', e \in Events :
           e \in missed'[s] \/ docs[e] = Absent \/ (s \in chunkSubs /\ e \notin missed[s]),
         \A j \in 1..Len(queue') : Addressed(queue'[j])
  PROVE  EInv'
<1>1. StoreInv'
  BY SameStore DEF EInv
<1>2. Types1'
  BY DEF EInv, Types1
<1>3. \A e \in Events : Kept(e)' = Kept(e) /\ (Whole(e)' <=> Whole(e))
  BY DEF Kept, Whole, storeVars
<1>4. Streamed'
  <2> SUFFICES ASSUME NEW s \in chunkSubs', NEW e \in Events, SubCorr[s] = CorrOf[e],
                      e \notin missed'[s], Whole(e)
               PROVE  shown[s][e] = Kept(e)
    BY <1>3 DEF Streamed
  <2>1. CASE s \in chunkSubs /\ e \notin missed[s]
    BY <2>1 DEF EInv, Streamed
  <2>2. CASE docs[e] = Absent
    BY <2>2 DEF EInv, Unbegun, Kept
  <2> QED
    BY <2>1, <2>2
<1>5. Unbegun'
  BY DEF EInv, Unbegun, storeVars
<1>6. (\A j \in 1..Len(queue) : Addressed(queue[j]))'
  BY DEF Addressed, IsChunk
<1> QED
  BY <1>1, <1>2, <1>4, <1>5, <1>6 DEF EInv

(* A message is put on the queue.                                           *)
LEMMA PutKeepsShown ==
  ASSUME EInv, SInv', NEW m \in Msg, Addressed(m), Put(m)
  PROVE  EInv'
<1>1. /\ sent \in Nat /\ sent' = sent + 1 /\ queue \in Seq(Msg)
      /\ queue' = Append(queue, m) /\ UNCHANGED <<storeVars, told, chunkSubs, finalSubs, phase>>
  BY DEF Put, EInv, SInv, Types0
<1>2. PICK k \in Nat : k = Len(queue)
  BY <1>1, LenProperties
<1>3. /\ Len(queue') = k + 1 /\ queue'[k + 1] = m /\ \A j \in 1..k : queue'[j] = queue[j]
  BY <1>1, <1>2, AppendProperties
<1>4. \A j \in 1..(k + 1) : j \in 1..k \/ j = k + 1
  OBVIOUS
<1>5. \A j \in 1..Len(queue') : Addressed(queue'[j])
  BY <1>2, <1>3, <1>4 DEF EInv
<1>6. UNCHANGED <<inbox, shown, missed>> /\ Types1
  BY <1>1 DEF told, EInv
<1>7. \A s \in chunkSubs', e \in Events :
        e \in missed'[s] \/ docs[e] = Absent \/ (s \in chunkSubs /\ e \notin missed[s])
  BY <1>1, <1>6
<1> QED
  BY <1>1, <1>5, <1>6, <1>7, QuietKeeps DEF Types1

(* The first message of the queue.                                          *)
LEMMA FirstMessage ==
  ASSUME EInv, queue # <<>>
  PROVE  /\ Head(queue) \in Msg /\ Addressed(Head(queue))
         /\ \A j \in 1..Len(Tail(queue)) : Addressed(Tail(queue)[j])
<1>1. queue \in Seq(Msg)
  BY DEF EInv, SInv, Types0
<1>2. PICK k \in Nat : Len(queue) = k + 1
  <2>1. Len(queue) \in Nat /\ Len(queue) # 0
    BY <1>1, LenProperties, EmptySeq
  <2>2. Len(queue) - 1 \in Nat /\ Len(queue) = (Len(queue) - 1) + 1
    BY <2>1
  <2> QED
    BY <2>2
<1>3. /\ Head(queue) = queue[1] /\ queue[1] \in Msg /\ Len(Tail(queue)) = k
      /\ \A j \in 1..k : Tail(queue)[j] = queue[j + 1] /\ j + 1 \in 1..Len(queue)
  BY <1>1, <1>2
<1>4. 1 \in 1..Len(queue)
  BY <1>2
<1> QED
  BY <1>3, <1>4 DEF EInv

LEMMA TakeKeepsShown ==
  ASSUME EInv, SInv', queue # <<>>, Process(Head(queue)), queue' = Tail(queue),
         phase' \in {"up", "draining", "down"}, UNCHANGED <<chunkSubs, finalSubs, sent>>
  PROVE  EInv'
<1> DEFINE m == Head(queue)
<1>1. /\ m \in Msg /\ Addressed(m)
      /\ \A j \in 1..Len(Tail(queue)) : Addressed(Tail(queue)[j])
  BY FirstMessage
<1>2. /\ StoreInv' /\ inbox' \in [Subs -> Seq(Delivery)]
      /\ shown' \in [Subs -> [Events -> Seq(Item)]]
      /\ missed' \in [Subs -> SUBSET Events] /\ Streamed' /\ Unbegun'
  <2>1. CASE IsChunk(m)
    BY <1>1, <2>1, ChunkKeepsShown DEF Process
  <2>2. CASE ~IsChunk(m)
    BY <1>1, <2>2, StatusKeepsShown DEF Process
  <2> QED
    BY <2>1, <2>2
<1>3. Types1'
  BY <1>2 DEF EInv, Types1
<1>5. (\A j \in 1..Len(queue) : Addressed(queue[j]))'
  BY <1>1 DEF Addressed, IsChunk
<1> QED
  BY <1>2, <1>3, <1>5 DEF EInv

LEMMA PreservedShown ==
  ASSUME EInv, [Next]_vars
  PROVE  EInv'
<1>1. SInv'
  BY Preserved DEF EInv
<1>2. /\ sent \in 0..MaxSent /\ \A j \in 1..Len(queue) : Addressed(queue[j])
      /\ chunkSubs \subseteq Subs /\ finalSubs \subseteq Subs /\ phase \in {"up", "draining", "down"}
  BY DEF EInv, SInv, Types0, Types1
<1>3. sent < MaxSent => sent + 1 \in 1..MaxSent
  BY <1>2, MaxSentNat
<1>4. ASSUME NEW c \in Chunks, EnqueueChunk(c)
      PROVE  EInv'
  <2> DEFINE m == [n |-> sent + 1, corr |-> CorrOf[c.ev], chunk |-> c]
  <2>1. m \in Msg /\ Put(m)
    BY <1>3, <1>4, CorrOfType, ChunkEvents DEF Msg, ChunkMsg, EnqueueChunk, Put
  <2>2. Addressed(m)
    BY DEF Addressed, IsChunk
  <2> QED
    BY <1>1, <2>1, <2>2, PutKeepsShown
<1>5. ASSUME NEW corr \in Corrs, NEW e \in Events \cup {NoEvent}, NEW status \in Statuses,
             EnqueueStatus(corr, e, status), e # NoEvent => corr = CorrOf[e]
      PROVE  EInv'
  <2> DEFINE m == [n |-> sent + 1, corr |-> corr, ev |-> e, status |-> status]
  <2>1. m \in Msg /\ Put(m)
    BY <1>3, <1>5 DEF Msg, StatusMsg, EnqueueStatus, Put
  <2>2. Addressed(m)
    BY <1>5 DEF Addressed, IsChunk
  <2> QED
    BY <1>1, <2>1, <2>2, PutKeepsShown
<1>6. CASE \E s \in Subs : \/ SubscribeProcessed(s) \/ SubscribeFinal(s)
                          \/ UnsubscribeProcessed(s) \/ UnsubscribeFinal(s)
  <2>1. PICK s \in Subs : \/ SubscribeProcessed(s) \/ SubscribeFinal(s)
                         \/ UnsubscribeProcessed(s) \/ UnsubscribeFinal(s)
    BY <1>6
  <2>2. /\ UNCHANGED <<storeVars, inbox, shown, queue, phase, sent>>
        /\ chunkSubs' \subseteq Subs /\ finalSubs' \subseteq Subs
    BY <1>2, <2>1 DEF SubscribeProcessed, SubscribeFinal, UnsubscribeProcessed,
                      UnsubscribeFinal, told
  <2>3. missed \in [Subs -> SUBSET Events] /\ StoreTypeOK
    BY DEF EInv, Types1, StoreInv
  <2>4. \/ chunkSubs' \subseteq chunkSubs /\ missed' = missed
        \/ /\ chunkSubs' = chunkSubs \cup {s}
           /\ missed' = [missed EXCEPT ![s] = @ \cup {e \in Events : docs[e] # Absent}]
    BY <2>1 DEF SubscribeProcessed, SubscribeFinal, UnsubscribeProcessed, UnsubscribeFinal, told
  <2>5. missed' \in [Subs -> SUBSET Events]
    BY <2>3, <2>4
  <2>6. \A t \in chunkSubs', e \in Events :
          e \in missed'[t] \/ docs[e] = Absent \/ (t \in chunkSubs /\ e \notin missed[t])
    <3> TAKE t \in chunkSubs', e \in Events
    <3>1. CASE t = s /\ chunkSubs' = chunkSubs \cup {s}
      BY <2>3, <2>4, <3>1
    <3>2. CASE t # s \/ chunkSubs' # chunkSubs \cup {s}
      BY <1>2, <2>3, <2>4, <3>2
    <3> QED
      BY <3>1, <3>2
  <2> QED
    BY <1>1, <1>2, <2>2, <2>5, <2>6, QuietKeeps
<1>7. CASE WorkerStep \/ DrainStep
  <2>1. /\ queue # <<>> /\ queue' = Tail(queue) /\ Process(Head(queue))
        /\ phase' \in {"up", "draining", "down"} /\ UNCHANGED <<chunkSubs, finalSubs, sent>>
    BY <1>7 DEF WorkerStep, DrainStep
  <2> QED
    BY <1>1, <2>1, TakeKeepsShown
<1>8. CASE Shutdown \/ DrainEnd \/ UNCHANGED vars
  <2>1. /\ UNCHANGED <<storeVars, inbox, shown, missed, queue, chunkSubs, finalSubs, sent>>
        /\ phase' \in {"up", "draining", "down"}
    BY <1>2, <1>8 DEF Shutdown, DrainEnd, vars, storeVars, told
  <2>2. \A s \in chunkSubs', e \in Events :
          e \in missed'[s] \/ docs[e] = Absent \/ (s \in chunkSubs /\ e \notin missed[s])
    BY <2>1
  <2> QED
    BY <1>1, <1>2, <2>1, <2>2, QuietKeeps DEF EInv, Types1
<1>9. \A e \in Events : CorrOf[e] \in Corrs
  BY CorrOfType
<1>10. "ready" \in Statuses
  BY DEF Statuses
<1> QED
  BY <1>4, <1>5, <1>6, <1>7, <1>8, <1>9, <1>10 DEF Next

(* A final event that is delivered is what was shown of it.                  *)
LEMMA ShownIsFinal ==
  ASSUME EInv, [Next]_vars, NEW s \in chunkSubs, inbox'[s] # inbox[s],
         "content" \in DOMAIN Last(inbox'[s]), Last(inbox'[s]).ev \notin missed[s],
         Last(inbox'[s]).content.type = "dict" \/ ~Mixed(Last(inbox'[s]).ev)
  PROVE  Last(inbox'[s]).content.items = shown[s][Last(inbox'[s]).ev]
<1> DEFINE m == Head(queue)
<1>1. s \in Subs /\ inbox[s] \in Seq(Delivery)
  BY DEF EInv, Types1
<1>2. queue # <<>> /\ Process(m)
  BY DEF Next, vars, EnqueueChunk, EnqueueStatus, Put, SubscribeProcessed, SubscribeFinal,
         UnsubscribeProcessed, UnsubscribeFinal, WorkerStep, Shutdown, DrainStep, DrainEnd, told
<1>3. m \in Msg /\ Addressed(m)
  BY <1>2, FirstMessage
<1>4. ASSUME NEW S, NEW corr, NEW d, Notify(S, corr, d)
      PROVE  Last(inbox'[s]) = d /\ SubCorr[s] = corr
  <2>1. inbox'[s] = Append(inbox[s], d) /\ SubCorr[s] = corr
    BY <1>1, <1>4 DEF Notify
  <2>2. inbox[s] \in Seq(Delivery \cup {d}) /\ d \in Delivery \cup {d}
    BY <1>1, SeqMonotonic
  <2>3. /\ inbox'[s] \in Seq(Delivery \cup {d}) /\ Len(inbox'[s]) = Len(inbox[s]) + 1
        /\ inbox'[s][Len(inbox[s]) + 1] = d
    BY <2>1, <2>2, AppendProperties
  <2> QED
    BY <2>1, <2>3 DEF Last
<1>5. CASE ProcessChunk(m)
  <2>1. Notify(chunkSubs, m.corr, [n |-> m.n, chunk |-> m.chunk])
    BY <1>5 DEF ProcessChunk, NotifyProcessed, told
  <2>2. Last(inbox'[s]) = [n |-> m.n, chunk |-> m.chunk]
    BY <1>4, <2>1
  <2> QED
    BY <2>2
<1>6. CASE ProcessStatus(m) /\ ~IsChunk(m)
  <2>1. m.ev \in Events \cup {NoEvent}
    BY <1>3, <1>6, MessageKinds
  <2>2. ~NotifyStatus(m)
    <3>1. SUFFICES ASSUME NotifyStatus(m) PROVE FALSE
      OBVIOUS
    <3>2. Last(inbox'[s]) = [n |-> m.n, status |-> m.status]
      BY <1>4, <3>1 DEF NotifyStatus
    <3> QED
      BY <3>2
  <2>3. m.ev \in Events /\ FinalizeEvent(m)
    BY <1>6, <2>1, <2>2 DEF ProcessStatus, told
  <2>4. Finalizes(m.ev)
    BY <2>3 DEF FinalizeEvent
  <2> DEFINE d == [n |-> m.n, ev |-> m.ev, content |-> FinalContent(m.ev)]
  <2>5. Notify(finalSubs, m.corr, d)
    BY <2>3, <2>4 DEF FinalizeEvent
  <2>6. Last(inbox'[s]) = d /\ SubCorr[s] = m.corr
    BY <1>4, <2>5
  <2>7. m.corr = CorrOf[m.ev]
    BY <1>3, <1>6, <2>3, NoEventFresh DEF Addressed
  <2>8. shown[s][m.ev] = Kept(m.ev)
    <3>1. m.ev \notin missed[s] /\ (FinalContent(m.ev).type = "dict" \/ ~Mixed(m.ev))
      BY <2>6
    <3>2. Whole(m.ev)
      BY <3>1 DEF Whole, FinalContent
    <3> QED
      BY <2>3, <2>6, <2>7, <3>1, <3>2 DEF EInv, Streamed
  <2>9. FinalContent(m.ev).items = Kept(m.ev)
    BY <2>3, <2>4, FinalTypes DEF EInv
  <2> QED
    BY <2>6, <2>8, <2>9
<1> QED
  BY <1>2, <1>5, <1>6 DEF Process

-----------------------------------------------------------------------------
LEMMA InvarianceShown == Spec => []EInv
<1>1. Init => EInv
  BY InitiallyShown
<1>2. EInv /\ [Next]_vars => EInv'
  BY PreservedShown
<1> QED
  BY <1>1, <1>2, PTL DEF Spec

(* Queue, subscribers and deliveries are well typed, and so is the store.    *)
THEOREM TypeCorrect == Spec => []TypeOK
<1>1. EInv => TypeOK
  BY DEF EInv, StoreInv, SInv, Types0, Types1, Msg, TypeOK
<1> QED
  BY <1>1, InvarianceShown, PTL

(* _process_event_chunk notifies of a chunk once the store has accepted it,  *)
(* _process_status_event finalizes and notifies in one turn: the content of  *)
(* a final event is what those who listen to its chunks were shown.          *)
THEOREM FinalShown == Spec => FinalWasStreamed
<1>1. EInv /\ [Next]_vars =>
        \A s \in chunkSubs : inbox'[s] # inbox[s] =>
          LET d == Last(inbox'[s])
          IN /\ "content" \in DOMAIN d
             /\ d.ev \notin missed[s]
             /\ d.content.type = "dict" \/ ~Mixed(d.ev)
             => d.content.items = shown[s][d.ev]
  BY ShownIsFinal
<1> QED
  BY <1>1, InvarianceShown, PTL DEF Spec, FinalWasStreamed

(* The emitter changes the store by the store's own operations only, so what *)
(* the store promises holds with the emitter around it.                      *)
THEOREM StoreInSequence == Spec => [](PlacedInSequence /\ TrackerHasDoc)
<1>1. EInv => PlacedInSequence /\ TrackerHasDoc
  BY DEF EInv, StoreInv
<1> QED
  BY <1>1, InvarianceShown, PTL
=============================================================================
