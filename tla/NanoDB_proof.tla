---------------------------- MODULE NanoDB_proof ----------------------------
(***************************************************************************)
(* Proofs about NanoDB, for any documents, filters, projections, sortings, *)
(* patches and size of the collection.                                     *)
(***************************************************************************)
EXTENDS NanoDB, SequenceTheorems, FiniteSetTheorems, TLAPS

(* Induction up to N, in a form that sets alone can state: the least number *)
(* that is not in S would have a predecessor that is.                       *)
LEMMA Least ==
  ASSUME NEW n \in Nat, NEW S \in SUBSET (1..n), S # {}
  PROVE  \E m \in S : \A i \in S : m <= i
<1> DEFINE T == {1..i : i \in S}
           R == StrictSubsetOrdering(1..n)
<1>1. IsWellFoundedOn(R, FiniteSubsetsOf(1..n)) /\ FiniteSubsetsOf(1..n) = SUBSET (1..n)
  <2>1. IsFiniteSet(1..n)
    BY FS_Interval
  <2>2. FiniteSubsetsOf(1..n) = SUBSET (1..n)
    BY <2>1, FS_FiniteSubsetsOfFinite
  <2>3. IsWellFoundedOn(R, FiniteSubsetsOf(1..n))
    BY FS_StrictSubsetOrderingWellFounded
  <2> QED
    BY <2>2, <2>3
<1>2. T \subseteq SUBSET (1..n) /\ T # {}
  <2>1. \A i \in S : 1..i \subseteq 1..n
    OBVIOUS
  <2> QED
    BY <2>1
<1>3. \E x \in T : \A y \in T : ~(<<y, x>> \in R)
  <2> DEFINE U == SUBSET (1..n)
  <2>1. IsWellFoundedOn(R, U) /\ T \subseteq U /\ T # {}
    BY <1>1, <1>2
  <2> HIDE DEF T, R, U
  <2> QED
    BY <2>1, WFMin
<1>4. PICK m \in S : \A i \in S : ~(<<1..i, 1..m>> \in R)
  BY <1>3
<1>5. ASSUME NEW i \in S, i < m
      PROVE  FALSE
  <2>1. 1..i \subseteq 1..m /\ m \in 1..m /\ m \notin 1..i
    BY <1>5
  <2>2. <<1..i, 1..m>> \in R
    BY <2>1 DEF StrictSubsetOrdering
  <2> QED
    BY <1>4, <2>2
<1> QED
  BY <1>5

LEMMA Induct ==
  ASSUME NEW N \in Nat, NEW S, 0 \in S,
         \A n \in 0..(N - 1) : n \in S => n + 1 \in S
  PROVE  0..N \subseteq S
<1> SUFFICES ASSUME ~(0..N \subseteq S)
             PROVE  FALSE
  OBVIOUS
<1> DEFINE T == {n \in 1..N : n \notin S}
<1>1. T \in SUBSET (1..N) /\ T # {}
  OBVIOUS
<1>2. PICK m \in T : \A i \in T : m <= i
  BY <1>1, Least
<1>3. m - 1 \in 0..(N - 1) /\ m - 1 \in S
  BY <1>2
<1> QED
  BY <1>2, <1>3

-----------------------------------------------------------------------------
(* Folding a sequence, which the model does with FoldLeft: over the set of  *)
(* its indices, from the greatest down.                                     *)

\* A set of numbers up to n has a greatest one, which is what Max chooses.
LEMMA MaxIs ==
  ASSUME NEW n \in Nat, NEW s \in SUBSET (1..n), s # {}
  PROVE  Max(s) \in s /\ \A y \in s : Max(s) >= y
<1> DEFINE T == {n + 1 - i : i \in s}
<1>1. T \in SUBSET (1..n) /\ T # {}
  <2>1. \A i \in s : n + 1 - i \in 1..n
    OBVIOUS
  <2>2. PICK i \in s : TRUE
    OBVIOUS
  <2>3. n + 1 - i \in T
    OBVIOUS
  <2> QED
    BY <2>1, <2>3
<1>2. PICK m \in T : \A i \in T : m <= i
  <2> HIDE DEF T
  <2> QED
    BY <1>1, Least
<1>3. PICK i \in s : m = n + 1 - i
  BY <1>2
<1>4. \A y \in s : i >= y
  <2> TAKE y \in s
  <2>1. n + 1 - y \in T
    OBVIOUS
  <2>2. m <= n + 1 - y
    BY <1>2, <2>1
  <2> QED
    BY <1>3, <2>2
<1> QED
  BY <1>4 DEF Max

\* The greatest number up to n is n.
LEMMA MaxUpto ==
  ASSUME NEW n \in Nat, NEW s \in SUBSET (1..(n + 1)), n + 1 \in s
  PROVE  Max(s) = n + 1
<1>1. n + 1 \in Nat /\ s # {}
  OBVIOUS
<1>2. Max(s) \in s /\ \A y \in s : Max(s) >= y
  BY <1>1, MaxIs
<1>3. Max(s) \in 1..(n + 1) /\ Max(s) >= n + 1
  BY <1>2
<1> QED
  BY <1>3

\* The set of the numbers up to n, taken apart.
LEMMA UptoIs ==
  ASSUME NEW N \in Nat, NEW n \in 1..N
  PROVE  1..n \in SUBSET (1..N) /\ 1..n # {} /\ Max(1..n) = n /\ (1..n) \ {Max(1..n)} = 1..(n - 1)
<1>1. n - 1 \in Nat /\ n \in 1..n /\ n - 1 + 1 = n
  OBVIOUS
<1>2. Max(1..n) = n
  BY <1>1, MaxUpto
<1> QED
  BY <1>1, <1>2

Folds(f, T, N, base, step) ==
  /\ f \in [SUBSET (1..N) -> T]
  /\ \A s \in SUBSET (1..N) : f[s] = IF s = {} THEN base ELSE step[<<f[s \ {Max(s)}], Max(s)>>]

\* Whatever is done for each number, it can be done for all of them up to N.
LEMMA FoldExists ==
  ASSUME NEW T, NEW base \in T, NEW N \in Nat, NEW step \in [T \X (1..N) -> T]
  PROVE  \E f : Folds(f, T, N, base, step)
<1> DEFINE S == {n \in 0..N : \E f : Folds(f, T, n, base, step)}
<1>1. 0 \in S
  <2>1. SUBSET (1..0) = {{}}
    OBVIOUS
  <2>2. Folds([s \in SUBSET (1..0) |-> base], T, 0, base, step)
    BY <2>1 DEF Folds
  <2>3. \E f : Folds(f, T, 0, base, step)
    BY <2>2
  <2> QED
    BY <2>3
<1>2. ASSUME NEW n \in 0..(N - 1), n \in S
      PROVE  n + 1 \in S
  <2>0. n \in Nat /\ n + 1 \in Nat /\ n + 1 \in 1..N
    OBVIOUS
  <2>1. PICK f : Folds(f, T, n, base, step)
    BY <1>2
  <2> DEFINE g == [s \in SUBSET (1..(n + 1)) |-> IF n + 1 \in s THEN step[<<f[s \ {n + 1}], n + 1>>] ELSE f[s]]
  <2>2. ASSUME NEW s \in SUBSET (1..(n + 1))
        PROVE  /\ g[s] \in T
               /\ g[s] = IF s = {} THEN base ELSE step[<<g[s \ {Max(s)}], Max(s)>>]
    <3>1. CASE n + 1 \in s
      <4>1. s \ {n + 1} \in SUBSET (1..n) /\ s \ {n + 1} \in SUBSET (1..(n + 1))
        OBVIOUS
      <4>2. f[s \ {n + 1}] \in T
        BY <4>1, <2>1 DEF Folds
      <4>3. step[<<f[s \ {n + 1}], n + 1>>] \in T
        BY <4>2, <2>0
      <4>4. Max(s) = n + 1
        BY <3>1, <2>0, MaxUpto
      <4>5. g[s \ {n + 1}] = f[s \ {n + 1}] /\ g[s] = step[<<f[s \ {n + 1}], n + 1>>]
        BY <4>1, <3>1
      <4> HIDE DEF g
      <4> QED
        BY <3>1, <4>3, <4>4, <4>5
    <3>2. CASE n + 1 \notin s
      <4>1. s \in SUBSET (1..n)
        BY <3>2
      <4>2. s # {} => Max(s) \in s
        BY <4>1, <2>0, MaxIs
      <4>3. g[s] = f[s] /\ g[s \ {Max(s)}] = f[s \ {Max(s)}]
        BY <3>2
      <4>4. f[s] \in T /\ f[s] = IF s = {} THEN base ELSE step[<<f[s \ {Max(s)}], Max(s)>>]
        BY <2>1, <4>1 DEF Folds
      <4> HIDE DEF g
      <4> QED
        BY <4>3, <4>4
    <3> QED
      BY <3>1, <3>2
  <2>3. Folds(g, T, n + 1, base, step)
    <3>1. g = [s \in SUBSET (1..(n + 1)) |-> g[s]]
      OBVIOUS
    <3> HIDE DEF g
    <3> QED
      BY <2>2, <3>1 DEF Folds
  <2>4. \E h : Folds(h, T, n + 1, base, step)
    BY <2>3
  <2> QED
    BY <2>4
<1>3. 0..N \subseteq S
  <2> HIDE DEF S
  <2> QED
    BY <1>1, <1>2, Induct
<1> QED
  BY <1>3

-----------------------------------------------------------------------------
(* Documents, as a set.                                                     *)
Partial(V) == UNION {[K -> V] : K \in SUBSET Names}
Level == Partial(Scalar)
Value == Scalar \cup [nested : Level]
Doc == Partial(Value)

\* A partial function is a function whose keys are names and whose values are in V.
LEMMA PartialIs ==
  ASSUME NEW V, NEW f
  PROVE  f \in Partial(V) <=> /\ DOMAIN f \subseteq Names /\ f = [k \in DOMAIN f |-> f[k]]
                              /\ \A k \in DOMAIN f : f[k] \in V
<1>1. ASSUME f \in Partial(V)
      PROVE  DOMAIN f \subseteq Names /\ f = [k \in DOMAIN f |-> f[k]] /\ \A k \in DOMAIN f : f[k] \in V
  <2>1. PICK K \in SUBSET Names : f \in [K -> V]
    BY <1>1 DEF Partial
  <2> QED
    BY <2>1
<1>2. ASSUME DOMAIN f \subseteq Names, f = [k \in DOMAIN f |-> f[k]], \A k \in DOMAIN f : f[k] \in V
      PROVE  f \in Partial(V)
  <2>1. f \in [DOMAIN f -> V]
    BY <1>2
  <2> QED
    BY <1>2, <2>1 DEF Partial
<1> QED
  BY <1>1, <1>2

\* A scalar is a record with a type and a value, and is not nested.
LEMMA ScalarIs ==
  ASSUME NEW x \in Scalar
  PROVE  ~IsNested(x) /\ x.v \in {0, 1} /\ x.t \in {"num", "bool", "str"}
BY DEF Scalar, IsNested

\* What is nested in a document is a level of scalars.
LEMMA NestedIs ==
  ASSUME NEW x \in Value, IsNested(x)
  PROVE  x.nested \in Level /\ x = [nested |-> x.nested]
<1>1. x \notin Scalar
  BY ScalarIs
<1> QED
  BY <1>1 DEF Value

\* A level is a value, nested.
LEMMA NestIs ==
  ASSUME NEW l \in Level
  PROVE  [nested |-> l] \in Value /\ IsNested([nested |-> l]) /\ [nested |-> l].nested = l
BY DEF Value, IsNested

\* The model's documents are this set.
LEMMA DocIs ==
  ASSUME NEW d
  PROVE  IsDoc(d) <=> d \in Doc
<1>1. ASSUME NEW f
      PROVE  IsLevel(f) <=> f \in Level
  <2>1. f \in [DOMAIN f -> Scalar] <=> f = [k \in DOMAIN f |-> f[k]] /\ \A k \in DOMAIN f : f[k] \in Scalar
    OBVIOUS
  <2>2. f \in Partial(Scalar) <=> /\ DOMAIN f \subseteq Names /\ f = [k \in DOMAIN f |-> f[k]]
                                  /\ \A k \in DOMAIN f : f[k] \in Scalar
    BY PartialIs
  <2> QED
    BY <2>1, <2>2 DEF IsLevel, Level
<1>2. ASSUME NEW x
      PROVE  IsValue(x) <=> x \in Value
  <2>1. x \in [nested : Level] <=> x = [nested |-> x.nested] /\ x.nested \in Level
    OBVIOUS
  <2> QED
    BY <1>1, <2>1 DEF IsValue, Value
<1>3. d \in Partial(Value) <=> /\ DOMAIN d \subseteq Names /\ d = [k \in DOMAIN d |-> d[k]]
                               /\ \A k \in DOMAIN d : d[k] \in Value
  BY PartialIs
<1> QED
  BY <1>2, <1>3 DEF IsDoc, Doc

\* What With makes of a function.
LEMMA WithIs ==
  ASSUME NEW V, NEW f \in Partial(V), NEW k \in Names, NEW x \in V
  PROVE  /\ With(f, k, x) \in Partial(V) /\ DOMAIN With(f, k, x) = DOMAIN f \cup {k}
         /\ With(f, k, x)[k] = x /\ \A y \in DOMAIN f : y # k => With(f, k, x)[y] = f[y]
<1> DEFINE g == With(f, k, x)
<1>1. DOMAIN f \subseteq Names /\ \A y \in DOMAIN f : f[y] \in V
  BY PartialIs
<1>2. DOMAIN g = DOMAIN f \cup {k} /\ g = [y \in DOMAIN g |-> g[y]]
      /\ g[k] = x /\ \A y \in DOMAIN f : y # k => g[y] = f[y]
  BY DEF With
<1>3. DOMAIN g \subseteq Names /\ \A y \in DOMAIN g : g[y] \in V
  BY <1>1, <1>2
<1>4. g \in Partial(V)
  <2> HIDE DEF g
  <2> QED
    BY <1>2, <1>3, PartialIs
<1> QED
  BY <1>2, <1>4

\* What Without makes of a function.
LEMMA WithoutIs ==
  ASSUME NEW V, NEW f \in Partial(V), NEW k
  PROVE  /\ Without(f, k) \in Partial(V) /\ DOMAIN Without(f, k) = DOMAIN f \ {k}
         /\ \A y \in DOMAIN f : y # k => Without(f, k)[y] = f[y]
<1> DEFINE g == Without(f, k)
<1>1. DOMAIN f \subseteq Names /\ \A y \in DOMAIN f : f[y] \in V
  BY PartialIs
<1>2. DOMAIN g = DOMAIN f \ {k} /\ g = [y \in DOMAIN g |-> g[y]] /\ \A y \in DOMAIN f : y # k => g[y] = f[y]
  BY DEF Without
<1>3. DOMAIN g \subseteq Names /\ \A y \in DOMAIN g : g[y] \in V
  BY <1>1, <1>2
<1>4. g \in Partial(V)
  <2> HIDE DEF g
  <2> QED
    BY <1>2, <1>3, PartialIs
<1> QED
  BY <1>2, <1>4

\* The function with no key, which is also the empty sequence.
LEMMA EmptyIs == ASSUME NEW V PROVE <<>> \in Partial(V) /\ DOMAIN <<>> = {}
<1>1. DOMAIN <<>> = {} /\ <<>> = [k \in {} |-> k]
  OBVIOUS
<1>2. <<>> = [k \in DOMAIN <<>> |-> <<>>[k]]
  BY <1>1
<1> QED
  BY <1>1, <1>2, PartialIs

\* A path is one or two names.
LEMMA PathIs ==
  ASSUME NEW p \in Path
  PROVE  \/ Len(p) = 1 /\ p[1] \in Names /\ p = <<p[1]>>
         \/ Len(p) = 2 /\ p[1] \in Names /\ p[2] \in Names /\ p = <<p[1], p[2]>>
<1>1. ASSUME p \in [1..1 -> Names]
      PROVE  Len(p) = 1 /\ p[1] \in Names /\ p = <<p[1]>>
  BY <1>1
<1>2. ASSUME p \in [1..2 -> Names]
      PROVE  Len(p) = 2 /\ p[1] \in Names /\ p[2] \in Names /\ p = <<p[1], p[2]>>
  BY <1>2
<1> QED
  BY <1>1, <1>2 DEF Path

\* What is at a path of a document.
LEMMA AtIs ==
  ASSUME NEW d \in Doc, NEW p \in Path, Has(d, p)
  PROVE  At(d, p) \in Value /\ (Len(p) = 2 => At(d, p) \in Scalar)
<1>1. d \in Partial(Value)
  BY DEF Doc
<1>2. DOMAIN d \subseteq Names /\ \A k \in DOMAIN d : d[k] \in Value
  BY <1>1, PartialIs
<1>3. CASE Len(p) = 1
  BY <1>2, <1>3 DEF Has, At, Keys
<1>4. CASE Len(p) = 2
  <2>1. NestedAt(d, p[1]) /\ p[2] \in DOMAIN d[p[1]].nested
    BY <1>4 DEF Has
  <2>2. d[p[1]].nested \in Partial(Scalar)
    BY <2>1, <1>2, NestedIs DEF NestedAt, Keys, Level
  <2>3. d[p[1]].nested[p[2]] \in Scalar
    BY <2>1, <2>2, PartialIs
  <2> QED
    BY <1>4, <2>3 DEF At, Value
<1> QED
  BY <1>3, <1>4, PathIs

\* A document stays one when a value is put into it, not below what is nested in it.
LEMMA PutIs ==
  ASSUME NEW d \in Doc, NEW p \in Path, NEW x \in Value,
         Len(p) = 2 => x \in Scalar /\ NestedAt(d, p[1])
  PROVE  Put(d, p, x) \in Doc
<1>1. d \in Partial(Value)
  BY DEF Doc
<1>2. DOMAIN d \subseteq Names /\ \A k \in DOMAIN d : d[k] \in Value
  BY <1>1, PartialIs
<1>3. CASE Len(p) = 1
  BY <1>1, <1>3, PathIs, WithIs DEF Put, Doc
<1>4. CASE Len(p) = 2
  <2>1. p[1] \in Names /\ p[2] \in Names /\ x \in Scalar
    BY <1>4, PathIs
  <2>2. d[p[1]].nested \in Partial(Scalar)
    BY <1>4, <1>2, NestedIs DEF NestedAt, Keys, Level
  <2>3. With(d[p[1]].nested, p[2], x) \in Partial(Scalar)
    BY <2>1, <2>2, WithIs
  <2>4. [nested |-> With(d[p[1]].nested, p[2], x)] \in Value
    BY <2>3, NestIs DEF Level
  <2>5. With(d, p[1], [nested |-> With(d[p[1]].nested, p[2], x)]) \in Partial(Value)
    BY <1>1, <2>1, <2>4, WithIs
  <2> QED
    BY <1>4, <2>5 DEF Put, Doc
<1> QED
  BY <1>3, <1>4, PathIs

\* A document stays one when a key is taken out of it.
LEMMA PopIs ==
  ASSUME NEW d \in Doc, NEW p \in Path, Len(p) = 2 => NestedAt(d, p[1])
  PROVE  Pop(d, p) \in Doc
<1>1. d \in Partial(Value)
  BY DEF Doc
<1>2. DOMAIN d \subseteq Names /\ \A k \in DOMAIN d : d[k] \in Value
  BY <1>1, PartialIs
<1>3. CASE Len(p) = 1
  BY <1>1, <1>3, WithoutIs DEF Pop, Doc
<1>4. CASE Len(p) = 2
  <2>1. p[1] \in Names
    BY <1>4, PathIs
  <2>2. d[p[1]].nested \in Partial(Scalar)
    BY <1>4, <1>2, NestedIs DEF NestedAt, Keys, Level
  <2>3. Without(d[p[1]].nested, p[2]) \in Partial(Scalar)
    BY <2>2, WithoutIs
  <2>4. [nested |-> Without(d[p[1]].nested, p[2])] \in Value
    BY <2>3, NestIs DEF Level
  <2>5. With(d, p[1], [nested |-> Without(d[p[1]].nested, p[2])]) \in Partial(Value)
    BY <1>1, <2>1, <2>4, WithIs
  <2> QED
    BY <1>4, <2>5 DEF Pop, Doc
<1> QED
  BY <1>3, <1>4, PathIs

-----------------------------------------------------------------------------
(* Patches.                                                                 *)

\* An operation in the form of the standard, and its fields.
Operation ==
  [op : {"add", "replace", "test"}, path : Path, value : Scalar] \cup [op : {"remove"}, path : Path]
    \cup {o \in [op : {"move", "copy"}, from : Path, path : Path] : Len(o.path) = 1 \/ Len(o.from) = 2}

LEMMA OperationIs ==
  ASSUME NEW o \in Operation
  PROVE  /\ o.op \in {"add", "replace", "test", "remove", "move", "copy"} /\ o.path \in Path
         /\ o.op \in {"add", "replace", "test"} => o.value \in Scalar
         /\ o.op \in {"move", "copy"} => o.from \in Path /\ (Len(o.path) = 1 \/ Len(o.from) = 2)
<1>1. CASE o \in [op : {"add", "replace", "test"}, path : Path, value : Scalar]
  BY <1>1
<1>2. CASE o \in [op : {"remove"}, path : Path]
  BY <1>2
<1>3. CASE o \in {e \in [op : {"move", "copy"}, from : Path, path : Path] : Len(e.path) = 1 \/ Len(e.from) = 2}
  BY <1>3
<1> QED
  BY <1>1, <1>2, <1>3 DEF Operation

\* An operation that applies makes a document of a document.
LEMMA ApplyOpIs ==
  ASSUME NEW d \in Doc, NEW o \in Operation, OpApplies(d, o)
  PROVE  ApplyOp(d, o) \in Doc
<1> DEFINE p == o.path
<1>1. Scalar \subseteq Value /\ (Len(p) = 1 \/ Len(p) = 2) /\ p \in Path
  BY OperationIs, PathIs DEF Value
<1>2. \A e : Has(e, p) /\ Len(p) = 2 => NestedAt(e, p[1])
  BY DEF Has
<1>3. \A e : Reachable(e, p) /\ Len(p) = 2 => NestedAt(e, p[1])
  BY DEF Reachable
<1>4. CASE o.op \in {"add", "replace"}
  <2>1. o.value \in Scalar /\ (Len(p) = 2 => NestedAt(d, p[1]))
    BY <1>2, <1>3, <1>4, OperationIs DEF OpApplies
  <2>2. Put(d, p, o.value) \in Doc
    BY <1>1, <2>1, PutIs
  <2> QED
    BY <1>4, <2>2 DEF ApplyOp
<1>5. CASE o.op = "remove"
  <2>1. Len(p) = 2 => NestedAt(d, p[1])
    BY <1>2, <1>5 DEF OpApplies
  <2>2. Pop(d, p) \in Doc
    BY <1>1, <2>1, PopIs
  <2> QED
    BY <1>5, <2>2 DEF ApplyOp
<1>6. CASE o.op = "test"
  BY <1>6 DEF ApplyOp
<1>7. CASE o.op = "move"
  <2>1. o.from \in Path /\ (Len(p) = 1 \/ Len(o.from) = 2) /\ Has(d, o.from) /\ Reachable(Pop(d, o.from), p)
    BY <1>7, OperationIs DEF OpApplies
  <2>2. Pop(d, o.from) \in Doc
    BY <2>1, PopIs DEF Has
  <2>3. At(d, o.from) \in Value /\ (Len(p) = 2 => At(d, o.from) \in Scalar /\ NestedAt(Pop(d, o.from), p[1]))
    BY <1>3, <2>1, AtIs
  <2>4. Put(Pop(d, o.from), p, At(d, o.from)) \in Doc
    BY <1>1, <2>2, <2>3, PutIs
  <2> QED
    BY <1>7, <2>4 DEF ApplyOp
<1>8. CASE o.op = "copy"
  <2>1. o.from \in Path /\ (Len(p) = 1 \/ Len(o.from) = 2) /\ Has(d, o.from) /\ Reachable(d, p)
    BY <1>8, OperationIs DEF OpApplies
  <2>2. At(d, o.from) \in Value /\ (Len(p) = 2 => At(d, o.from) \in Scalar /\ NestedAt(d, p[1]))
    BY <1>3, <2>1, AtIs
  <2>3. Put(d, p, At(d, o.from)) \in Doc
    BY <1>1, <2>2, PutIs
  <2> QED
    BY <1>8, <2>3 DEF ApplyOp
<1> QED
  BY <1>4, <1>5, <1>6, <1>7, <1>8, OperationIs

Outcome == [ok : BOOLEAN, doc : Doc]
After(acc, o) == IF acc.ok /\ OpApplies(acc.doc, o)
                 THEN [ok |-> TRUE, doc |-> ApplyOp(acc.doc, o)]
                 ELSE [ok |-> FALSE, doc |-> acc.doc]

\* One operation makes an outcome of an outcome.
LEMMA AfterIs ==
  ASSUME NEW acc \in Outcome, NEW o \in Operation
  PROVE  After(acc, o) \in Outcome
<1>1. acc.ok \in BOOLEAN /\ acc.doc \in Doc
  BY DEF Outcome
<1>2. OpApplies(acc.doc, o) => ApplyOp(acc.doc, o) \in Doc
  BY <1>1, ApplyOpIs
<1>3. CASE acc.ok /\ OpApplies(acc.doc, o)
  BY <1>2, <1>3 DEF After, Outcome
<1>4. CASE ~(acc.ok /\ OpApplies(acc.doc, o))
  BY <1>1, <1>4 DEF After, Outcome
<1> QED
  BY <1>3, <1>4

\* A patch is applied one operation after the other.
LEMMA PatchedSteps ==
  ASSUME NEW d \in Doc, NEW patch \in Seq(Operation)
  PROVE  \E u \in [0..Len(patch) -> Outcome] :
           /\ u[0] = [ok |-> TRUE, doc |-> d]
           /\ \A n \in 1..Len(patch) : u[n] = After(u[n - 1], patch[n])
           /\ apply_patch(d, patch) = u[Len(patch)]
<1> DEFINE N == Len(patch)
           base == [ok |-> TRUE, doc |-> d]
           step == [q \in Outcome \X (1..N) |-> After(q[1], patch[q[2]])]
           Body(h, s) == IF s = {} THEN [ok |-> TRUE, doc |-> d]
                         ELSE After(h[s \ {Max(s)}], patch[Max(s)])
           iter == CHOOSE h : h = [s \in SUBSET (1..N) |-> Body(h, s)]
<1>1. N \in Nat /\ base \in Outcome /\ DOMAIN patch = 1..N /\ \A n \in 1..N : patch[n] \in Operation
  BY DEF Outcome
<1>2. step \in [Outcome \X (1..N) -> Outcome]
  BY <1>1, AfterIs
<1>3. PICK f : Folds(f, Outcome, N, base, step)
  <2> HIDE DEF base, step
  <2> QED
    BY <1>1, <1>2, FoldExists
<1>4. apply_patch(d, patch) = iter[1..N]
  BY <1>1 DEF apply_patch, FoldLeft, MapThenFoldSet, After
<1>5. f = [s \in SUBSET (1..N) |-> Body(f, s)]
  <2>1. ASSUME NEW s \in SUBSET (1..N)
        PROVE  f[s] = Body(f, s)
    <3>1. s # {} => f[s \ {Max(s)}] \in Outcome /\ Max(s) \in 1..N
      BY <1>1, <1>3, MaxIs DEF Folds
    <3> QED
      BY <1>3, <3>1 DEF Folds
  <2>2. f = [s \in SUBSET (1..N) |-> f[s]]
    BY <1>3 DEF Folds
  <2> HIDE DEF Body
  <2> QED
    BY <2>1, <2>2
<1>6. iter = [s \in SUBSET (1..N) |-> Body(iter, s)]
  <2> HIDE DEF Body
  <2> QED
    BY <1>5
<1> HIDE DEF iter
<1> DEFINE u == [n \in 0..N |-> iter[1..n]]
<1>7. u[0] = base
  <2>1. 0 \in 0..N /\ 1..0 = {} /\ {} \in SUBSET (1..N)
    BY <1>1
  <2> QED
    BY <1>6, <2>1
<1>8. ASSUME NEW n \in 1..N
      PROVE  u[n] = After(u[n - 1], patch[n])
  <2>1. n \in 0..N /\ n - 1 \in 0..N
    BY <1>1
  <2>2. iter[1..n] = Body(iter, 1..n)
    <3> HIDE DEF Body
    <3> QED
      BY <1>1, <1>6, UptoIs
  <2> QED
    BY <1>1, <2>1, <2>2, UptoIs
<1>9. u \in [0..N -> Outcome]
  <2> DEFINE S == {n \in 0..N : u[n] \in Outcome}
  <2> HIDE DEF u
  <2>1. 0 \in S
    <3>1. 0 \in 0..N /\ u[0] \in Outcome
      BY <1>1, <1>7
    <3> QED
      BY <3>1
  <2>2. ASSUME NEW n \in 0..(N - 1), n \in S
        PROVE  n + 1 \in S
    <3>1. n + 1 \in 1..N /\ n + 1 \in 0..N /\ n + 1 - 1 = n
      BY <1>1
    <3>2. u[n + 1] = After(u[n], patch[n + 1])
      BY <1>8, <3>1
    <3> QED
      BY <1>1, <2>2, <3>1, <3>2, AfterIs
  <2>3. 0..N \subseteq S
    <3> HIDE DEF S
    <3> QED
      BY <1>1, <2>1, <2>2, Induct
  <2> QED
    BY <2>3 DEF u
<1>10. apply_patch(d, patch) = u[N]
  BY <1>1, <1>4
<1> QED
  <2> HIDE DEF u
  <2> QED
    BY <1>7, <1>8, <1>9, <1>10

-----------------------------------------------------------------------------
(* Sorting: a stable pass, for any documents.                               *)
Ahead(acc, d, k) == {i \in DOMAIN acc : ~Before(d, acc[i], k)}
Placed(acc, d, k) == InsertAt(acc, 1 + Cardinality(Ahead(acc, d, k)), d)

\* A set of numbers up to n has at most n members.
LEMMA CountIs ==
  ASSUME NEW n \in Nat, NEW s \in SUBSET (1..n)
  PROVE  IsFiniteSet(s) /\ Cardinality(s) \in 0..n
<1>1. IsFiniteSet(1..n) /\ Cardinality(1..n) = n
  BY FS_Interval
<1>2. IsFiniteSet(s) /\ Cardinality(s) <= n
  BY <1>1, FS_Subset
<1> QED
  BY <1>2, FS_CardinalityType

\* What inserting into a sequence makes of it.
LEMMA InsertIs ==
  ASSUME NEW D, NEW s \in Seq(D), NEW i \in 1..(Len(s) + 1), NEW e \in D
  PROVE  /\ InsertAt(s, i, e) \in Seq(D) /\ Len(InsertAt(s, i, e)) = Len(s) + 1
         /\ InsertAt(s, i, e)[i] = e
         /\ \A j \in 1..(i - 1) : InsertAt(s, i, e)[j] = s[j]
         /\ \A j \in i..Len(s) : InsertAt(s, i, e)[j + 1] = s[j]
<1> DEFINE a == SubSeq(s, 1, i - 1)
           b == SubSeq(s, i, Len(s))
<1>1. a \in Seq(D) /\ Len(a) = i - 1 /\ \A j \in 1..(i - 1) : a[j] = s[j]
  <2>1. \A j \in 1..(i - 1) : s[j] \in D
    OBVIOUS
  <2> QED
    BY <2>1, SubSeqProperties
<1>2. b \in Seq(D) /\ Len(b) = Len(s) - i + 1 /\ \A j \in 1..(Len(s) - i + 1) : b[j] = s[i + j - 1]
  <2>1. \A j \in i..Len(s) : s[j] \in D
    OBVIOUS
  <2> QED
    BY <2>1, SubSeqProperties
<1> DEFINE c == a \o <<e>>
<1>3. c \in Seq(D) /\ Len(c) = i /\ c[i] = e /\ \A j \in 1..(i - 1) : c[j] = s[j]
  <2> HIDE DEF a, b
  <2> QED
    BY <1>1
<1>4. c \o b \in Seq(D) /\ Len(c \o b) = Len(s) + 1
  <2> HIDE DEF b, c
  <2>0. c \in Seq(D) /\ b \in Seq(D)
    BY <1>2, <1>3
  <2>1. c \o b \in Seq(D) /\ Len(c \o b) = Len(c) + Len(b)
    BY <2>0
  <2>2. Len(c) = i /\ Len(b) = Len(s) - i + 1 /\ Len(s) \in Nat /\ i \in Nat
    BY <1>2, <1>3
  <2> QED
    BY <2>1, <2>2
<1>5. \A j \in 1..i : (c \o b)[j] = c[j]
  <2> HIDE DEF b, c
  <2> QED
    BY <1>2, <1>3
<1>6. ASSUME NEW j \in i..Len(s)
      PROVE  (c \o b)[j + 1] = s[j]
  <2>1. (c \o b)[j + 1] = b[j + 1 - i]
    <3> HIDE DEF b, c
    <3> QED
      BY <1>2, <1>3, <1>4
  <2>2. j + 1 - i \in 1..(Len(s) - i + 1) /\ i + (j + 1 - i) - 1 = j
    OBVIOUS
  <2> QED
    BY <1>2, <2>1, <2>2
<1>7. InsertAt(s, i, e) = c \o b
  BY DEF InsertAt
<1> DEFINE r == c \o b
<1>8. r[i] = e /\ \A j \in 1..(i - 1) : r[j] = s[j]
  <2>1. i \in 1..i /\ \A j \in 1..(i - 1) : j \in 1..i
    OBVIOUS
  <2> HIDE DEF b, c
  <2> QED
    BY <1>3, <1>5, <2>1
<1> HIDE DEF a, b, c
<1>9. r \in Seq(D) /\ Len(r) = Len(s) + 1 /\ \A j \in i..Len(s) : r[j + 1] = s[j]
  BY <1>4, <1>6
<1> HIDE DEF r
<1> QED
  BY <1>7, <1>8, <1>9 DEF r

\* A document is placed somewhere in a sequence.
LEMMA PlaceIs ==
  ASSUME NEW acc, NEW n \in Nat, DOMAIN acc = 1..n, NEW d, NEW k
  PROVE  1 + Cardinality(Ahead(acc, d, k)) \in 1..(n + 1)
<1>1. Ahead(acc, d, k) \in SUBSET (1..n)
  BY DEF Ahead
<1>2. Cardinality(Ahead(acc, d, k)) \in 0..n
  BY <1>1, CountIs
<1> QED
  BY <1>2

\* Placing keeps a sequence of documents one.
LEMMA PlacedIs ==
  ASSUME NEW D, NEW acc \in Seq(D), NEW d \in D, NEW k
  PROVE  Placed(acc, d, k) \in Seq(D)
<1>1. 1 + Cardinality(Ahead(acc, d, k)) \in 1..(Len(acc) + 1)
  BY PlaceIs
<1> QED
  BY <1>1, InsertIs DEF Placed

SortedBy(u, D, s, k) == /\ u \in [0..Len(s) -> Seq(D)] /\ u[0] = <<>>
                        /\ \A n \in 1..Len(s) : u[n] = Placed(u[n - 1], s[n], k)
                        /\ StableSort(s, k) = u[Len(s)]

\* A pass places one document after the other.
LEMMA StableSortSteps ==
  ASSUME NEW D, NEW s \in Seq(D), NEW k
  PROVE  \E u : SortedBy(u, D, s, k)
<1> DEFINE N == Len(s)
           base == <<>>
           step == [q \in (Seq(D)) \X (1..N) |-> Placed(q[1], s[q[2]], k)]
           Body(h, s_) == IF s_ = {} THEN <<>>
                          ELSE Placed(h[s_ \ {Max(s_)}], s[Max(s_)], k)
           iter == CHOOSE h : h = [s_ \in SUBSET (1..N) |-> Body(h, s_)]
<1>1. N \in Nat /\ base \in Seq(D) /\ DOMAIN s = 1..N /\ \A n \in 1..N : s[n] \in D
  OBVIOUS
<1>2. step \in [(Seq(D)) \X (1..N) -> Seq(D)]
  BY <1>1, PlacedIs
<1>3. PICK f : Folds(f, Seq(D), N, base, step)
  <2> HIDE DEF base, step
  <2> QED
    BY <1>1, <1>2, FoldExists
<1>4. StableSort(s, k) = iter[1..N]
  BY <1>1 DEF StableSort, Placed, Ahead, FoldLeft, MapThenFoldSet
<1>5. f = [s_ \in SUBSET (1..N) |-> Body(f, s_)]
  <2>1. ASSUME NEW s_ \in SUBSET (1..N)
        PROVE  f[s_] = Body(f, s_)
    <3>1. s_ # {} => f[s_ \ {Max(s_)}] \in Seq(D) /\ Max(s_) \in 1..N
      BY <1>1, <1>3, MaxIs DEF Folds
    <3> QED
      BY <1>3, <3>1 DEF Folds
  <2>2. f = [s_ \in SUBSET (1..N) |-> f[s_]]
    BY <1>3 DEF Folds
  <2> HIDE DEF Body
  <2> QED
    BY <2>1, <2>2
<1>6. iter = [s_ \in SUBSET (1..N) |-> Body(iter, s_)]
  <2> HIDE DEF Body
  <2> QED
    BY <1>5
<1> HIDE DEF iter
<1> DEFINE u == [n \in 0..N |-> iter[1..n]]
<1>7. u[0] = base
  <2>1. 0 \in 0..N /\ 1..0 = {} /\ {} \in SUBSET (1..N)
    BY <1>1
  <2> QED
    BY <1>6, <2>1
<1>8. ASSUME NEW n \in 1..N
      PROVE  u[n] = Placed(u[n - 1], s[n], k)
  <2>1. n \in 0..N /\ n - 1 \in 0..N
    BY <1>1
  <2>2. iter[1..n] = Body(iter, 1..n)
    <3> HIDE DEF Body
    <3> QED
      BY <1>1, <1>6, UptoIs
  <2> QED
    BY <1>1, <2>1, <2>2, UptoIs
<1>9. u \in [0..N -> Seq(D)]
  <2> DEFINE S == {n \in 0..N : u[n] \in Seq(D)}
  <2> HIDE DEF u
  <2>1. 0 \in S
    <3>1. 0 \in 0..N /\ u[0] \in Seq(D)
      BY <1>1, <1>7
    <3> QED
      BY <3>1
  <2>2. ASSUME NEW n \in 0..(N - 1), n \in S
        PROVE  n + 1 \in S
    <3>1. n + 1 \in 1..N /\ n + 1 \in 0..N /\ n + 1 - 1 = n
      BY <1>1
    <3>2. u[n + 1] = Placed(u[n], s[n + 1], k)
      BY <1>8, <3>1
    <3> QED
      BY <1>1, <2>2, <3>1, <3>2, PlacedIs
  <2>3. 0..N \subseteq S
    <3> HIDE DEF S
    <3> QED
      BY <1>1, <2>1, <2>2, Induct
  <2> QED
    BY <2>3 DEF u
<1>10. StableSort(s, k) = u[N]
  BY <1>1, <1>4
<1> QED
  <2> HIDE DEF u
  <2> QED
    BY <1>7, <1>8, <1>9, <1>10 DEF SortedBy

\* The sequence u holds the first n members of s, in the places h tells.
Rearranges(h, n, s, u) ==
  /\ h \in [1..n -> 1..n] /\ \A i, j \in 1..n : h[i] = h[j] => i = j
  /\ Len(u) = n /\ \A i \in 1..n : u[i] = s[h[i]]

\* It is sorted, and what is equal in it stays in the order it was in.
Stable(h, n, u, k) ==
  \A i, j \in 1..n : i < j => Before(u[i], u[j], k) \/ (~Before(u[j], u[i], k) /\ h[i] < h[j])

\* The documents of a sequence have numbers to be compared by.
Comparable(s, k) == k.desc \in BOOLEAN /\ \A i \in DOMAIN s : s[i][k.key].v \in Int

\* A set of numbers that holds with each of its members all smaller ones.
LEMMA PrefixIs ==
  ASSUME NEW n \in Nat, NEW S \in SUBSET (1..n), \A j \in S : \A i \in 1..n : i < j => i \in S
  PROVE  S = 1..Cardinality(S)
<1>1. CASE S = {}
  BY <1>1, FS_EmptySet
<1>2. CASE S # {}
  <2>1. Max(S) \in S /\ \A y \in S : Max(S) >= y
    BY <1>2, MaxIs
  <2>2. Max(S) \in 1..n
    BY <2>1
  <2> DEFINE m == Max(S)
  <2>3. S = 1..m
    <3>1. m \in S /\ m \in 1..n /\ \A y \in S : m >= y
      BY <2>1, <2>2
    <3> HIDE DEF m
    <3>2. \A i \in 1..m : i = m \/ (i \in 1..n /\ i < m)
      BY <3>1
    <3>3. \A i \in 1..m : i \in S
      BY <3>1, <3>2
    <3>4. \A y \in S : y \in 1..m
      BY <3>1
    <3> QED
      BY <3>3, <3>4
  <2>4. Cardinality(1..m) = m
    BY <2>2, FS_Interval
  <2> QED
    BY <2>3, <2>4
<1> QED
  BY <1>1, <1>2

\* Where placing a document leaves it and the others.
Where(h, n, p) == [i \in 1..(n + 1) |-> IF i < p THEN h[i] ELSE IF i = p THEN n + 1 ELSE h[i - 1]]

\* Placing the next document rearranges one more.
LEMMA PlaceRearranges ==
  ASSUME NEW D, NEW s \in Seq(D), NEW n \in Nat, n + 1 \in 1..Len(s), NEW acc \in Seq(D), NEW h,
         Rearranges(h, n, s, acc), NEW p \in 1..(n + 1)
  PROVE  Rearranges(Where(h, n, p), n + 1, s, InsertAt(acc, p, s[n + 1]))
<1> DEFINE g == Where(h, n, p)
           u == InsertAt(acc, p, s[n + 1])
<1>1. h \in [1..n -> 1..n] /\ \A i, j \in 1..n : h[i] = h[j] => i = j
  BY DEF Rearranges
<1>2. Len(acc) = n /\ \A i \in 1..n : acc[i] = s[h[i]]
  BY DEF Rearranges
<1>3. s[n + 1] \in D
  OBVIOUS
<1>4. /\ Len(u) = n + 1 /\ u[p] = s[n + 1]
      /\ \A j \in 1..(p - 1) : u[j] = acc[j]
      /\ \A j \in p..n : u[j + 1] = acc[j]
  <2>1. p \in 1..(Len(acc) + 1)
    BY <1>2
  <2>2. /\ Len(u) = Len(acc) + 1 /\ u[p] = s[n + 1]
        /\ \A j \in 1..(p - 1) : u[j] = acc[j]
        /\ \A j \in p..Len(acc) : u[j + 1] = acc[j]
    BY <1>3, <2>1, InsertIs
  <2> QED
    BY <1>2, <2>2
<1>5. ASSUME NEW i \in 1..(n + 1)
      PROVE  /\ g[i] \in 1..(n + 1) /\ u[i] = s[g[i]]
             /\ i < p => i \in 1..n /\ g[i] = h[i]
             /\ i = p => g[i] = n + 1
             /\ i > p => i - 1 \in 1..n /\ g[i] = h[i - 1]
  <2>1. CASE i < p
    <3>1. i \in 1..n /\ i \in 1..(p - 1) /\ g[i] = h[i] /\ h[i] \in 1..n
      BY <1>1, <2>1 DEF Where
    <3> QED
      BY <1>2, <1>4, <2>1, <3>1
  <2>2. CASE i = p
    BY <1>4, <2>2 DEF Where
  <2>3. CASE i > p
    <3>1. i - 1 \in 1..n /\ i - 1 \in p..n /\ g[i] = h[i - 1] /\ i - 1 + 1 = i
      BY <2>3 DEF Where
    <3>2. h[i - 1] \in 1..n
      BY <1>1, <3>1
    <3>3. u[i] = acc[i - 1]
      BY <1>4, <3>1
    <3> QED
      BY <1>2, <2>3, <3>1, <3>2, <3>3
  <2> QED
    BY <2>1, <2>2, <2>3
<1>6. g = [i \in 1..(n + 1) |-> g[i]]
  BY DEF Where
<1>7. ASSUME NEW i \in 1..(n + 1), NEW j \in 1..(n + 1), g[i] = g[j]
      PROVE  i = j
  <2> HIDE DEF g, u
  <2> DEFINE from(x) == IF x < p THEN x ELSE x - 1
  <2>1. \A l \in 1..n : h[l] \in 1..n /\ h[l] # n + 1
    BY <1>1
  <2>2. ASSUME NEW x \in 1..(n + 1)
        PROVE  \/ x = p /\ g[x] = n + 1
               \/ x # p /\ from(x) \in 1..n /\ g[x] = h[from(x)] /\ g[x] # n + 1
    <3>1. x < p \/ x = p \/ x > p
      OBVIOUS
    <3> QED
      BY <1>5, <2>1, <3>1
  <2>3. CASE i = p
    BY <1>7, <2>2, <2>3
  <2>4. CASE j = p
    BY <1>7, <2>2, <2>4
  <2>5. CASE i # p /\ j # p
    <3>1. from(i) \in 1..n /\ from(j) \in 1..n /\ h[from(i)] = h[from(j)]
      BY <1>7, <2>2, <2>5
    <3>2. from(i) = from(j)
      <4> HIDE DEF from
      <4> QED
        BY <1>1, <3>1
    <3> QED
      BY <2>5, <3>2
  <2> QED
    BY <2>3, <2>4, <2>5
<1> HIDE DEF g, u
<1>8. g \in [1..(n + 1) -> 1..(n + 1)]
  BY <1>5, <1>6
<1>9. Rearranges(g, n + 1, s, u)
  BY <1>4, <1>5, <1>7, <1>8 DEF Rearranges
<1> QED
  BY <1>9 DEF g, u

\* Before orders documents that can be compared.
LEMMA BeforeIs ==
  ASSUME NEW x, NEW y, NEW z, NEW k, k.desc \in BOOLEAN, x[k.key].v \in Int, y[k.key].v \in Int, z[k.key].v \in Int
  PROVE  /\ ~(Before(x, y, k) /\ Before(y, x, k))
         /\ ~Before(x, y, k) /\ ~Before(y, z, k) => ~Before(x, z, k)
BY DEF Before

\* Placing the next document behind what it does not come before keeps the order stable.
LEMMA PlaceStable ==
  ASSUME NEW D, NEW s \in Seq(D), NEW n \in Nat, n + 1 \in 1..Len(s), NEW acc \in Seq(D), NEW h,
         Rearranges(h, n, s, acc), NEW k, Comparable(s, k), Stable(h, n, acc, k),
         NEW p \in 1..(n + 1), p = 1 + Cardinality(Ahead(acc, s[n + 1], k))
  PROVE  Stable(Where(h, n, p), n + 1, InsertAt(acc, p, s[n + 1]), k)
<1> DEFINE g == Where(h, n, p)
           d == s[n + 1]
           u == InsertAt(acc, p, d)
           A == Ahead(acc, d, k)
<1>1. h \in [1..n -> 1..n]
  BY DEF Rearranges
<1>2. Len(acc) = n /\ DOMAIN acc = 1..n /\ \A i \in 1..n : acc[i] = s[h[i]]
  BY DEF Rearranges
<1>3. d \in D /\ d[k.key].v \in Int
  BY DEF Comparable
<1>4. k.desc \in BOOLEAN /\ \A i \in 1..n : acc[i][k.key].v \in Int
  <2>1. \A i \in 1..n : h[i] \in DOMAIN s
    BY <1>1
  <2> QED
    BY <1>2, <2>1 DEF Comparable
<1>5. /\ u[p] = d
      /\ \A j \in 1..(p - 1) : u[j] = acc[j]
      /\ \A j \in p..n : u[j + 1] = acc[j]
  <2>1. p \in 1..(Len(acc) + 1)
    BY <1>2
  <2>2. /\ Len(u) = Len(acc) + 1 /\ u[p] = s[n + 1]
        /\ \A j \in 1..(p - 1) : u[j] = acc[j]
        /\ \A j \in p..Len(acc) : u[j + 1] = acc[j]
    BY <1>3, <2>1, InsertIs
  <2> QED
    BY <1>2, <2>2
<1>6. A \in SUBSET (1..n) /\ \A i \in 1..n : i \in A <=> ~Before(d, acc[i], k)
  BY <1>2 DEF Ahead
<1>7. ASSUME NEW j \in A, NEW i \in 1..n, i < j
      PROVE  i \in A
  <2>1. ~Before(d, acc[j], k) /\ j \in 1..n
    BY <1>6
  <2>2. Before(acc[i], acc[j], k) \/ ~Before(acc[j], acc[i], k)
    BY <1>7, <2>1 DEF Stable
  <2>3. ~Before(acc[j], acc[i], k)
    <3>1. acc[i][k.key].v \in Int /\ acc[j][k.key].v \in Int /\ k.desc \in BOOLEAN
      BY <1>4, <2>1
    <3>2. ~(Before(acc[i], acc[j], k) /\ Before(acc[j], acc[i], k))
      BY <3>1, BeforeIs
    <3> QED
      BY <2>2, <3>2
  <2>4. ~Before(d, acc[i], k)
    <3>1. /\ k.desc \in BOOLEAN /\ d[k.key].v \in Int
          /\ acc[j][k.key].v \in Int /\ acc[i][k.key].v \in Int
      BY <1>3, <1>4, <2>1
    <3> HIDE DEF d
    <3> QED
      BY <2>1, <2>3, <3>1, BeforeIs
  <2> QED
    BY <1>6, <2>4
<1>8. A = 1..(p - 1)
  <2>1. A = 1..Cardinality(A)
    <3> HIDE DEF A, d
    <3> QED
      BY <1>6, <1>7, PrefixIs
  <2>2. Cardinality(A) \in 0..n
    BY <1>6, CountIs
  <2> QED
    BY <2>1, <2>2
<1>9. ASSUME NEW i \in 1..n
      PROVE  (i < p => ~Before(d, acc[i], k)) /\ (i >= p => Before(d, acc[i], k))
  <2>1. i \in A <=> i < p
    <3> HIDE DEF A
    <3> QED
      BY <1>8
  <2> HIDE DEF A, d
  <2> QED
    BY <1>6, <2>1
<1> HIDE DEF A
<1>10. ASSUME NEW i \in 1..(n + 1), NEW j \in 1..(n + 1), i < j
       PROVE  Before(u[i], u[j], k) \/ (~Before(u[j], u[i], k) /\ g[i] < g[j])
  <2>1. CASE j < p
    <3>1. i \in 1..n /\ j \in 1..n /\ g[i] = h[i] /\ g[j] = h[j] /\ u[i] = acc[i] /\ u[j] = acc[j]
      BY <1>5, <1>10, <2>1 DEF Where
    <3> QED
      BY <1>10, <3>1 DEF Stable
  <2>2. CASE j = p
    <3>0. i \in 1..n /\ i \in 1..(p - 1) /\ i < p
      BY <1>10, <2>2
    <3>1. i \in 1..n /\ g[i] = h[i] /\ g[j] = n + 1 /\ u[i] = acc[i] /\ u[j] = d
      <4>1. g[i] = h[i] /\ g[j] = n + 1
        BY <2>2, <3>0 DEF Where
      <4>2. u[i] = acc[i] /\ u[j] = d
        BY <1>5, <2>2, <3>0
      <4> QED
        BY <3>0, <4>1, <4>2
    <3>2. h[i] \in 1..n
      BY <1>1, <3>1
    <3>3. g[i] < g[j]
      BY <3>1, <3>2
    <3> QED
      BY <1>9, <1>10, <2>2, <3>1, <3>3
  <2>3. CASE j > p /\ i < p
    <3>1. i \in 1..n /\ j - 1 \in 1..n /\ i < j - 1 /\ g[i] = h[i] /\ g[j] = h[j - 1]
      BY <2>3 DEF Where
    <3>2. u[i] = acc[i]
      BY <1>5, <2>3
    <3>3. u[j] = acc[j - 1]
      <4>1. j - 1 \in p..n /\ j - 1 + 1 = j
        BY <2>3
      <4> QED
        BY <1>5, <4>1
    <3> QED
      BY <3>1, <3>2, <3>3 DEF Stable
  <2>4. CASE i = p
    <3>1. j - 1 \in p..n /\ j - 1 + 1 = j /\ j - 1 \in 1..n
      BY <1>10, <2>4
    <3>2. u[i] = d /\ u[j] = acc[j - 1]
      BY <1>5, <2>4, <3>1
    <3> QED
      BY <1>9, <3>1, <3>2
  <2>5. CASE i > p
    <3>1. i - 1 \in p..n /\ i - 1 + 1 = i /\ j - 1 \in p..n /\ j - 1 + 1 = j
      BY <1>10, <2>5
    <3>2. i - 1 \in 1..n /\ j - 1 \in 1..n /\ i - 1 < j - 1 /\ g[i] = h[i - 1] /\ g[j] = h[j - 1]
      BY <1>10, <2>5 DEF Where
    <3>3. u[i] = acc[i - 1] /\ u[j] = acc[j - 1]
      BY <1>5, <3>1
    <3> QED
      BY <3>2, <3>3 DEF Stable
  <2> QED
    BY <1>10, <2>1, <2>2, <2>3, <2>4, <2>5
<1> HIDE DEF g, u
<1>11. Stable(g, n + 1, u, k)
  BY <1>10 DEF Stable
<1> QED
  BY <1>11 DEF g, u

\* A pass rearranges the sequence, and what it sorts it sorts stably.
LEMMA StableSortIs ==
  ASSUME NEW D, NEW s \in Seq(D), NEW k
  PROVE  /\ StableSort(s, k) \in Seq(D)
         /\ \E h : /\ Rearranges(h, Len(s), s, StableSort(s, k))
                   /\ Comparable(s, k) => Stable(h, Len(s), StableSort(s, k), k)
<1> DEFINE N == Len(s)
<1>0. PICK u : SortedBy(u, D, s, k)
  BY StableSortSteps
<1>1. /\ u \in [0..N -> Seq(D)] /\ u[0] = <<>>
      /\ \A n \in 1..N : u[n] = Placed(u[n - 1], s[n], k)
      /\ StableSort(s, k) = u[N]
  BY <1>0 DEF SortedBy
<1> DEFINE Good(n, h) == Rearranges(h, n, s, u[n]) /\ (Comparable(s, k) => Stable(h, n, u[n], k))
           Q == {n \in 0..N : \E h : Good(n, h)}
<1>2. N \in Nat
  OBVIOUS
<1>3. 0 \in Q
  <2>1. Good(0, [i \in 1..0 |-> i])
    BY <1>1 DEF Rearranges, Stable
  <2>2. \E h : Good(0, h)
    BY <2>1
  <2> QED
    BY <1>2, <2>2
<1>4. ASSUME NEW n \in 0..(N - 1), n \in Q
      PROVE  n + 1 \in Q
  <2>1. n \in Nat /\ n \in 0..N /\ n + 1 \in 1..N /\ n + 1 \in 0..N /\ n + 1 - 1 = n /\ s[n + 1] \in D
    BY <1>2
  <2>2. PICK h : Good(n, h)
    BY <1>4
  <2>3. u[n] \in Seq(D) /\ Rearranges(h, n, s, u[n]) /\ DOMAIN u[n] = 1..n
    <3>1. u[n] \in Seq(D) /\ Rearranges(h, n, s, u[n])
      BY <1>1, <2>1, <2>2
    <3>2. Len(u[n]) = n
      BY <3>1 DEF Rearranges
    <3> QED
      BY <3>1, <3>2
  <2> DEFINE p == 1 + Cardinality(Ahead(u[n], s[n + 1], k))
  <2>4. p \in 1..(n + 1)
    BY <2>1, <2>3, PlaceIs
  <2>5. u[n + 1] = InsertAt(u[n], p, s[n + 1])
    BY <1>1, <2>1 DEF Placed
  <2>6. Rearranges(Where(h, n, p), n + 1, s, u[n + 1])
    <3> HIDE DEF p
    <3> QED
      BY <2>1, <2>3, <2>4, <2>5, PlaceRearranges
  <2>7. Comparable(s, k) => Stable(Where(h, n, p), n + 1, u[n + 1], k)
    <3> SUFFICES ASSUME Comparable(s, k)
                 PROVE  Stable(Where(h, n, p), n + 1, u[n + 1], k)
      OBVIOUS
    <3>1. Stable(h, n, u[n], k)
      BY <2>2
    <3>2. p = 1 + Cardinality(Ahead(u[n], s[n + 1], k))
      OBVIOUS
    <3> HIDE DEF p
    <3> QED
      BY <2>1, <2>3, <2>4, <2>5, <3>1, <3>2, PlaceStable
  <2>8. Good(n + 1, Where(h, n, p))
    BY <2>6, <2>7
  <2>9. \E g : Good(n + 1, g)
    <3> HIDE DEF Good, p
    <3> QED
      BY <2>8
  <2> QED
    BY <2>1, <2>9
<1>5. 0..N \subseteq Q
  <2> HIDE DEF Q
  <2> QED
    BY <1>2, <1>3, <1>4, Induct
<1>6. N \in Q
  <2> HIDE DEF Q
  <2> QED
    BY <1>2, <1>5
<1>7. PICK h : Good(N, h)
  BY <1>6
<1> QED
  BY <1>1, <1>2, <1>7

Along(h, g, n) == [i \in 1..n |-> h[g[i]]]

\* What rearranges a rearrangement rearranges the sequence it was made of.
LEMMA RearrangeTwice ==
  ASSUME NEW n \in Nat, NEW s, NEW t, NEW u, NEW h, NEW g, Rearranges(h, n, s, t), Rearranges(g, n, t, u)
  PROVE  Rearranges(Along(h, g, n), n, s, u)
<1>1. h \in [1..n -> 1..n] /\ g \in [1..n -> 1..n]
  BY DEF Rearranges
<1>2. \A i, j \in 1..n : h[g[i]] = h[g[j]] => i = j
  <2> TAKE i, j \in 1..n
  <2>1. g[i] \in 1..n /\ g[j] \in 1..n
    BY <1>1
  <2>2. h[g[i]] = h[g[j]] => g[i] = g[j]
    BY <2>1 DEF Rearranges
  <2> QED
    BY <2>2 DEF Rearranges
<1>3. Len(u) = n /\ \A i \in 1..n : u[i] = s[h[g[i]]]
  <2>1. \A i \in 1..n : u[i] = t[g[i]] /\ g[i] \in 1..n
    BY <1>1 DEF Rearranges
  <2> QED
    BY <2>1 DEF Rearranges
<1>4. Along(h, g, n) \in [1..n -> 1..n] /\ \A i \in 1..n : Along(h, g, n)[i] = h[g[i]]
  BY <1>1 DEF Along
<1> DEFINE a == Along(h, g, n)
<1>5. \A i, j \in 1..n : a[i] = a[j] => i = j
  BY <1>2, <1>4
<1>6. \A i \in 1..n : u[i] = s[a[i]]
  BY <1>3, <1>4
<1> HIDE DEF a
<1>7. Rearranges(a, n, s, u)
  BY <1>3, <1>4, <1>5, <1>6 DEF Rearranges, a
<1> QED
  BY <1>7 DEF a

SortKey == [key : Names, desc : BOOLEAN]

PassedBy(u, D, s, sort, rev) == /\ u \in [0..Len(rev) -> Seq(D)] /\ u[0] = s
                                /\ \A n \in 1..Len(rev) : u[n] = StableSort(u[n - 1], rev[n])
                                /\ SortBy(s, sort) = u[Len(rev)]

\* Sorting passes once for each key, the last of them first.
LEMMA SortBySteps ==
  ASSUME NEW D, NEW s \in Seq(D), NEW sort, NEW rev \in Seq(SortKey), rev = Reverse(sort)
  PROVE  \E u : PassedBy(u, D, s, sort, rev)
<1> DEFINE N == Len(rev)
           base == s
           step == [q \in (Seq(D)) \X (1..N) |-> StableSort(q[1], rev[q[2]])]
           Body(h, s_) == IF s_ = {} THEN s
                          ELSE StableSort(h[s_ \ {Max(s_)}], rev[Max(s_)])
           iter == CHOOSE h : h = [s_ \in SUBSET (1..N) |-> Body(h, s_)]
<1>1. N \in Nat /\ base \in Seq(D) /\ DOMAIN rev = 1..N /\ \A n \in 1..N : rev[n] \in SortKey
  OBVIOUS
<1>2. step \in [(Seq(D)) \X (1..N) -> Seq(D)]
  BY <1>1, StableSortIs
<1>3. PICK f : Folds(f, Seq(D), N, base, step)
  <2> HIDE DEF base, step
  <2> QED
    BY <1>1, <1>2, FoldExists
<1>4. SortBy(s, sort) = iter[1..N]
  BY <1>1 DEF SortBy, FoldLeft, MapThenFoldSet
<1>5. f = [s_ \in SUBSET (1..N) |-> Body(f, s_)]
  <2>1. ASSUME NEW s_ \in SUBSET (1..N)
        PROVE  f[s_] = Body(f, s_)
    <3>1. s_ # {} => f[s_ \ {Max(s_)}] \in Seq(D) /\ Max(s_) \in 1..N
      BY <1>1, <1>3, MaxIs DEF Folds
    <3> QED
      BY <1>3, <3>1 DEF Folds
  <2>2. f = [s_ \in SUBSET (1..N) |-> f[s_]]
    BY <1>3 DEF Folds
  <2> HIDE DEF Body
  <2> QED
    BY <2>1, <2>2
<1>6. iter = [s_ \in SUBSET (1..N) |-> Body(iter, s_)]
  <2> HIDE DEF Body
  <2> QED
    BY <1>5
<1> HIDE DEF iter
<1> DEFINE u == [n \in 0..N |-> iter[1..n]]
<1>7. u[0] = base
  <2>1. 0 \in 0..N /\ 1..0 = {} /\ {} \in SUBSET (1..N)
    BY <1>1
  <2> QED
    BY <1>6, <2>1
<1>8. ASSUME NEW n \in 1..N
      PROVE  u[n] = StableSort(u[n - 1], rev[n])
  <2>1. n \in 0..N /\ n - 1 \in 0..N
    BY <1>1
  <2>2. iter[1..n] = Body(iter, 1..n)
    <3> HIDE DEF Body
    <3> QED
      BY <1>1, <1>6, UptoIs
  <2> QED
    BY <1>1, <2>1, <2>2, UptoIs
<1>9. u \in [0..N -> Seq(D)]
  <2> DEFINE S == {n \in 0..N : u[n] \in Seq(D)}
  <2> HIDE DEF u
  <2>1. 0 \in S
    <3>1. 0 \in 0..N /\ u[0] \in Seq(D)
      BY <1>1, <1>7
    <3> QED
      BY <3>1
  <2>2. ASSUME NEW n \in 0..(N - 1), n \in S
        PROVE  n + 1 \in S
    <3>1. n + 1 \in 1..N /\ n + 1 \in 0..N /\ n + 1 - 1 = n
      BY <1>1
    <3>2. u[n + 1] = StableSort(u[n], rev[n + 1])
      BY <1>8, <3>1
    <3> QED
      BY <1>1, <2>2, <3>1, <3>2, StableSortIs
  <2>3. 0..N \subseteq S
    <3> HIDE DEF S
    <3> QED
      BY <1>1, <2>1, <2>2, Induct
  <2> QED
    BY <2>3 DEF u
<1>10. SortBy(s, sort) = u[N]
  BY <1>1, <1>4
<1> QED
  <2> HIDE DEF u
  <2> QED
    BY <1>7, <1>8, <1>9, <1>10 DEF PassedBy

\* The sort keys from the b-th on in which two documents differ, and their order by them.
Differ(s, sort, b, x, y) == {k \in b..Len(sort) : s[x][sort[k].key].v # s[y][sort[k].key].v}
Lex(s, sort, b, x, y) == IF Differ(s, sort, b, x, y) = {} THEN x < y
                         ELSE Before(s[x], s[y], sort[Min(Differ(s, sort, b, x, y))])
LexSorted(h, n, s, sort, b) == \A i, j \in 1..n : i < j => Lex(s, sort, b, h[i], h[j])

\* A set of numbers up to n has a least one, which is what Min chooses.
LEMMA MinIs ==
  ASSUME NEW n \in Nat, NEW s \in SUBSET (1..n), s # {}
  PROVE  Min(s) \in s /\ \A y \in s : Min(s) <= y
<1>1. PICK m \in s : \A y \in s : m <= y
  BY Least
<1> QED
  BY <1>1 DEF Min

\* A stable pass by a key puts it before the keys of the passes made already.
LEMMA PassLex ==
  ASSUME NEW n \in Nat, NEW s, NEW t, NEW u, NEW sort, Len(sort) \in Nat, NEW b \in 1..Len(sort),
         DOMAIN s = 1..n, Comparable(s, sort[b]), NEW h, NEW g,
         Rearranges(h, n, s, t), LexSorted(h, n, s, sort, b + 1),
         Rearranges(g, n, t, u), Stable(g, n, u, sort[b])
  PROVE  LexSorted(Along(h, g, n), n, s, sort, b)
<1> SUFFICES ASSUME NEW i \in 1..n, NEW j \in 1..n, i < j
             PROVE  Lex(s, sort, b, h[g[i]], h[g[j]])
  BY DEF LexSorted, Along
<1> DEFINE x == h[g[i]]
           y == h[g[j]]
           k == sort[b]
<1>1. g[i] \in 1..n /\ g[j] \in 1..n
  BY DEF Rearranges
<1>2. x \in 1..n /\ y \in 1..n
  BY <1>1 DEF Rearranges
<1>3. u[i] = s[x] /\ u[j] = s[y]
  BY <1>1 DEF Rearranges
<1>4. Before(u[i], u[j], k) \/ (~Before(u[j], u[i], k) /\ g[i] < g[j])
  BY DEF Stable
<1>5. k.desc \in BOOLEAN /\ s[x][k.key].v \in Int /\ s[y][k.key].v \in Int
  BY <1>2 DEF Comparable
<1>6. CASE s[x][k.key].v # s[y][k.key].v
  <2> DEFINE S == Differ(s, sort, b, x, y)
  <2>1. b \in S /\ S \in SUBSET (1..Len(sort)) /\ \A c \in S : b <= c
    <3>1. b \in b..Len(sort) /\ \A c \in b..Len(sort) : b <= c /\ c \in 1..Len(sort)
      OBVIOUS
    <3>2. b \in S
      <4> HIDE DEF x, y
      <4> QED
        BY <1>6, <3>1 DEF Differ
    <3>3. S \subseteq b..Len(sort)
      BY DEF Differ
    <3> HIDE DEF S
    <3> QED
      BY <3>1, <3>2, <3>3
  <2>2. Min(S) \in S /\ Min(S) <= b
    <3> HIDE DEF S
    <3> QED
      BY <2>1, MinIs
  <2>3. Min(S) = b
    <3> HIDE DEF S
    <3>1. Min(S) \in 1..Len(sort) /\ b <= Min(S)
      BY <2>1, <2>2
    <3> QED
      BY <2>2, <3>1
  <2>4. Before(s[x], s[y], k)
    <3> HIDE DEF x, y, k
    <3> QED
      BY <1>3, <1>4, <1>5, <1>6 DEF Before
  <2> HIDE DEF S, x, y
  <2>5. S # {} /\ Before(s[x], s[y], sort[Min(S)])
    BY <2>1, <2>3, <2>4
  <2>6. Lex(s, sort, b, x, y)
    BY <2>5 DEF Lex, S
  <2> QED
    BY <2>6 DEF x, y
<1>7. CASE s[x][k.key].v = s[y][k.key].v
  <2>1. g[i] < g[j]
    <3> HIDE DEF x, y, k
    <3> QED
      BY <1>3, <1>4, <1>5, <1>7 DEF Before
  <2>2. Lex(s, sort, b + 1, x, y)
    BY <1>1, <2>1 DEF LexSorted
  <2> HIDE DEF x, y
  <2>3. Differ(s, sort, b, x, y) = Differ(s, sort, b + 1, x, y)
    <3>1. \A c \in b..Len(sort) : c = b \/ c \in (b + 1)..Len(sort)
      OBVIOUS
    <3>2. \A c \in (b + 1)..Len(sort) : c \in b..Len(sort)
      OBVIOUS
    <3> QED
      BY <1>7, <3>1, <3>2 DEF Differ
  <2>4. Lex(s, sort, b, x, y)
    BY <2>2, <2>3 DEF Lex
  <2> QED
    BY <2>4 DEF x, y
<1> QED
  BY <1>6, <1>7

\* Sorting rearranges, and documents that can be compared come in lexicographic order.
LEMMA SortByIs ==
  ASSUME NEW D, NEW s \in Seq(D), NEW sort \in Seq(SortKey)
  PROVE  /\ SortBy(s, sort) \in Seq(D)
         /\ \E h : /\ Rearranges(h, Len(s), s, SortBy(s, sort))
                   /\ (\A c \in DOMAIN sort : Comparable(s, sort[c])) => LexSorted(h, Len(s), s, sort, 1)
<1> DEFINE N == Len(s)
           m == Len(sort)
           rev == Reverse(sort)
           All == \A c \in DOMAIN sort : Comparable(s, sort[c])
<1>1. N \in Nat /\ m \in Nat /\ DOMAIN s = 1..N /\ DOMAIN sort = 1..m /\ \A c \in 1..m : sort[c] \in SortKey
  OBVIOUS
<1>2. rev \in Seq(SortKey) /\ Len(rev) = m /\ \A c \in 1..m : rev[c] = sort[m - c + 1]
  <2>1. \A c \in 1..m : m - c + 1 \in 1..m
    BY <1>1
  <2>2. rev \in [1..m -> SortKey]
    BY <1>1, <2>1 DEF Reverse
  <2> QED
    BY <1>1, <2>2 DEF Reverse
<1>0. PICK u : PassedBy(u, D, s, sort, rev)
  <2>1. rev = Reverse(sort)
    OBVIOUS
  <2>2. rev \in Seq(SortKey)
    BY <1>2
  <2> HIDE DEF rev
  <2> QED
    BY <2>1, <2>2, SortBySteps
<1> HIDE DEF rev
<1>3. /\ u \in [0..Len(rev) -> Seq(D)] /\ u[0] = s
      /\ \A n \in 1..Len(rev) : u[n] = StableSort(u[n - 1], rev[n])
      /\ SortBy(s, sort) = u[Len(rev)]
  BY <1>0 DEF PassedBy
<1> DEFINE Good(n, h) == Rearranges(h, N, s, u[n]) /\ (All => LexSorted(h, N, s, sort, m - n + 1))
           Q == {n \in 0..m : \E h : Good(n, h)}
<1>4. 0 \in Q
  <2> DEFINE id == [i \in 1..N |-> i]
  <2>1. Rearranges(id, N, s, u[0])
    BY <1>1, <1>3 DEF Rearranges
  <2>2. LexSorted(id, N, s, sort, m - 0 + 1)
    <3>1. (m - 0 + 1)..m = {}
      BY <1>1
    <3> QED
      BY <1>1, <3>1 DEF LexSorted, Lex, Differ
  <2>3. Good(0, id)
    <3> HIDE DEF id
    <3> QED
      BY <2>1, <2>2
  <2>4. \E h : Good(0, h)
    <3> HIDE DEF Good, id
    <3> QED
      BY <2>3
  <2> QED
    BY <1>1, <2>4
<1>5. ASSUME NEW n \in 0..(m - 1), n \in Q
      PROVE  n + 1 \in Q
  <2>1. n + 1 \in 1..m /\ n + 1 \in 0..m /\ n \in 0..m /\ n + 1 - 1 = n /\ m - (n + 1) + 1 = m - n /\ m - n \in 1..m
    BY <1>1
  <2> DEFINE b == m - n
             k == sort[b]
  <2>2. PICK h : Good(n, h)
    BY <1>5
  <2>3. u[n] \in Seq(D) /\ Rearranges(h, N, s, u[n]) /\ Len(u[n]) = N
    <3>1. u[n] \in Seq(D) /\ Rearranges(h, N, s, u[n])
      BY <1>2, <1>3, <2>1, <2>2
    <3> QED
      BY <3>1 DEF Rearranges
  <2>4. rev[n + 1] = k /\ u[n + 1] = StableSort(u[n], k)
    <3>1. rev[n + 1] = k
      BY <1>2, <2>1
    <3>2. u[n + 1] = StableSort(u[n], rev[n + 1])
      <4>1. n + 1 \in 1..Len(rev)
        BY <1>2, <2>1
      <4> QED
        BY <1>3, <2>1, <4>1
    <3> QED
      BY <3>1, <3>2
  <2>5. PICK g : /\ Rearranges(g, N, u[n], u[n + 1])
                 /\ Comparable(u[n], k) => Stable(g, N, u[n + 1], k)
    <3> HIDE DEF k
    <3> QED
      BY <2>3, <2>4, StableSortIs
  <2>6. Rearranges(Along(h, g, N), N, s, u[n + 1])
    BY <1>1, <2>3, <2>5, RearrangeTwice
  <2>7. ASSUME All
        PROVE  LexSorted(Along(h, g, N), N, s, sort, b)
    <3>1. Comparable(s, k)
      BY <1>1, <2>1, <2>7
    <3>2. Comparable(u[n], k)
      <4>1. DOMAIN u[n] = 1..N
        BY <2>3
      <4>2. \A i \in 1..N : u[n][i] = s[h[i]] /\ h[i] \in 1..N
        BY <2>3 DEF Rearranges
      <4> HIDE DEF k
      <4> QED
        BY <1>1, <3>1, <4>1, <4>2 DEF Comparable
    <3>3. LexSorted(h, N, s, sort, b + 1)
      BY <2>2, <2>7
    <3>4. Stable(g, N, u[n + 1], k)
      BY <2>5, <3>2
    <3> QED
      BY <1>1, <2>1, <2>3, <2>5, <3>1, <3>3, <3>4, PassLex
  <2>8. Good(n + 1, Along(h, g, N))
    <3> HIDE DEF All
    <3> QED
      BY <2>1, <2>6, <2>7
  <2>9. \E f : Good(n + 1, f)
    <3> HIDE DEF Good
    <3> QED
      BY <2>8
  <2> QED
    BY <2>1, <2>9
<1>6. m \in Q
  <2> HIDE DEF Q
  <2>1. 0..m \subseteq Q
    BY <1>1, <1>4, <1>5, Induct
  <2> QED
    BY <1>1, <2>1
<1>7. PICK h : Good(m, h)
  BY <1>6
<1>8. m - m + 1 = 1 /\ m \in 0..m
  BY <1>1
<1>9. Rearranges(h, N, s, u[m]) /\ (All => LexSorted(h, N, s, sort, 1))
  BY <1>7, <1>8
<1> QED
  BY <1>2, <1>3, <1>8, <1>9

-----------------------------------------------------------------------------
(* Projections that exclude.  What remains of a document in the result is   *)
(* what remains of it in the collection.                                    *)
Entry == [path : Path, mode : {"include", "exclude"}]
Pair == {q \in [res : Doc, stored : Doc] : \A k \in Keys(q.res) : k \in Keys(q.stored) /\ q.res[k] = q.stored[k]}

\* The keys of a document are names, and what it holds are values.
LEMMA DocHas ==
  ASSUME NEW d \in Doc
  PROVE  d \in Partial(Value) /\ DOMAIN d \subseteq Names /\ \A k \in DOMAIN d : d[k] \in Value
<1>1. d \in Partial(Value)
  BY DEF Doc
<1> QED
  BY <1>1, PartialIs

\* What is nested in a document is a level.
LEMMA LevelIs ==
  ASSUME NEW d \in Doc, NEW k, NestedAt(d, k)
  PROVE  /\ d[k].nested \in Partial(Scalar) /\ d[k] = [nested |-> d[k].nested] /\ k \in Names
         /\ k \in Keys(d) /\ IsNested(d[k])
<1>1. k \in DOMAIN d /\ IsNested(d[k])
  BY DEF NestedAt, Keys
<1> QED
  BY <1>1, DocHas, NestedIs DEF Level, Keys

\* What popping a nested key leaves.
LEMMA PopNested ==
  ASSUME NEW d \in Doc, NEW p \in Path, Len(p) = 2, NestedAt(d, p[1])
  PROVE  /\ Pop(d, p) \in Doc /\ Keys(Pop(d, p)) = Keys(d)
         /\ \A k \in Keys(d) : k # p[1] => Pop(d, p)[k] = d[k]
         /\ Pop(d, p)[p[1]] = [nested |-> Without(d[p[1]].nested, p[2])]
<1> DEFINE k == p[1]
           l == Without(d[k].nested, p[2])
           g == With(d, k, [nested |-> l])
<1>1. d[k].nested \in Partial(Scalar) /\ k \in Names /\ k \in DOMAIN d /\ d \in Partial(Value)
  BY LevelIs, DocHas DEF Keys
<1>2. l \in Partial(Scalar)
  BY <1>1, WithoutIs
<1>3. [nested |-> l] \in Value
  <2> HIDE DEF l
  <2> QED
    BY <1>2, NestIs DEF Level
<1>4. /\ g \in Partial(Value) /\ DOMAIN g = DOMAIN d \cup {k} /\ g[k] = [nested |-> l]
      /\ \A y \in DOMAIN d : y # k => g[y] = d[y]
  <2> HIDE DEF l
  <2> QED
    BY <1>1, <1>3, WithIs
<1>5. Pop(d, p) = g
  BY DEF Pop
<1> HIDE DEF g
<1> QED
  BY <1>1, <1>4, <1>5 DEF Keys, Doc

\* An exclusion makes a pair of a pair.
LEMMA ExcludeIs ==
  ASSUME NEW acc \in Pair, NEW e \in Entry
  PROVE  ExcludeStep(acc, e) \in Pair
<1> DEFINE p == e.path
<1>1. acc.res \in Doc /\ acc.stored \in Doc /\ p \in Path
      /\ \A k \in Keys(acc.res) : k \in Keys(acc.stored) /\ acc.res[k] = acc.stored[k]
  BY DEF Pair, Entry
<1>2. CASE ~Drops(e)
  BY <1>2 DEF ExcludeStep
<1>3. CASE Drops(e) /\ Len(p) = 1
  <2> DEFINE r == Without(acc.res, p[1])
  <2>1. r \in Doc /\ Keys(r) \subseteq Keys(acc.res) /\ \A k \in Keys(r) : r[k] = acc.res[k]
    <3>1. acc.res \in Partial(Value)
      BY <1>1, DocHas
    <3>2. r \in Partial(Value) /\ DOMAIN r = DOMAIN acc.res \ {p[1]} /\ \A y \in DOMAIN acc.res : y # p[1] => r[y] = acc.res[y]
      BY <3>1, WithoutIs
    <3> HIDE DEF r
    <3> QED
      BY <3>2 DEF Keys, Doc
  <2>2. ExcludeStep(acc, e) = [res |-> r, stored |-> acc.stored]
    BY <1>3 DEF ExcludeStep, Pair
  <2>3. [res |-> r, stored |-> acc.stored] \in Pair
    <3> HIDE DEF r
    <3> QED
      BY <1>1, <2>1 DEF Pair
  <2> QED
    BY <2>2, <2>3
<1>4. CASE Drops(e) /\ Len(p) = 2 /\ NestedAt(acc.res, p[1])
  <2>1. NestedAt(acc.stored, p[1]) /\ acc.res[p[1]] = acc.stored[p[1]]
    BY <1>1, <1>4 DEF NestedAt
  <2> DEFINE r == Pop(acc.res, p)
             s == Pop(acc.stored, p)
  <2>2. /\ r \in Doc /\ Keys(r) = Keys(acc.res) /\ \A k \in Keys(acc.res) : k # p[1] => r[k] = acc.res[k]
        /\ r[p[1]] = [nested |-> Without(acc.res[p[1]].nested, p[2])]
    BY <1>1, <1>4, PopNested
  <2>3. /\ s \in Doc /\ Keys(s) = Keys(acc.stored) /\ \A k \in Keys(acc.stored) : k # p[1] => s[k] = acc.stored[k]
        /\ s[p[1]] = [nested |-> Without(acc.stored[p[1]].nested, p[2])]
    BY <1>1, <1>4, <2>1, PopNested
  <2>4. ExcludeStep(acc, e) = [res |-> r, stored |-> s]
    BY <1>4 DEF ExcludeStep
  <2>5. [res |-> r, stored |-> s] \in Pair
    <3> HIDE DEF r, s
    <3> QED
      BY <1>1, <2>1, <2>2, <2>3 DEF Pair
  <2> QED
    BY <2>4, <2>5
<1>5. CASE Drops(e) /\ Len(p) = 2 /\ ~NestedAt(acc.res, p[1])
  BY <1>5 DEF ExcludeStep
<1> QED
  BY <1>1, <1>2, <1>3, <1>4, <1>5, PathIs

\* Without the identifier, or with it, a document is linked to itself.
Start(doc, proj) == [res |-> IF DropsId(proj) THEN Without(doc, "_id") ELSE doc, stored |-> doc]

\* The start of an exclusion is a pair.
LEMMA StartIs ==
  ASSUME NEW doc \in Doc, NEW proj
  PROVE  Start(doc, proj) \in Pair
<1> DEFINE r == Without(doc, "_id")
<1>1. doc \in Partial(Value)
  BY DocHas
<1>2. r \in Partial(Value) /\ DOMAIN r = DOMAIN doc \ {"_id"} /\ \A y \in DOMAIN doc : y # "_id" => r[y] = doc[y]
  BY <1>1, WithoutIs
<1> HIDE DEF r
<1>3. r \in Doc /\ \A k \in Keys(r) : k \in Keys(doc) /\ r[k] = doc[k]
  BY <1>2 DEF Keys, Doc
<1> QED
  BY <1>3 DEF Start, Pair, r

\* A projection that excludes takes its entries one after the other.
LEMMA ExcludeSteps ==
  ASSUME NEW doc \in Doc, NEW proj \in Seq(Entry), ~IsInclusion(proj)
  PROVE  \E u \in [0..Len(proj) -> Pair] :
           /\ u[0] = Start(doc, proj)
           /\ \A n \in 1..Len(proj) : u[n] = ExcludeStep(u[n - 1], proj[n])
           /\ Project(doc, proj) = u[Len(proj)]
<1> DEFINE N == Len(proj)
           base == Start(doc, proj)
           step == [q \in (Pair) \X (1..N) |-> ExcludeStep(q[1], proj[q[2]])]
           Body(h, s_) == IF s_ = {} THEN Start(doc, proj)
                          ELSE ExcludeStep(h[s_ \ {Max(s_)}], proj[Max(s_)])
           iter == CHOOSE h : h = [s_ \in SUBSET (1..N) |-> Body(h, s_)]
<1>1. N \in Nat /\ base \in Pair /\ DOMAIN proj = 1..N /\ \A n \in 1..N : proj[n] \in Entry
  BY StartIs
<1>2. step \in [(Pair) \X (1..N) -> Pair]
  BY <1>1, ExcludeIs
<1>3. PICK f : Folds(f, Pair, N, base, step)
  <2> HIDE DEF base, step
  <2> QED
    BY <1>1, <1>2, FoldExists
<1>4. Project(doc, proj) = iter[1..N]
  BY <1>1 DEF Project, Start, FoldLeft, MapThenFoldSet
<1>5. f = [s_ \in SUBSET (1..N) |-> Body(f, s_)]
  <2>1. ASSUME NEW s_ \in SUBSET (1..N)
        PROVE  f[s_] = Body(f, s_)
    <3>1. s_ # {} => f[s_ \ {Max(s_)}] \in Pair /\ Max(s_) \in 1..N
      BY <1>1, <1>3, MaxIs DEF Folds
    <3> QED
      BY <1>3, <3>1 DEF Folds
  <2>2. f = [s_ \in SUBSET (1..N) |-> f[s_]]
    BY <1>3 DEF Folds
  <2> HIDE DEF Body
  <2> QED
    BY <2>1, <2>2
<1>6. iter = [s_ \in SUBSET (1..N) |-> Body(iter, s_)]
  <2> HIDE DEF Body
  <2> QED
    BY <1>5
<1> HIDE DEF iter
<1> DEFINE u == [n \in 0..N |-> iter[1..n]]
<1>7. u[0] = base
  <2>1. 0 \in 0..N /\ 1..0 = {} /\ {} \in SUBSET (1..N)
    BY <1>1
  <2> QED
    BY <1>6, <2>1
<1>8. ASSUME NEW n \in 1..N
      PROVE  u[n] = ExcludeStep(u[n - 1], proj[n])
  <2>1. n \in 0..N /\ n - 1 \in 0..N
    BY <1>1
  <2>2. iter[1..n] = Body(iter, 1..n)
    <3> HIDE DEF Body
    <3> QED
      BY <1>1, <1>6, UptoIs
  <2> QED
    BY <1>1, <2>1, <2>2, UptoIs
<1>9. u \in [0..N -> Pair]
  <2> DEFINE S == {n \in 0..N : u[n] \in Pair}
  <2> HIDE DEF u
  <2>1. 0 \in S
    <3>1. 0 \in 0..N /\ u[0] \in Pair
      BY <1>1, <1>7
    <3> QED
      BY <3>1
  <2>2. ASSUME NEW n \in 0..(N - 1), n \in S
        PROVE  n + 1 \in S
    <3>1. n + 1 \in 1..N /\ n + 1 \in 0..N /\ n + 1 - 1 = n
      BY <1>1
    <3>2. u[n + 1] = ExcludeStep(u[n], proj[n + 1])
      BY <1>8, <3>1
    <3> QED
      BY <1>1, <2>2, <3>1, <3>2, ExcludeIs
  <2>3. 0..N \subseteq S
    <3> HIDE DEF S
    <3> QED
      BY <1>1, <2>1, <2>2, Induct
  <2> QED
    BY <2>3 DEF u
<1>10. Project(doc, proj) = u[N]
  BY <1>1, <1>4
<1> QED
  <2> HIDE DEF u
  <2> QED
    BY <1>7, <1>8, <1>9, <1>10

\* An entry that excludes a nested path is one of those a reader may lose keys to.
LEMMA DeepIs ==
  ASSUME NEW proj \in Projections, NEW n \in DOMAIN proj, Drops(proj[n]), Len(proj[n].path) = 2
  PROVE  proj[n].path \in DeepExcluded
<1>1. proj[n] \in {x \in ToSet(proj) : x.mode = "exclude" /\ Len(x.path) = 2}
  BY DEF ToSet, Drops
<1>2. proj[n].path \in {e.path : e \in {x \in ToSet(proj) : x.mode = "exclude" /\ Len(x.path) = 2}}
  BY <1>1
<1> QED
  BY <1>2 DEF DeepExcluded

\* Popping a nested key that is excluded loses what may be lost.
LEMMA PopLost ==
  ASSUME NEW d \in Doc, NEW was \in Doc, LostOnlyExcluded(d, was), NEW p \in Path, Len(p) = 2, NestedAt(d, p[1]),
         p \in DeepExcluded
  PROVE  LostOnlyExcluded(Pop(d, p), was)
<1> DEFINE g == Pop(d, p)
           l == Without(d[p[1]].nested, p[2])
<1>1. /\ Keys(g) = Keys(d) /\ g[p[1]] = [nested |-> l]
      /\ \A k \in Keys(d) : k # p[1] => g[k] = d[k]
  BY PopNested
<1>2. /\ Keys(d) = Keys(was)
      /\ \A k \in Keys(d) :
           \/ d[k] = was[k]
           \/ /\ IsNested(d[k]) /\ IsNested(was[k])
              /\ \A x \in DOMAIN was[k].nested :
                   IF x \in DOMAIN d[k].nested THEN d[k].nested[x] = was[k].nested[x]
                   ELSE <<k, x>> \in DeepExcluded
  BY DEF LostOnlyExcluded
<1>3. p[1] \in Keys(d) /\ IsNested(d[p[1]]) /\ d[p[1]].nested \in Partial(Scalar)
  BY LevelIs
<1>4. DOMAIN l = DOMAIN d[p[1]].nested \ {p[2]} /\ \A y \in DOMAIN d[p[1]].nested : y # p[2] => l[y] = d[p[1]].nested[y]
  <2> DEFINE f == d[p[1]].nested
  <2>1. f \in Partial(Scalar)
    BY <1>3
  <2> HIDE DEF f
  <2>2. /\ Without(f, p[2]) \in Partial(Scalar) /\ DOMAIN Without(f, p[2]) = DOMAIN f \ {p[2]}
        /\ \A y \in DOMAIN f : y # p[2] => Without(f, p[2])[y] = f[y]
    BY <2>1, WithoutIs
  <2> QED
    BY <2>2 DEF f
<1>5. IsNested(g[p[1]]) /\ g[p[1]].nested = l /\ IsNested(was[p[1]])
  <2>1. IsNested([nested |-> l]) /\ [nested |-> l].nested = l
    BY DEF IsNested
  <2>2. IsNested(was[p[1]])
    BY <1>2, <1>3
  <2> HIDE DEF g, l
  <2> QED
    BY <1>1, <2>1, <2>2
<1>6. ASSUME NEW x \in DOMAIN was[p[1]].nested
      PROVE  IF x \in DOMAIN g[p[1]].nested THEN g[p[1]].nested[x] = was[p[1]].nested[x]
             ELSE <<p[1], x>> \in DeepExcluded
  <2>1. IF x \in DOMAIN d[p[1]].nested THEN d[p[1]].nested[x] = was[p[1]].nested[x]
        ELSE <<p[1], x>> \in DeepExcluded
    BY <1>2, <1>3
  <2>2. p = <<p[1], p[2]>>
    BY PathIs
  <2>3. x = p[2] => <<p[1], x>> \in DeepExcluded
    BY <2>2
  <2> HIDE DEF g, l
  <2> QED
    BY <1>4, <1>5, <2>1, <2>3
<1> HIDE DEF g, l
<1>7. LostOnlyExcluded(g, was)
  BY <1>1, <1>2, <1>5, <1>6 DEF LostOnlyExcluded
<1> QED
  BY <1>7 DEF g

\* Of a document that is projected the collection loses only what may be lost.
LEMMA ProjectLost ==
  ASSUME NEW doc \in Doc, NEW proj \in Projections
  PROVE  Project(doc, proj).stored \in Doc /\ LostOnlyExcluded(Project(doc, proj).stored, doc)
<1>1. LostOnlyExcluded(doc, doc)
  BY DEF LostOnlyExcluded
<1>2. CASE IsInclusion(proj)
  <2>1. Project(doc, proj).stored = doc
    BY <1>2 DEF Project
  <2> QED
    BY <1>1, <2>1
<1>3. CASE ~IsInclusion(proj)
  <2> DEFINE N == Len(proj)
  <2>1. proj \in Seq(Entry) /\ N \in Nat /\ DOMAIN proj = 1..N /\ \A n \in 1..N : proj[n] \in Entry
    <3>1. proj \in Seq(Entry)
      BY ProjectionsAreTyped DEF Entry
    <3> QED
      BY <3>1
  <2>2. PICK u \in [0..N -> Pair] : /\ u[0] = Start(doc, proj)
                                    /\ \A n \in 1..N : u[n] = ExcludeStep(u[n - 1], proj[n])
                                    /\ Project(doc, proj) = u[N]
    BY <1>3, <2>1, ExcludeSteps
  <2> DEFINE Q == {n \in 0..N : LostOnlyExcluded(u[n].stored, doc)}
  <2>3. 0 \in Q
    BY <1>1, <2>1, <2>2 DEF Start
  <2>4. ASSUME NEW n \in 0..(N - 1), n \in Q
        PROVE  n + 1 \in Q
    <3>1. n + 1 \in 1..N /\ n + 1 \in 0..N /\ n \in 0..N /\ n + 1 - 1 = n
      BY <2>1
    <3> DEFINE acc == u[n]
               e == proj[n + 1]
               p == e.path
    <3>2. u[n + 1] = ExcludeStep(acc, e) /\ acc \in Pair /\ LostOnlyExcluded(acc.stored, doc) /\ e \in Entry
      BY <2>1, <2>2, <2>4, <3>1
    <3>3. acc.res \in Doc /\ acc.stored \in Doc /\ p \in Path
          /\ \A k \in Keys(acc.res) : k \in Keys(acc.stored) /\ acc.res[k] = acc.stored[k]
      BY <3>2 DEF Pair, Entry
    <3>4. CASE ~Drops(e) \/ Len(p) = 1 \/ ~NestedAt(acc.res, p[1])
      <4>1. ExcludeStep(acc, e).stored = acc.stored
        BY <3>2, <3>4 DEF ExcludeStep, Pair
      <4> QED
        BY <3>1, <3>2, <4>1
    <3>5. CASE Drops(e) /\ Len(p) = 2 /\ NestedAt(acc.res, p[1])
      <4>1. NestedAt(acc.stored, p[1])
        BY <3>3, <3>5 DEF NestedAt
      <4>2. p \in DeepExcluded
        BY <2>1, <3>1, <3>5, DeepIs
      <4>3. ExcludeStep(acc, e).stored = Pop(acc.stored, p)
        BY <3>5 DEF ExcludeStep
      <4>4. LostOnlyExcluded(Pop(acc.stored, p), doc)
        <5> HIDE DEF p, acc
        <5> QED
          BY <3>2, <3>3, <3>5, <4>1, <4>2, PopLost
      <4> QED
        BY <3>1, <3>2, <4>3, <4>4
    <3> QED
      BY <3>3, <3>4, <3>5, PathIs
  <2>5. 0..N \subseteq Q
    <3> HIDE DEF Q
    <3> QED
      BY <2>1, <2>3, <2>4, Induct
  <2>6. N \in 0..N
    BY <2>1
  <2> QED
    BY <2>2, <2>5, <2>6 DEF Pair
<1> QED
  BY <1>2, <1>3

-----------------------------------------------------------------------------
(* Reading the collection.                                                  *)

\* A rearranged sequence, some of whose documents have lost what may be lost.
Kept(h, s, t) ==
  /\ t \in Seq(Doc) /\ Len(t) = Len(s) /\ h \in [DOMAIN s -> DOMAIN s] /\ IsInjective(h)
  /\ \A i \in DOMAIN s : LostOnlyExcluded(t[i], s[h[i]])

\* Rearranging keeps the documents.
LEMMA RearrangeKeeps ==
  ASSUME NEW s \in Seq(Doc), NEW t \in Seq(Doc), NEW h, Rearranges(h, Len(s), s, t)
  PROVE  Kept(h, s, t)
<1> DEFINE n == Len(s)
<1>1. h \in [1..n -> 1..n] /\ Len(t) = n /\ DOMAIN s = 1..n /\ \A i \in 1..n : t[i] = s[h[i]]
  BY DEF Rearranges
<1>2. IsInjective(h)
  BY <1>1 DEF Rearranges, IsInjective
<1>3. \A d : LostOnlyExcluded(d, d)
  BY DEF LostOnlyExcluded
<1> QED
  BY <1>1, <1>2, <1>3 DEF Kept

\* Losing what may be lost of rearranged documents keeps them.
LEMMA LoseKeeps ==
  ASSUME NEW s \in Seq(Doc), NEW t \in Seq(Doc), NEW h, Rearranges(h, Len(s), s, t),
         NEW u \in Seq(Doc), Len(u) = Len(t), \A i \in DOMAIN t : LostOnlyExcluded(u[i], t[i])
  PROVE  Kept(h, s, u)
<1> DEFINE n == Len(s)
<1>1. h \in [1..n -> 1..n] /\ Len(t) = n /\ DOMAIN s = 1..n /\ DOMAIN t = 1..n /\ \A i \in 1..n : t[i] = s[h[i]]
  <2>1. h \in [1..n -> 1..n] /\ Len(t) = n /\ \A i \in 1..n : t[i] = s[h[i]]
    BY DEF Rearranges
  <2> QED
    BY <2>1
<1>2. IsInjective(h)
  BY <1>1 DEF Rearranges, IsInjective
<1>3. \A i \in 1..n : LostOnlyExcluded(u[i], s[h[i]])
  BY <1>1
<1> QED
  BY <1>1, <1>2, <1>3 DEF Kept

\* What touching a document leaves of it.
LEMMA TouchedIs ==
  ASSUME NEW d \in Doc, NEW f, NEW proj \in Projections
  PROVE  Touched(d, f, proj) \in Doc /\ LostOnlyExcluded(Touched(d, f, proj), d)
<1>1. LostOnlyExcluded(d, d)
  BY DEF LostOnlyExcluded
<1> QED
  BY <1>1, ProjectLost DEF Touched

\* A sequence rearranges itself.
LEMMA SameRearranges ==
  ASSUME NEW s \in Seq(Doc)
  PROVE  Rearranges([i \in 1..Len(s) |-> i], Len(s), s, s)
BY DEF Rearranges

TypeInv ==
  /\ docs \in Seq(Doc) /\ Len(docs) <= MaxDocs
  /\ last.call \in {"none", "find", "insert", "update", "upsert", "delete"} /\ last.ok \in BOOLEAN

\* What a search leaves of the collection, whether or not it returns.
LEMMA FindKeeps ==
  ASSUME TypeInv, NEW f, NEW proj \in Projections, NEW sort \in Sorts, Find(f, proj, sort)
  PROVE  /\ last'.call = "find" /\ last'.ok \in BOOLEAN
         /\ \E h : Kept(h, docs, docs')
<1> DEFINE n == Len(docs)
<1>1. docs \in Seq(Doc) /\ n \in Nat /\ DOMAIN docs = 1..n
  BY DEF TypeInv
<1>2. sort \in Seq(SortKey)
  BY SortsAreTyped DEF SortKey
<1>3. \E h : Kept(h, docs, docs)
  BY <1>1, SameRearranges, RearrangeKeeps
<1>4. CASE SortFails(Found(f, docs), sort)
  <2>1. /\ docs' \in IF f = NoFilter THEN {s \in [DOMAIN docs -> ToSet(docs)] : IsPermutation(s, docs)} ELSE {docs}
        /\ Returns("find", FALSE)
    BY <1>4 DEF Find
  <2>2. last'.call = "find" /\ last'.ok \in BOOLEAN
    BY <2>1 DEF Returns
  <2>3. CASE docs' = docs
    BY <1>3, <2>2, <2>3
  <2>4. CASE docs' \in [DOMAIN docs -> ToSet(docs)] /\ IsPermutation(docs', docs)
    <3>1. ToSet(docs) \subseteq Doc
      BY <1>1 DEF ToSet
    <3>2. docs' \in Seq(Doc) /\ Len(docs') = n /\ DOMAIN docs' = 1..n
      BY <1>1, <2>4, <3>1
    <3>3. PICK g \in [DOMAIN docs' -> DOMAIN docs] : IsInjective(g) /\ \A i \in DOMAIN docs' : docs'[i] = docs[g[i]]
      BY <2>4 DEF IsPermutation
    <3>4. Rearranges(g, n, docs, docs')
      BY <1>1, <3>2, <3>3 DEF Rearranges, IsInjective
    <3>5. Kept(g, docs, docs')
      BY <1>1, <3>2, <3>4, RearrangeKeeps
    <3> QED
      BY <2>2, <3>5
  <2> QED
    BY <2>1, <2>3, <2>4
<1>5. CASE ~SortFails(Found(f, docs), sort)
  <2> DEFINE kept == IF f = NoFilter THEN SortBy(docs, sort) ELSE docs
             lost == [i \in DOMAIN kept |-> Touched(kept[i], f, proj)]
  <2>1. (docs' = kept \/ docs' = lost) /\ \E ok \in BOOLEAN : Returns("find", ok)
    BY <1>5 DEF Find
  <2>2. last'.call = "find" /\ last'.ok \in BOOLEAN
    BY <2>1 DEF Returns
  <2>3. PICK h : kept \in Seq(Doc) /\ Rearranges(h, n, docs, kept)
    <3>1. CASE f = NoFilter
      BY <1>1, <1>2, <3>1, SortByIs
    <3>2. CASE f # NoFilter
      BY <1>1, <3>2, SameRearranges
    <3> QED
      BY <3>1, <3>2
  <2>4. Kept(h, docs, kept)
    <3> HIDE DEF kept
    <3> QED
      BY <1>1, <2>3, RearrangeKeeps
  <2>5. lost \in Seq(Doc) /\ Len(lost) = Len(kept) /\ \A i \in DOMAIN kept : LostOnlyExcluded(lost[i], kept[i])
    <3> HIDE DEF kept
    <3>1. Len(kept) \in Nat /\ DOMAIN kept = 1..Len(kept) /\ \A i \in DOMAIN kept : kept[i] \in Doc
      BY <2>3
    <3>2. \A i \in DOMAIN kept : Touched(kept[i], f, proj) \in Doc /\ LostOnlyExcluded(Touched(kept[i], f, proj), kept[i])
      BY <3>1, TouchedIs
    <3>3. lost \in [1..Len(kept) -> Doc]
      BY <3>1, <3>2
    <3> QED
      BY <3>1, <3>2, <3>3
  <2>6. Kept(h, docs, lost)
    <3> HIDE DEF kept, lost
    <3> QED
      BY <1>1, <2>3, <2>5, LoseKeeps
  <2> HIDE DEF kept, lost
  <2> QED
    BY <2>1, <2>2, <2>4, <2>6
<1> QED
  BY <1>4, <1>5

-----------------------------------------------------------------------------
(* Writing to the collection.                                               *)

\* The first match of a filter is a place in the collection.
LEMMA FirstIs ==
  ASSUME TypeInv, NEW f, First(f) # {}
  PROVE  Min(First(f)) \in 1..Len(docs)
<1>1. Len(docs) \in Nat /\ First(f) \in SUBSET (1..Len(docs))
  BY DEF TypeInv, First
<1> QED
  BY <1>1, MinIs

\* A caller's patch is converted to one of the standard.
LEMMA ConvertedIs ==
  ASSUME NEW patch \in Patches
  PROVE  convert_patch(patch) \in Seq(Operation)
<1> DEFINE standard(o) == IF "from_" \in DOMAIN o THEN [op |-> o.op, from |-> o.from_, path |-> o.path]
                          ELSE o
<1>1. patch \in Seq(JSONPatchOperation)
  BY PatchesAreTyped
<1>2. ASSUME NEW o \in JSONPatchOperation
      PROVE  standard(o) \in Operation
  <2>1. CASE o \in [op : {"add", "replace", "test"}, path : Path, value : Scalar]
    BY <2>1 DEF Operation
  <2>2. CASE o \in [op : {"remove"}, path : Path]
    BY <2>2 DEF Operation
  <2>3. CASE o \in {e \in [op : {"move", "copy"}, from_ : Path, path : Path] :
                     Len(e.path) = 1 \/ Len(e.from_) = 2}
    <3>1. standard(o) = [op |-> o.op, from |-> o.from_, path |-> o.path]
      BY <2>3
    <3>2. /\ o.op \in {"move", "copy"} /\ o.from_ \in Path /\ o.path \in Path
          /\ Len(o.path) = 1 \/ Len(o.from_) = 2
      BY <2>3
    <3> QED
      BY <3>1, <3>2 DEF Operation
  <2> QED
    BY <2>1, <2>2, <2>3 DEF JSONPatchOperation
<1>3. convert_patch(patch) = [i \in 1..Len(patch) |-> standard(patch[i])]
  BY <1>1 DEF convert_patch
<1>4. Len(patch) \in Nat /\ \A i \in 1..Len(patch) : patch[i] \in JSONPatchOperation
  BY <1>1
<1> HIDE DEF standard
<1>5. \A i \in 1..Len(patch) : standard(patch[i]) \in Operation
  BY <1>2, <1>4
<1> QED
  BY <1>3, <1>4, <1>5

\* A patch makes an outcome of a document.
LEMMA PatchedIs ==
  ASSUME NEW d \in Doc, NEW patch \in Patches
  PROVE  Patched(d, patch).ok \in BOOLEAN /\ Patched(d, patch).doc \in Doc
<1> DEFINE p == convert_patch(patch)
<1>1. p \in Seq(Operation)
  BY ConvertedIs
<1> HIDE DEF p
<1>2. PICK u \in [0..Len(p) -> Outcome] :
        /\ u[0] = [ok |-> TRUE, doc |-> d]
        /\ \A n \in 1..Len(p) : u[n] = After(u[n - 1], p[n])
        /\ apply_patch(d, p) = u[Len(p)]
  BY <1>1, PatchedSteps
<1>3. Patched(d, patch) \in Outcome
  <2>1. Len(p) \in 0..Len(p)
    BY <1>1
  <2> QED
    BY <1>2, <2>1 DEF Patched, p
<1> QED
  BY <1>3 DEF Outcome

\* What an insertion makes of the collection.
LEMMA InsertDoes ==
  ASSUME TypeInv, NEW doc \in Inserts, Insert(doc)
  PROVE  /\ doc \in Doc /\ docs' = Append(docs, doc) /\ Len(docs) < MaxDocs
         /\ last'.call = "insert" /\ last'.ok \in BOOLEAN /\ (last'.ok => IsTotal(doc))
         /\ last' = [call |-> "insert", ok |-> last'.ok]
<1>1. doc \in Doc
  BY InsertsAreDocs, DocIs
<1> QED
  BY <1>1 DEF Insert, Returns

\* What an update makes of the collection.
LEMMA UpdateDoes ==
  ASSUME TypeInv, NEW f, NEW patch \in Patches, Update(f, patch)
  PROVE  /\ last'.call = "update" /\ last'.ok \in BOOLEAN /\ last' = [call |-> "update", ok |-> last'.ok]
         /\ \E i \in 1..Len(docs), d \in Doc : docs' = IF last'.ok THEN [docs EXCEPT ![i] = d] ELSE docs
<1> DEFINE i == Min(First(f))
           res == Patched(docs[i], patch)
<1>1. First(f) # {} /\ docs' = (IF res.ok THEN [docs EXCEPT ![i] = res.doc] ELSE docs)
      /\ last' = [call |-> "update", ok |-> res.ok]
  BY DEF Update, Returns
<1>2. i \in 1..Len(docs) /\ docs[i] \in Doc
  <2>1. i \in 1..Len(docs)
    BY <1>1, FirstIs
  <2> HIDE DEF i
  <2> QED
    BY <2>1 DEF TypeInv
<1> HIDE DEF i
<1>3. res.ok \in BOOLEAN /\ res.doc \in Doc
  BY <1>2, PatchedIs
<1> HIDE DEF res
<1>4. last'.call = "update" /\ last'.ok = res.ok
  BY <1>1
<1> QED
  BY <1>1, <1>2, <1>3, <1>4

\* What an upsert makes of the collection.
LEMMA UpsertDoes ==
  ASSUME TypeInv, NEW f, NEW patch \in Patches, Upsert(f, patch)
  PROVE  /\ last'.call = "upsert" /\ last'.ok \in BOOLEAN /\ Len(docs) < MaxDocs
         /\ \E d \in Doc : (IsTotal(d) /\ docs' = Append(docs, d)) \/ docs' = docs
<1> DEFINE res == Patched(<<>>, patch)
           ok == res.ok /\ "id" \in Keys(res.doc) /\ IsTotal(res.doc)
<1>1. Len(docs) < MaxDocs /\ docs' = (IF ok THEN Append(docs, res.doc) ELSE docs)
      /\ last' = [call |-> "upsert", ok |-> ok]
  BY DEF Upsert, Returns
<1>2. <<>> \in Doc
  BY EmptyIs DEF Doc
<1>3. res.ok \in BOOLEAN /\ res.doc \in Doc
  BY <1>2, PatchedIs
<1>4. ok \in BOOLEAN /\ (ok => IsTotal(res.doc))
  BY <1>3
<1> HIDE DEF ok, res
<1>5. last'.call = "upsert" /\ last'.ok = ok
  BY <1>1
<1> QED
  BY <1>1, <1>3, <1>4, <1>5

\* What removing a document leaves.
LEMMA RemoveIs ==
  ASSUME NEW s \in Seq(Doc), NEW i \in 1..Len(s)
  PROVE  /\ RemoveAt(s, i) \in Seq(Doc) /\ Len(RemoveAt(s, i)) = Len(s) - 1
         /\ \A j \in 1..(Len(s) - 1) : RemoveAt(s, i)[j] = s[IF j < i THEN j ELSE j + 1]
<1> DEFINE a == SubSeq(s, 1, i - 1)
           b == SubSeq(s, i + 1, Len(s))
<1>1. a \in Seq(Doc) /\ Len(a) = i - 1 /\ \A j \in 1..(i - 1) : a[j] = s[j]
  <2>1. \A j \in 1..(i - 1) : s[j] \in Doc
    OBVIOUS
  <2> QED
    BY <2>1, SubSeqProperties
<1>2. b \in Seq(Doc) /\ Len(b) = Len(s) - i /\ \A j \in 1..(Len(s) - i) : b[j] = s[i + j]
  <2>1. \A j \in (i + 1)..Len(s) : s[j] \in Doc
    OBVIOUS
  <2>2. b \in Seq(Doc) /\ Len(b) = (IF i + 1 <= Len(s) THEN Len(s) - (i + 1) + 1 ELSE 0)
        /\ \A j \in 1..(Len(s) - (i + 1) + 1) : b[j] = s[i + 1 + j - 1]
    BY <2>1, SubSeqProperties
  <2>3. Len(s) - (i + 1) + 1 = Len(s) - i /\ \A j \in Int : i + 1 + j - 1 = i + j
    OBVIOUS
  <2>4. Len(b) = Len(s) - i
    <3> HIDE DEF b
    <3> QED
      BY <2>2
  <2>5. ASSUME NEW j \in 1..(Len(s) - i)
        PROVE  b[j] = s[i + j]
    <3>1. j \in 1..(Len(s) - (i + 1) + 1) /\ i + 1 + j - 1 = i + j
      OBVIOUS
    <3>2. b[j] = s[i + 1 + j - 1]
      <4> HIDE DEF b
      <4> QED
        BY <2>2, <3>1
    <3> QED
      BY <3>1, <3>2
  <2> HIDE DEF b
  <2> QED
    BY <2>2, <2>4, <2>5
<1> HIDE DEF a, b
<1>3. a \o b \in Seq(Doc) /\ Len(a \o b) = Len(s) - 1
  <2>1. a \in Seq(Doc) /\ b \in Seq(Doc)
    BY <1>1, <1>2
  <2>2. a \o b \in Seq(Doc) /\ Len(a \o b) = Len(a) + Len(b)
    BY <2>1
  <2>3. Len(a) = i - 1 /\ Len(b) = Len(s) - i /\ Len(s) \in Nat /\ i \in Nat
    BY <1>1, <1>2
  <2> QED
    BY <2>2, <2>3
<1>4. ASSUME NEW j \in 1..(Len(s) - 1)
      PROVE  (a \o b)[j] = s[IF j < i THEN j ELSE j + 1]
  <2>0. (a \o b)[j] = IF j <= Len(a) THEN a[j] ELSE b[j - Len(a)]
    BY <1>1, <1>2
  <2>1. CASE j < i
    BY <1>1, <2>0, <2>1
  <2>2. CASE ~(j < i)
    <3>1. (a \o b)[j] = b[j - (i - 1)] /\ j - (i - 1) \in 1..(Len(s) - i) /\ i + (j - (i - 1)) = j + 1
      BY <1>1, <2>0, <2>2
    <3> QED
      BY <1>2, <2>2, <3>1
  <2> QED
    BY <2>1, <2>2
<1>5. RemoveAt(s, i) = a \o b
  BY DEF RemoveAt, a, b
<1> QED
  BY <1>3, <1>4, <1>5

\* What a deletion makes of the collection.
LEMMA DeleteDoes ==
  ASSUME TypeInv, NEW f, Delete(f)
  PROVE  /\ last'.call = "delete" /\ last'.ok \in BOOLEAN
         /\ docs' = docs \/ \E i \in 1..Len(docs) : docs' = RemoveAt(docs, i)
<1>1. docs' = (IF First(f) = {} THEN docs ELSE RemoveAt(docs, Min(First(f)))) /\ last' = [call |-> "delete", ok |-> TRUE]
  BY DEF Delete, Returns
<1>2. First(f) # {} => Min(First(f)) \in 1..Len(docs)
  BY FirstIs
<1> QED
  BY <1>1, <1>2

-----------------------------------------------------------------------------
(* Every call keeps the collection a sequence of documents.                 *)

\* At the start there are none.
LEMMA TypesInit == Init => TypeInv
<1>1. <<>> \in Seq(Doc) /\ Len(<<>>) = 0
  OBVIOUS
<1> QED
  BY <1>1, Sizes DEF Init, TypeInv

\* Each of them keeps it so.
LEMMA TypesStep == TypeInv /\ [Next]_vars => TypeInv'
<1> SUFFICES ASSUME TypeInv, [Next]_vars
             PROVE  TypeInv'
  OBVIOUS
<1>1. docs \in Seq(Doc) /\ Len(docs) \in Nat /\ Len(docs) <= MaxDocs /\ MaxDocs \in Nat
  BY Sizes DEF TypeInv
<1>2. CASE UNCHANGED vars
  BY <1>2 DEF TypeInv, vars
<1>3. ASSUME NEW f, NEW proj \in Projections, NEW sort \in Sorts, Find(f, proj, sort)
      PROVE  TypeInv'
  BY <1>1, <1>3, FindKeeps DEF TypeInv, Kept
<1>4. ASSUME NEW doc \in Inserts, Insert(doc)
      PROVE  TypeInv'
  <2>1. /\ doc \in Doc /\ docs' = Append(docs, doc) /\ Len(docs) < MaxDocs
        /\ last'.call = "insert" /\ last'.ok \in BOOLEAN
    BY <1>4, InsertDoes
  <2>2. docs' \in Seq(Doc) /\ Len(docs') = Len(docs) + 1
    BY <1>1, <2>1, AppendProperties
  <2> QED
    BY <1>1, <2>1, <2>2 DEF TypeInv
<1>5. ASSUME NEW f, NEW patch \in Patches, Update(f, patch)
      PROVE  TypeInv'
  <2>1. last'.call = "update" /\ last'.ok \in BOOLEAN
    BY <1>5, UpdateDoes
  <2>2. PICK i \in 1..Len(docs), d \in Doc : docs' = IF last'.ok THEN [docs EXCEPT ![i] = d] ELSE docs
    BY <1>5, UpdateDoes
  <2>3. docs' \in Seq(Doc) /\ Len(docs') = Len(docs)
    BY <1>1, <2>2
  <2> QED
    BY <1>1, <2>1, <2>3 DEF TypeInv
<1>6. ASSUME NEW f, NEW patch \in Patches, Upsert(f, patch)
      PROVE  TypeInv'
  <2>1. last'.call = "upsert" /\ last'.ok \in BOOLEAN /\ Len(docs) < MaxDocs
    BY <1>6, UpsertDoes
  <2>2. PICK d \in Doc : docs' = Append(docs, d) \/ docs' = docs
    BY <1>6, UpsertDoes
  <2>3. docs' \in Seq(Doc) /\ Len(docs') <= MaxDocs
    BY <1>1, <2>1, <2>2, AppendProperties
  <2> QED
    BY <2>1, <2>3 DEF TypeInv
<1>7. ASSUME NEW f, Delete(f)
      PROVE  TypeInv'
  <2>1. last'.call = "delete" /\ last'.ok \in BOOLEAN
    BY <1>7, DeleteDoes
  <2>2. docs' = docs \/ \E i \in 1..Len(docs) : docs' = RemoveAt(docs, i)
    BY <1>7, DeleteDoes
  <2>3. docs' \in Seq(Doc) /\ Len(docs') <= MaxDocs
    BY <1>1, <2>2, RemoveIs
  <2> QED
    BY <2>1, <2>3 DEF TypeInv
<1> QED
  BY <1>2, <1>3, <1>4, <1>5, <1>6, <1>7 DEF Next

\* Reading adds, drops and changes no document, whatever it sorts, projects and raises:
\* it reorders the collection, and loses nested keys that a projection excludes.
THEOREM ReadsOnlyLoseExcluded == Spec => ReadsKeepDocs
<1>1. TypeInv /\ [Next]_vars => [last'.call = "find" =>
       /\ Len(docs') = Len(docs)
       /\ \E g \in [DOMAIN docs -> DOMAIN docs] :
            IsInjective(g) /\ \A i \in DOMAIN docs : LostOnlyExcluded(docs'[i], docs[g[i]])]_vars
  <2> SUFFICES ASSUME TypeInv, Next, last'.call = "find"
               PROVE  /\ Len(docs') = Len(docs)
                      /\ \E g \in [DOMAIN docs -> DOMAIN docs] :
                           IsInjective(g) /\ \A i \in DOMAIN docs : LostOnlyExcluded(docs'[i], docs[g[i]])
    OBVIOUS
  <2>1. ASSUME NEW f, NEW proj \in Projections, NEW sort \in Sorts, Find(f, proj, sort)
        PROVE  \E h : Kept(h, docs, docs')
    BY <2>1, FindKeeps
  <2>2. ASSUME NEW doc \in Inserts
        PROVE  ~Insert(doc)
    BY InsertDoes
  <2>3. ASSUME NEW f, NEW patch \in Patches
        PROVE  ~Update(f, patch) /\ ~Upsert(f, patch)
    BY UpdateDoes, UpsertDoes
  <2>4. ASSUME NEW f
        PROVE  ~Delete(f)
    BY DeleteDoes
  <2>5. PICK h : Kept(h, docs, docs')
    BY <2>1, <2>2, <2>3, <2>4 DEF Next
  <2> QED
    BY <2>5 DEF Kept
<1> QED
  BY <1>1, TypesInit, TypesStep, PTL DEF Spec, ReadsKeepDocs

\* The places of the documents that lack required keys.
Lacking(s) == {i \in DOMAIN s : ~IsTotal(s[i])}

\* There are no more of them when they come from different places that lacked keys before.
LEMMA NoMoreInvalid ==
  ASSUME NEW s \in Seq(Doc), NEW t \in Seq(Doc), NEW g \in [Lacking(t) -> Lacking(s)],
         \A i, j \in Lacking(t) : g[i] = g[j] => i = j
  PROVE  ~(Invalid(t) > Invalid(s))
<1>1. Lacking(s) \in SUBSET (1..Len(s)) /\ Lacking(t) \in SUBSET (1..Len(t)) /\ Len(s) \in Nat /\ Len(t) \in Nat
  BY DEF Lacking
<1>2. IsFiniteSet(Lacking(s)) /\ Cardinality(Lacking(s)) \in Nat /\ Cardinality(Lacking(t)) \in Nat
  BY <1>1, CountIs
<1>3. g \in Injection(Lacking(t), Lacking(s))
  BY DEF Injection, IsInjective
<1>4. Cardinality(Lacking(t)) <= Cardinality(Lacking(s))
  BY <1>2, <1>3, FS_Injection
<1>5. Invalid(s) = Cardinality(Lacking(s)) /\ Invalid(t) = Cardinality(Lacking(t))
  BY DEF Invalid, Lacking
<1> QED
  BY <1>2, <1>4, <1>5

\* A search makes no document lack a required key.
LEMMA KeptInvalid ==
  ASSUME NEW s \in Seq(Doc), NEW t, NEW h, Kept(h, s, t)
  PROVE  ~(Invalid(t) > Invalid(s))
<1>1. t \in Seq(Doc) /\ DOMAIN s = DOMAIN t /\ h \in [DOMAIN s -> DOMAIN s] /\ IsInjective(h)
      /\ \A i \in DOMAIN s : Keys(t[i]) = Keys(s[h[i]])
  BY DEF Kept, LostOnlyExcluded
<1> DEFINE g == [i \in Lacking(t) |-> h[i]]
<1>2. \A i \in Lacking(t) : i \in DOMAIN s /\ h[i] \in Lacking(s)
  BY <1>1 DEF Lacking, IsTotal
<1>3. g \in [Lacking(t) -> Lacking(s)]
  BY <1>2
<1>4. \A i, j \in Lacking(t) : g[i] = g[j] => i = j
  BY <1>1, <1>2 DEF IsInjective
<1> HIDE DEF g
<1> QED
  BY <1>1, <1>3, <1>4, NoMoreInvalid

\* Neither does appending a document that has them all.
LEMMA AppendInvalid ==
  ASSUME NEW s \in Seq(Doc), NEW d \in Doc, IsTotal(d)
  PROVE  ~(Invalid(Append(s, d)) > Invalid(s))
<1> DEFINE t == Append(s, d)
           n == Len(s)
<1>1. t \in Seq(Doc) /\ Len(t) = n + 1 /\ n \in Nat /\ (\A i \in 1..n : t[i] = s[i]) /\ t[n + 1] = d
  BY AppendProperties
<1> HIDE DEF t
<1>2. \A i \in Lacking(t) : i \in Lacking(s)
  <2> TAKE i \in Lacking(t)
  <2>1. i \in 1..(n + 1) /\ ~IsTotal(t[i])
    BY <1>1 DEF Lacking
  <2>2. i # n + 1
    BY <1>1, <2>1
  <2>3. i \in 1..n /\ t[i] = s[i]
    BY <1>1, <2>1, <2>2
  <2> QED
    BY <2>1, <2>3 DEF Lacking
<1> DEFINE g == [i \in Lacking(t) |-> i]
<1>3. g \in [Lacking(t) -> Lacking(s)] /\ \A i, j \in Lacking(t) : g[i] = g[j] => i = j
  BY <1>2
<1> HIDE DEF g
<1>4. ~(Invalid(t) > Invalid(s))
  BY <1>1, <1>3, NoMoreInvalid
<1> QED
  BY <1>4 DEF t

\* Nor does removing a document.
LEMMA RemoveInvalid ==
  ASSUME NEW s \in Seq(Doc), NEW i \in 1..Len(s)
  PROVE  ~(Invalid(RemoveAt(s, i)) > Invalid(s))
<1> DEFINE t == RemoveAt(s, i)
           n == Len(s)
           to(j) == IF j < i THEN j ELSE j + 1
           g == [j \in Lacking(t) |-> to(j)]
<1>1. t \in Seq(Doc) /\ Len(t) = n - 1 /\ n \in Nat /\ \A j \in 1..(n - 1) : t[j] = s[to(j)]
  BY RemoveIs
<1> HIDE DEF t
<1>2. \A j \in Lacking(t) : j \in 1..(n - 1) /\ to(j) \in Lacking(s)
  <2> TAKE j \in Lacking(t)
  <2>1. j \in 1..(n - 1) /\ ~IsTotal(t[j])
    BY <1>1 DEF Lacking
  <2>2. to(j) \in 1..n /\ t[j] = s[to(j)]
    BY <1>1, <2>1
  <2> HIDE DEF to
  <2> QED
    BY <2>1, <2>2 DEF Lacking
<1>3. g \in [Lacking(t) -> Lacking(s)]
  <2> HIDE DEF to
  <2> QED
    BY <1>2
<1>4. \A j, l \in Lacking(t) : g[j] = g[l] => j = l
  <2> TAKE j, l \in Lacking(t)
  <2>1. j \in Int /\ l \in Int
    BY <1>2
  <2> QED
    BY <2>1
<1> HIDE DEF g
<1>5. ~(Invalid(t) > Invalid(s))
  BY <1>1, <1>3, <1>4, NoMoreInvalid
<1> QED
  BY <1>5 DEF t

\* At most one document differs from a collection in which one has been replaced.
LEMMA OneDiffers ==
  ASSUME NEW s \in Seq(Doc), NEW i \in 1..Len(s), NEW d \in Doc, NEW t, t = [s EXCEPT ![i] = d]
  PROVE  Len(t) = Len(s) /\ Cardinality({j \in DOMAIN s : t[j] # s[j]}) <= 1
<1> DEFINE S == {j \in DOMAIN s : t[j] # s[j]}
<1>1. Len(t) = Len(s) /\ S \subseteq {i}
  OBVIOUS
<1>2. IsFiniteSet({i}) /\ Cardinality({i}) = 1
  BY FS_Singleton
<1> HIDE DEF S
<1>3. Cardinality(S) <= 1
  BY <1>1, <1>2, FS_Subset
<1> QED
  BY <1>1, <1>3 DEF S

\* A patch is applied to one document and all of it, or not at all; the collection comes
\* to hold a document without required keys only from an insertion that raised and from
\* an update, whatever the calls before it have done.
THEOREM WritesWhole == Spec => WritesAreWhole
<1>1. TypeInv /\ [Next]_vars => [UpdateIsAllOrNothing /\ HowInvalidDocsCome]_vars
  <2> SUFFICES ASSUME TypeInv, Next
               PROVE  UpdateIsAllOrNothing /\ HowInvalidDocsCome
    OBVIOUS
  <2>1. docs \in Seq(Doc)
    BY DEF TypeInv
  <2>2. ~(Invalid(docs) > Invalid(docs))
    <3>1. Lacking(docs) \in SUBSET (1..Len(docs)) /\ Len(docs) \in Nat
      BY <2>1 DEF Lacking
    <3>2. Cardinality(Lacking(docs)) \in Nat
      BY <3>1, CountIs
    <3> QED
      BY <3>2 DEF Invalid, Lacking
  <2>3. ASSUME NEW f, NEW proj \in Projections, NEW sort \in Sorts, Find(f, proj, sort)
        PROVE  UpdateIsAllOrNothing /\ HowInvalidDocsCome
    <3>1. PICK h : last'.call = "find" /\ Kept(h, docs, docs')
      BY <2>3, FindKeeps
    <3>2. ~(Invalid(docs') > Invalid(docs))
      BY <2>1, <3>1, KeptInvalid
    <3> QED
      BY <3>1, <3>2 DEF UpdateIsAllOrNothing, HowInvalidDocsCome
  <2>4. ASSUME NEW doc \in Inserts, Insert(doc)
        PROVE  UpdateIsAllOrNothing /\ HowInvalidDocsCome
    <3>1. /\ doc \in Doc /\ docs' = Append(docs, doc) /\ last'.call = "insert" /\ last'.ok \in BOOLEAN
          /\ (last'.ok => IsTotal(doc)) /\ last' = [call |-> "insert", ok |-> last'.ok]
      BY <2>4, InsertDoes
    <3>2. last'.ok => ~(Invalid(docs') > Invalid(docs))
      BY <2>1, <3>1, AppendInvalid
    <3>3. ~last'.ok => last' = [call |-> "insert", ok |-> FALSE]
      BY <3>1
    <3> QED
      BY <3>1, <3>2, <3>3 DEF UpdateIsAllOrNothing, HowInvalidDocsCome
  <2>5. ASSUME NEW f, NEW patch \in Patches, Update(f, patch)
        PROVE  UpdateIsAllOrNothing /\ HowInvalidDocsCome
    <3>1. last'.ok \in BOOLEAN /\ last' = [call |-> "update", ok |-> last'.ok]
      BY <2>5, UpdateDoes
    <3>2. PICK i \in 1..Len(docs), d \in Doc : docs' = IF last'.ok THEN [docs EXCEPT ![i] = d] ELSE docs
      BY <2>5, UpdateDoes
    <3>3. CASE last'.ok
      <4>1. Len(docs') = Len(docs) /\ Cardinality({j \in DOMAIN docs : docs'[j] # docs[j]}) <= 1
        BY <2>1, <3>2, <3>3, OneDiffers
      <4>2. last' = [call |-> "update", ok |-> TRUE]
        BY <3>1, <3>3
      <4> QED
        BY <3>3, <4>1, <4>2 DEF UpdateIsAllOrNothing, HowInvalidDocsCome
    <3>4. CASE ~last'.ok
      BY <2>2, <3>2, <3>4 DEF UpdateIsAllOrNothing, HowInvalidDocsCome
    <3> QED
      BY <3>3, <3>4
  <2>6. ASSUME NEW f, NEW patch \in Patches, Upsert(f, patch)
        PROVE  UpdateIsAllOrNothing /\ HowInvalidDocsCome
    <3>1. last'.call = "upsert"
      BY <2>6, UpsertDoes
    <3>2. PICK d \in Doc : (IsTotal(d) /\ docs' = Append(docs, d)) \/ docs' = docs
      BY <2>6, UpsertDoes
    <3>3. ~(Invalid(docs') > Invalid(docs))
      BY <2>1, <2>2, <3>2, AppendInvalid
    <3> QED
      BY <3>1, <3>3 DEF UpdateIsAllOrNothing, HowInvalidDocsCome
  <2>7. ASSUME NEW f, Delete(f)
        PROVE  UpdateIsAllOrNothing /\ HowInvalidDocsCome
    <3>1. last'.call = "delete" /\ (docs' = docs \/ \E i \in 1..Len(docs) : docs' = RemoveAt(docs, i))
      BY <2>7, DeleteDoes
    <3>2. ~(Invalid(docs') > Invalid(docs))
      BY <2>1, <2>2, <3>1, RemoveInvalid
    <3> QED
      BY <3>1, <3>2 DEF UpdateIsAllOrNothing, HowInvalidDocsCome
  <2> QED
    BY <2>3, <2>4, <2>5, <2>6, <2>7 DEF Next
<1> QED
  BY <1>1, TypesInit, TypesStep, PTL DEF Spec, WritesAreWhole

-----------------------------------------------------------------------------
(* Filters.                                                                 *)
Meets(m, q, doc) == IF "all" \in DOMAIN q THEN \A i \in DOMAIN q.all : m[q.all[i]]
                    ELSE IF "any" \in DOMAIN q THEN \E i \in DOMAIN q.any : m[q.any[i]]
                    ELSE Compares(q, doc)

\* Whether a document meets a filter depends on whether it meets the parts.
LEMMA MeetsParts ==
  ASSUME NEW f, NEW g, NEW q, NEW doc, ~IsComparison(q) => \A part \in Parts(q) : f[part] = g[part]
  PROVE  Meets(f, q, doc) = Meets(g, q, doc)
<1>1. CASE "all" \in DOMAIN q
  <2>1. \A i \in DOMAIN q.all : f[q.all[i]] = g[q.all[i]]
    BY <1>1 DEF Parts, ToSet, IsComparison
  <2> QED
    BY <1>1, <2>1 DEF Meets
<1>2. CASE "all" \notin DOMAIN q /\ "any" \in DOMAIN q
  <2>1. \A i \in DOMAIN q.any : f[q.any[i]] = g[q.any[i]]
    BY <1>2 DEF Parts, ToSet, IsComparison
  <2> QED
    BY <1>2, <2>1 DEF Meets
<1>3. CASE IsComparison(q)
  BY <1>3 DEF Meets, IsComparison
<1> QED
  BY <1>1, <1>2, <1>3 DEF IsComparison

\* A filter is met as its parts are: filters are finite trees.
LEMMA MatchesIs ==
  ASSUME NEW doc
  PROVE  \E m : /\ m = [q \in Queries |-> Meets(m, q, doc)]
                /\ \A q \in Queries : Matches(q, doc) = m[q]
<1> DEFINE N == Cardinality(Queries) + 1
           Upto(n, f) == f = [q \in Queries |-> f[q]] /\ \A q \in Queries : Depth[q] < n => f[q] = Meets(f, q, doc)
           Q == {n \in 0..N : \E f : Upto(n, f)}
<1>1. Cardinality(Queries) \in Nat /\ N \in Nat /\ \A q \in Queries : Depth[q] \in Nat /\ Depth[q] < N
  <2>1. Cardinality(Queries) \in Nat
    BY Sizes, FS_CardinalityType
  <2> QED
    BY <2>1, QueriesAreTrees
<1>2. 0 \in Q
  <2> DEFINE f == [q \in Queries |-> 0]
  <2>0. f = [q \in Queries |-> f[q]] /\ \A q \in Queries : ~(Depth[q] < 0)
    BY <1>1
  <2>1. Upto(0, f)
    <3> HIDE DEF f
    <3> QED
      BY <2>0
  <2>2. \E h : Upto(0, h)
    <3> HIDE DEF Upto
    <3> QED
      BY <2>1
  <2> QED
    BY <1>1, <2>2
<1>3. ASSUME NEW n \in 0..(N - 1), n \in Q
      PROVE  n + 1 \in Q
  <2>1. PICK f : Upto(n, f)
    BY <1>3
  <2> DEFINE g == [q \in Queries |-> Meets(f, q, doc)]
  <2>2. \A q \in Queries : Depth[q] < n => f[q] = g[q]
    BY <2>1
  <2>3. ASSUME NEW q \in Queries, Depth[q] < n + 1
        PROVE  g[q] = Meets(g, q, doc)
    <3>1. ASSUME ~IsComparison(q), NEW part \in Parts(q)
          PROVE  f[part] = g[part]
      <4>1. part \in Queries /\ Depth[part] < Depth[q]
        BY <3>1, QueriesAreTrees
      <4>2. Depth[part] < n
        BY <1>1, <2>3, <4>1
      <4> QED
        BY <2>2, <4>1, <4>2
    <3>2. Meets(f, q, doc) = Meets(g, q, doc)
      <4> HIDE DEF g
      <4> QED
        BY <3>1, MeetsParts
    <3> QED
      BY <3>2
  <2>4. Upto(n + 1, g)
    <3>1. g = [q \in Queries |-> g[q]]
      OBVIOUS
    <3> HIDE DEF g
    <3> QED
      BY <2>3, <3>1
  <2>5. \E h : Upto(n + 1, h)
    <3> HIDE DEF Upto, g
    <3> QED
      BY <2>4
  <2> QED
    BY <1>1, <2>5
<1>4. N \in Q
  <2> HIDE DEF Q
  <2>1. 0..N \subseteq Q
    BY <1>1, <1>2, <1>3, Induct
  <2> QED
    BY <1>1, <2>1
<1>5. PICK f : Upto(N, f)
  BY <1>4
<1>6. f = [q \in Queries |-> Meets(f, q, doc)]
  BY <1>1, <1>5
<1> DEFINE m == CHOOSE h : h = [q \in Queries |-> Meets(h, q, doc)]
<1>7. m = [q \in Queries |-> Meets(m, q, doc)]
  BY <1>6
<1>8. \A q \in Queries : Matches(q, doc) = m[q]
  BY DEF Matches, Meets
<1> HIDE DEF m
<1> QED
  BY <1>7, <1>8

\* A document meets all of several filters, any of them, or a comparison.
LEMMA MatchesParts ==
  ASSUME NEW doc, NEW q \in Queries
  PROVE  /\ "all" \in DOMAIN q => (Matches(q, doc) <=> \A part \in Parts(q) : Matches(part, doc))
         /\ "all" \notin DOMAIN q /\ "any" \in DOMAIN q => (Matches(q, doc) <=> \E part \in Parts(q) : Matches(part, doc))
         /\ IsComparison(q) => (Matches(q, doc) <=> Compares(q, doc))
<1>1. PICK m : m = [p \in Queries |-> Meets(m, p, doc)] /\ \A p \in Queries : Matches(p, doc) = m[p]
  BY MatchesIs
<1>2. Matches(q, doc) = Meets(m, q, doc)
  <2>1. m[q] = Meets(m, q, doc)
    BY <1>1
  <2> QED
    BY <1>1, <2>1
<1>3. ~IsComparison(q) => \A part \in Parts(q) : Matches(part, doc) = m[part]
  BY <1>1, QueriesAreTrees
<1>4. ASSUME "all" \in DOMAIN q
      PROVE  Matches(q, doc) <=> \A part \in Parts(q) : Matches(part, doc)
  <2>1. Parts(q) = {q.all[i] : i \in DOMAIN q.all}
    BY <1>4 DEF Parts, ToSet
  <2>2. Matches(q, doc) <=> \A i \in DOMAIN q.all : m[q.all[i]]
    BY <1>2, <1>4 DEF Meets
  <2>3. \A part \in Parts(q) : Matches(part, doc) = m[part]
    BY <1>3, <1>4 DEF IsComparison
  <2> QED
    BY <2>1, <2>2, <2>3
<1>5. ASSUME "all" \notin DOMAIN q, "any" \in DOMAIN q
      PROVE  Matches(q, doc) <=> \E part \in Parts(q) : Matches(part, doc)
  <2>1. Parts(q) = {q.any[i] : i \in DOMAIN q.any}
    BY <1>5 DEF Parts, ToSet
  <2>2. Matches(q, doc) <=> \E i \in DOMAIN q.any : m[q.any[i]]
    BY <1>2, <1>5 DEF Meets
  <2>3. \A part \in Parts(q) : Matches(part, doc) = m[part]
    BY <1>3, <1>5 DEF IsComparison
  <2> QED
    BY <2>1, <2>2, <2>3
<1>6. ASSUME IsComparison(q)
      PROVE  Matches(q, doc) <=> Compares(q, doc)
  BY <1>2, <1>6 DEF Meets, IsComparison
<1> QED
  BY <1>4, <1>5, <1>6

\* What a comparison selects, by its operator, of the scalars there are.
LEMMA ComparesIs ==
  ASSUME NEW d \in Doc, NEW c \in [key : Names, op : {"$eq", "$ne", "$gt", "$gte", "$lt", "$lte", "$in"}, values : SUBSET Scalar]
  PROVE  Compares(c, d) <=>
           /\ c.key \in Keys(d) /\ ~IsNested(d[c.key])
           /\ c.op \in {"$eq", "$in"} => \E y \in c.values : Equal(d[c.key], y)
           /\ c.op = "$ne" => \A y \in c.values : ~Equal(d[c.key], y)
           /\ c.op \in {"$gt", "$gte", "$lt", "$lte"} => \A y \in c.values : Ordered(c.op, d[c.key], y)
BY DEF Compares

\* How numbers are ordered.
LEMMA OrderedIs ==
  ASSUME NEW x \in Scalar, NEW y \in Scalar
  PROVE  /\ Ordered("$gt", x, y) <=> IsNumber(x) /\ IsNumber(y) /\ x.v > y.v
         /\ Ordered("$gte", x, y) <=> IsNumber(x) /\ IsNumber(y) /\ x.v >= y.v
         /\ Ordered("$lt", x, y) <=> IsNumber(x) /\ IsNumber(y) /\ x.v < y.v
         /\ Ordered("$lte", x, y) <=> IsNumber(x) /\ IsNumber(y) /\ x.v <= y.v
         /\ IsNumber(x) /\ IsNumber(y) => (Equal(x, y) <=> x.v = y.v)
BY DEF Ordered, Equal


\* There are six scalars.
LEMMA ScalarsFinite == IsFiniteSet(Scalar)
<1> DEFINE K == {"num", "bool", "str"}
           P == K \X {0, 1}
           f == [p \in P |-> [t |-> p[1], v |-> p[2]]]
<1>1. IsFiniteSet({0, 1}) /\ IsFiniteSet(K)
  <2>1. IsFiniteSet({"num"} \cup {"bool"} \cup {"str"}) /\ IsFiniteSet({0} \cup {1})
    BY FS_Singleton, FS_Union
  <2>2. K = {"num"} \cup {"bool"} \cup {"str"} /\ {0, 1} = {0} \cup {1}
    OBVIOUS
  <2> QED
    BY <2>1, <2>2
<1>2. IsFiniteSet(P)
  <2> HIDE DEF K
  <2> QED
    BY <1>1, FS_Product
<1>3. f \in Surjection(P, Scalar)
  <2>1. f \in [P -> Scalar]
    BY DEF Scalar
  <2>2. ASSUME NEW x \in Scalar
        PROVE  \E p \in P : f[p] = x
    <3>1. <<x.t, x.v>> \in P /\ f[<<x.t, x.v>>] = x
      BY DEF Scalar
    <3> QED
      BY <3>1
  <2> HIDE DEF f, P
  <2> QED
    BY <2>1, <2>2 DEF Surjection
<1> HIDE DEF f, P
<1> QED
  BY <1>2, <1>3, FS_Surjection

\* A comparison with "$eq" is with one scalar.
LEMMA OneValue ==
  ASSUME NEW c \in Comparison, c.op = "$eq"
  PROVE  \E y \in Scalar : c.values = {y}
<1>1. c.values \in SUBSET Scalar /\ Cardinality(c.values) = 1
  BY DEF Comparison
<1>2. IsFiniteSet(c.values)
  BY <1>1, ScalarsFinite, FS_Subset
<1>3. PICK y : c.values = {y}
  BY <1>1, <1>2, FS_Singleton
<1> QED
  BY <1>1, <1>3

Comparing == [key : Names, op : {"$eq", "$ne", "$gt", "$gte", "$lt", "$lte", "$in"}, values : SUBSET Scalar]

\* A conjunction selects what no part of it rejects.
LEMMA AllIsMeet ==
  ASSUME NEW q \in Queries, "all" \in DOMAIN q
  PROVE  Selected(q) = DOMAIN docs \ UNION {DOMAIN docs \ Selected(part) : part \in Parts(q)}
<1>1. \A i \in DOMAIN docs : Matches(q, docs[i]) <=> \A part \in Parts(q) : Matches(part, docs[i])
  BY MatchesParts
<1> QED
  BY <1>1 DEF Selected

\* A disjunction selects what one of its parts does.
LEMMA AnyIsJoin ==
  ASSUME NEW q \in Queries, "all" \notin DOMAIN q, "any" \in DOMAIN q
  PROVE  Selected(q) = UNION {Selected(part) : part \in Parts(q)}
<1>1. \A i \in DOMAIN docs : Matches(q, docs[i]) <=> \E part \in Parts(q) : Matches(part, docs[i])
  BY MatchesParts
<1> QED
  BY <1>1 DEF Selected

\* A comparison selects the documents that pass it.
LEMMA ComparisonSelects ==
  ASSUME NEW q \in Queries, IsComparison(q)
  PROVE  Selected(q) = Passing(q)
BY MatchesParts DEF Selected, Passing

\* "$in" compares with each of its values.
LEMMA InIsUnion ==
  ASSUME TypeInv, NEW c \in Comparing, c.op = "$in"
  PROVE  Passing(c) = UNION {Passing([c EXCEPT !.op = "$eq", !.values = {v}]) : v \in c.values}
<1>1. DOMAIN docs = 1..Len(docs) /\ \A i \in DOMAIN docs : docs[i] \in Doc
  BY DEF TypeInv
<1>2. ASSUME NEW i \in DOMAIN docs
      PROVE  Compares(c, docs[i]) <=> \E v \in c.values : Compares([c EXCEPT !.op = "$eq", !.values = {v}], docs[i])
  <2> DEFINE d == docs[i]
             eq(v) == [c EXCEPT !.op = "$eq", !.values = {v}]
  <2>1. \A v \in c.values : eq(v) \in Comparing /\ eq(v).key = c.key /\ eq(v).op = "$eq" /\ eq(v).values = {v}
    BY DEF Comparing
  <2>2. Compares(c, d) <=> c.key \in Keys(d) /\ ~IsNested(d[c.key]) /\ \E y \in c.values : Equal(d[c.key], y)
    BY <1>1, ComparesIs DEF Comparing
  <2>3. \A v \in c.values : Compares(eq(v), d) <=> c.key \in Keys(d) /\ ~IsNested(d[c.key]) /\ Equal(d[c.key], v)
    <3> TAKE v \in c.values
    <3> DEFINE e == eq(v)
    <3>1. e \in Comparing /\ e.key = c.key /\ e.op = "$eq" /\ e.values = {v}
      BY <2>1
    <3> HIDE DEF e
    <3>2. Compares(e, d) <=> c.key \in Keys(d) /\ ~IsNested(d[c.key]) /\ Equal(d[c.key], v)
      BY <1>1, <3>1, ComparesIs DEF Comparing
    <3> QED
      BY <3>2 DEF e
  <2> QED
    BY <2>2, <2>3
<1> DEFINE eq(v) == [c EXCEPT !.op = "$eq", !.values = {v}]
<1>3. \A i \in DOMAIN docs : Compares(c, docs[i]) <=> \E v \in c.values : Compares(eq(v), docs[i])
  BY <1>2
<1> HIDE DEF eq
<1>4. Passing(c) = UNION {Passing(eq(v)) : v \in c.values}
  BY <1>3 DEF Passing
<1> QED
  BY <1>4 DEF eq

\* How the operators divide the documents that hold a scalar.
LEMMA OperatorsDivide ==
  ASSUME TypeInv, NEW q \in Comparison, q.op = "$eq", NEW scalars, NEW numbers,
         scalars = {i \in DOMAIN docs : q.key \in Keys(docs[i]) /\ ~IsNested(docs[i][q.key])},
         numbers = {i \in scalars : IsNumber(docs[i][q.key]) /\ \A v \in q.values : IsNumber(v)}
  PROVE  /\ Passing([q EXCEPT !.op = "$ne"]) = scalars \ Passing(q)
         /\ Passing([q EXCEPT !.op = "$gte"]) = numbers \ Passing([q EXCEPT !.op = "$lt"])
         /\ Passing([q EXCEPT !.op = "$lte"]) = numbers \ Passing([q EXCEPT !.op = "$gt"])
         /\ Passing([q EXCEPT !.op = "$gte"]) \cap Passing([q EXCEPT !.op = "$lte"]) = Passing(q) \cap numbers
<1>1. DOMAIN docs = 1..Len(docs) /\ \A i \in DOMAIN docs : docs[i] \in Doc
  BY DEF TypeInv
<1>2. PICK y \in Scalar : q.values = {y}
  BY OneValue
<1>3. q \in Comparing
  BY DEF Comparison, Comparing
<1> DEFINE as(op) == [q EXCEPT !.op = op]
           has(i) == q.key \in Keys(docs[i]) /\ ~IsNested(docs[i][q.key])
<1>4. \A op \in {"$eq", "$ne", "$gt", "$gte", "$lt", "$lte"} :
        as(op) \in Comparing /\ as(op).key = q.key /\ as(op).op = op /\ as(op).values = {y}
  BY <1>2, <1>3 DEF Comparing
<1>5. \A i \in DOMAIN docs : has(i) => docs[i][q.key] \in Scalar
  <2> TAKE i \in DOMAIN docs
  <2>1. q.key \in Keys(docs[i]) => docs[i][q.key] \in Value
    <3>1. docs[i] \in Doc
      BY <1>1
    <3> QED
      BY <3>1, DocHas DEF Keys
  <2> DEFINE val == docs[i][q.key]
  <2>2. ASSUME has(i)
        PROVE  val \in Scalar
    <3>1. val \in Value /\ ~IsNested(val)
      BY <2>1, <2>2
    <3> HIDE DEF val
    <3> QED
      BY <3>1 DEF Value, IsNested
  <2> QED
    BY <2>2
<1> DEFINE x(i) == docs[i][q.key]
<1>6. \A i \in DOMAIN docs :
        /\ Compares(q, docs[i]) <=> has(i) /\ Equal(x(i), y)
        /\ Compares(as("$ne"), docs[i]) <=> has(i) /\ ~Equal(x(i), y)
        /\ Compares(as("$gt"), docs[i]) <=> has(i) /\ Ordered("$gt", x(i), y)
        /\ Compares(as("$gte"), docs[i]) <=> has(i) /\ Ordered("$gte", x(i), y)
        /\ Compares(as("$lt"), docs[i]) <=> has(i) /\ Ordered("$lt", x(i), y)
        /\ Compares(as("$lte"), docs[i]) <=> has(i) /\ Ordered("$lte", x(i), y)
  <2> TAKE i \in DOMAIN docs
  <2> DEFINE d == docs[i]
  <2>1. ASSUME NEW c \in Comparing, c.key = q.key, c.values = {y}
        PROVE  /\ c.op = "$eq" => (Compares(c, d) <=> has(i) /\ Equal(d[q.key], y))
               /\ c.op = "$ne" => (Compares(c, d) <=> has(i) /\ ~Equal(d[q.key], y))
               /\ c.op \in {"$gt", "$gte", "$lt", "$lte"} => (Compares(c, d) <=> has(i) /\ Ordered(c.op, d[q.key], y))
    <3>1. d \in Doc
      BY <1>1
    <3> HIDE DEF d
    <3>2. Compares(c, d) <=>
           /\ c.key \in Keys(d) /\ ~IsNested(d[c.key])
           /\ c.op \in {"$eq", "$in"} => \E v \in c.values : Equal(d[c.key], v)
           /\ c.op = "$ne" => \A v \in c.values : ~Equal(d[c.key], v)
           /\ c.op \in {"$gt", "$gte", "$lt", "$lte"} => \A v \in c.values : Ordered(c.op, d[c.key], v)
      BY <3>1, ComparesIs DEF Comparing
    <3>3. has(i) <=> q.key \in Keys(d) /\ ~IsNested(d[q.key])
      BY DEF d
    <3> HIDE DEF has
    <3> QED
      BY <2>1, <3>2, <3>3
  <2> HIDE DEF as, has
  <2> QED
    BY <1>2, <1>3, <1>4, <2>1
<1> HIDE DEF as
<1>7. \A i \in DOMAIN docs : has(i) =>
        /\ Ordered("$gt", x(i), y) <=> IsNumber(x(i)) /\ IsNumber(y) /\ x(i).v > y.v
        /\ Ordered("$gte", x(i), y) <=> IsNumber(x(i)) /\ IsNumber(y) /\ x(i).v >= y.v
        /\ Ordered("$lt", x(i), y) <=> IsNumber(x(i)) /\ IsNumber(y) /\ x(i).v < y.v
        /\ Ordered("$lte", x(i), y) <=> IsNumber(x(i)) /\ IsNumber(y) /\ x(i).v <= y.v
        /\ IsNumber(x(i)) /\ IsNumber(y) => (Equal(x(i), y) <=> x(i).v = y.v)
        /\ x(i).v \in Int /\ y.v \in Int
  <2> TAKE i \in DOMAIN docs
  <2> HAVE has(i)
  <2>1. x(i) \in Scalar /\ x(i).v \in Int /\ y.v \in Int
    <3>1. x(i) \in Scalar
      BY <1>5
    <3> HIDE DEF x
    <3> QED
      BY <3>1 DEF Scalar
  <2> HIDE DEF x, has
  <2> QED
    BY <1>2, <2>1, OrderedIs
<1>8. \A i \in DOMAIN docs : i \in numbers <=> has(i) /\ IsNumber(x(i)) /\ IsNumber(y)
  BY <1>2
<1>9. \A i \in DOMAIN docs : i \in scalars <=> has(i)
  OBVIOUS
<1>10. scalars \subseteq DOMAIN docs /\ numbers \subseteq DOMAIN docs
  OBVIOUS
<1> HIDE DEF has
<1>11. Passing(as("$ne")) = scalars \ Passing(q)
  BY <1>6, <1>9, <1>10 DEF Passing
<1> HIDE DEF x
<1>12. Passing(as("$gte")) = numbers \ Passing(as("$lt"))
  <2>1. ASSUME NEW i \in DOMAIN docs
        PROVE  Compares(as("$gte"), docs[i]) <=> i \in numbers /\ ~Compares(as("$lt"), docs[i])
    <3>1. CASE has(i)
      <4>1. Ordered("$gte", x(i), y) <=> IsNumber(x(i)) /\ IsNumber(y) /\ x(i).v >= y.v
        BY <1>7, <3>1
      <4>2. Ordered("$lt", x(i), y) <=> IsNumber(x(i)) /\ IsNumber(y) /\ x(i).v < y.v
        BY <1>7, <3>1
      <4>3. x(i).v >= y.v <=> ~(x(i).v < y.v)
        BY <1>7, <3>1
      <4>4. x(i).v <= y.v <=> ~(x(i).v > y.v)
        BY <1>7, <3>1
      <4> QED
        BY <1>6, <1>8, <3>1, <4>1, <4>2, <4>3, <4>4
    <3> QED
      BY <1>6, <1>8, <3>1
  <2> QED
    BY <1>10, <2>1 DEF Passing
<1>13. Passing(as("$lte")) = numbers \ Passing(as("$gt"))
  <2>1. ASSUME NEW i \in DOMAIN docs
        PROVE  Compares(as("$lte"), docs[i]) <=> i \in numbers /\ ~Compares(as("$gt"), docs[i])
    <3>1. CASE has(i)
      <4>1. Ordered("$lte", x(i), y) <=> IsNumber(x(i)) /\ IsNumber(y) /\ x(i).v <= y.v
        BY <1>7, <3>1
      <4>2. Ordered("$gt", x(i), y) <=> IsNumber(x(i)) /\ IsNumber(y) /\ x(i).v > y.v
        BY <1>7, <3>1
      <4>3. x(i).v >= y.v <=> ~(x(i).v < y.v)
        BY <1>7, <3>1
      <4>4. x(i).v <= y.v <=> ~(x(i).v > y.v)
        BY <1>7, <3>1
      <4> QED
        BY <1>6, <1>8, <3>1, <4>1, <4>2, <4>3, <4>4
    <3> QED
      BY <1>6, <1>8, <3>1
  <2> QED
    BY <1>10, <2>1 DEF Passing
<1>14. Passing(as("$gte")) \cap Passing(as("$lte")) = Passing(q) \cap numbers
  <2>1. ASSUME NEW i \in DOMAIN docs
        PROVE  (Compares(as("$gte"), docs[i]) /\ Compares(as("$lte"), docs[i])) <=> (i \in numbers /\ Compares(q, docs[i]))
    <3>1. CASE has(i)
      <4>1. Ordered("$gte", x(i), y) <=> IsNumber(x(i)) /\ IsNumber(y) /\ x(i).v >= y.v
        BY <1>7, <3>1
      <4>2. Ordered("$lte", x(i), y) <=> IsNumber(x(i)) /\ IsNumber(y) /\ x(i).v <= y.v
        BY <1>7, <3>1
      <4>3. x(i).v = y.v <=> x(i).v >= y.v /\ x(i).v <= y.v
        BY <1>7, <3>1
      <4>4. IsNumber(x(i)) /\ IsNumber(y) => (Equal(x(i), y) <=> x(i).v = y.v)
        BY <1>7, <3>1
      <4> QED
        BY <1>6, <1>8, <3>1, <4>1, <4>2, <4>3, <4>4
    <3> QED
      BY <1>6, <1>8, <3>1
  <2> QED
    BY <1>10, <2>1 DEF Passing
<1> QED
  BY <1>11, <1>12, <1>13, <1>14 DEF as

\* The operators of a query mean together what they mean in logic.
LEMMA QueriesAreLogic == TypeInv => QueryIsLogic
<1> SUFFICES ASSUME TypeInv
             PROVE  QueryIsLogic
  OBVIOUS
<1>1. ASSUME NEW q \in Queries, IsComparison(q)
      PROVE  q \in Comparison /\ q \in Comparing /\ Selected(q) = Passing(q)
  BY <1>1, QueriesAreTrees, ComparisonSelects DEF Comparison, Comparing
<1>2. \A q \in Queries : IsComparison(q) /\ q.op = "$in" =>
        Selected(q) = UNION {Passing([q EXCEPT !.op = "$eq", !.values = {v}]) : v \in q.values}
  BY <1>1, InIsUnion
<1>3. ASSUME NEW q \in Queries, IsComparison(q), q.op = "$eq"
      PROVE  LET as(op) == Passing([q EXCEPT !.op = op])
                 scalars == {i \in DOMAIN docs : q.key \in Keys(docs[i]) /\ ~IsNested(docs[i][q.key])}
                 numbers == {i \in scalars : IsNumber(docs[i][q.key]) /\ \A v \in q.values : IsNumber(v)}
             IN /\ as("$ne") = scalars \ Selected(q)
                /\ as("$gte") = numbers \ as("$lt") /\ as("$lte") = numbers \ as("$gt")
                /\ as("$gte") \cap as("$lte") = Selected(q) \cap numbers
  <2> DEFINE scalars == {i \in DOMAIN docs : q.key \in Keys(docs[i]) /\ ~IsNested(docs[i][q.key])}
             numbers == {i \in scalars : IsNumber(docs[i][q.key]) /\ \A v \in q.values : IsNumber(v)}
  <2>1. q \in Comparison /\ Selected(q) = Passing(q)
    BY <1>1, <1>3
  <2>2. /\ Passing([q EXCEPT !.op = "$ne"]) = scalars \ Passing(q)
        /\ Passing([q EXCEPT !.op = "$gte"]) = numbers \ Passing([q EXCEPT !.op = "$lt"])
        /\ Passing([q EXCEPT !.op = "$lte"]) = numbers \ Passing([q EXCEPT !.op = "$gt"])
        /\ Passing([q EXCEPT !.op = "$gte"]) \cap Passing([q EXCEPT !.op = "$lte"]) = Passing(q) \cap numbers
    <3>1. scalars = {i \in DOMAIN docs : q.key \in Keys(docs[i]) /\ ~IsNested(docs[i][q.key])}
      OBVIOUS
    <3>2. numbers = {i \in scalars : IsNumber(docs[i][q.key]) /\ \A v \in q.values : IsNumber(v)}
      OBVIOUS
    <3> HIDE DEF scalars, numbers
    <3> QED
      BY <1>3, <2>1, <3>1, <3>2, OperatorsDivide
  <2> QED
    BY <2>1, <2>2
<1> QED
  BY <1>2, <1>3, AllIsMeet, AnyIsJoin DEF QueryIsLogic

-----------------------------------------------------------------------------
(* The order in which documents are returned.                               *)
\* What a sorting does not fail on can be compared.
LEMMA SortableIs ==
  ASSUME NEW s \in Seq(Doc), NEW sort \in Seq(SortKey), ~SortFails(s, sort), Len(s) > 1
  PROVE  \A c \in DOMAIN sort : Comparable(s, sort[c])
<1> TAKE c \in DOMAIN sort
<1> DEFINE key == sort[c].key
<1>1. sort[c] \in SortKey /\ Len(s) \in Nat /\ DOMAIN s = 1..Len(s)
  OBVIOUS
<1>2. Sortable(s, key)
  BY DEF SortFails
<1>3. \A i \in DOMAIN s : key \in Keys(s[i]) /\ (IsNumber(s[i][key]) \/ IsString(s[i][key]))
  BY <1>1, <1>2 DEF Sortable
<1>4. ASSUME NEW i \in DOMAIN s
      PROVE  s[i][key].v \in Int
  <2> DEFINE x == s[i][key]
  <2>1. s[i] \in Doc
    BY <1>1
  <2>2. x \in Value
    BY <1>3, <2>1, DocHas DEF Keys
  <2>3. ~IsNested(x)
    BY <1>3 DEF IsNumber, IsString
  <2> HIDE DEF x
  <2>4. x \in Scalar
    BY <2>2, <2>3 DEF Value, IsNested
  <2>5. x.v \in Int
    BY <2>4 DEF Scalar
  <2> QED
    BY <2>5 DEF x
<1>5. sort[c].desc \in BOOLEAN
  BY <1>1 DEF SortKey
<1> QED
  BY <1>4, <1>5 DEF Comparable

\* Of two documents at most one comes before the other.
LEMMA LexIsStrict ==
  ASSUME NEW n \in Nat, NEW s, DOMAIN s = 1..n, NEW sort, Len(sort) \in Nat,
         \A c \in 1..Len(sort) : Comparable(s, sort[c]),
         NEW x \in 1..n, NEW y \in 1..n, Lex(s, sort, 1, x, y)
  PROVE  ~Lex(s, sort, 1, y, x)
<1> DEFINE D == Differ(s, sort, 1, x, y)
<1>1. D = Differ(s, sort, 1, y, x) /\ D \in SUBSET (1..Len(sort))
  BY DEF Differ
<1>2. CASE D = {}
  BY <1>1, <1>2 DEF Lex
<1>3. CASE D # {}
  <2> DEFINE k == sort[Min(D)]
  <2>1. Min(D) \in 1..Len(sort)
    <3> HIDE DEF D
    <3> QED
      BY <1>1, <1>3, MinIs
  <2>2. k.desc \in BOOLEAN /\ s[x][k.key].v \in Int /\ s[y][k.key].v \in Int
    <3> HIDE DEF D
    <3> QED
      BY <2>1 DEF Comparable
  <2>3. Before(s[x], s[y], k)
    BY <1>3 DEF Lex
  <2> HIDE DEF D
  <2>4. ~Before(s[y], s[x], k)
    <3> HIDE DEF k
    <3> QED
      BY <2>2, <2>3 DEF Before
  <2>5. Lex(s, sort, 1, y, x) => Before(s[y], s[x], k)
    BY <1>1, <1>3 DEF Lex
  <2> QED
    BY <2>4, <2>5
<1> QED
  BY <1>2, <1>3

\* What rearranges a sequence reaches each of its places.
LEMMA RearrangesAll ==
  ASSUME NEW n \in Nat, NEW h, NEW s, NEW u, Rearranges(h, n, s, u)
  PROVE  \A i \in 1..n : \E p \in 1..n : h[p] = i
<1> TAKE i \in 1..n
<1>1. h \in Injection(1..n, 1..n)
  BY DEF Rearranges, Injection, IsInjective
<1>2. IsFiniteSet(1..n)
  BY FS_Interval
<1>3. h \in Surjection(1..n, 1..n)
  BY <1>1, <1>2, FS_Injection
<1> QED
  BY <1>3 DEF Surjection

\* The places that are put before a place are as many as the places before it.
LEMMA PrefixCount ==
  ASSUME NEW n \in Nat, NEW h, NEW s, NEW u, Rearranges(h, n, s, u), NEW p \in 1..n
  PROVE  Cardinality({h[q] : q \in 1..(p - 1)}) = p - 1
<1> DEFINE A == 1..(p - 1)
           B == {h[q] : q \in A}
           g == [q \in A |-> h[q]]
<1>1. A \subseteq 1..n /\ IsFiniteSet(A) /\ Cardinality(A) = p - 1
  <2>1. p - 1 \in Nat
    OBVIOUS
  <2>2. IsFiniteSet(A) /\ Cardinality(A) = p - 1
    BY <2>1, FS_Interval
  <2> QED
    BY <2>2
<1>2. \A q, r \in A : h[q] = h[r] => q = r
  BY <1>1 DEF Rearranges
<1>3. g \in Bijection(A, B)
  <2> HIDE DEF A
  <2>1. g \in [A -> B]
    OBVIOUS
  <2>2. \A q, r \in A : g[q] = g[r] => q = r
    BY <1>2
  <2>3. \A b \in B : \E q \in A : g[q] = b
    OBVIOUS
  <2> HIDE DEF g, B
  <2> QED
    BY <2>1, <2>2, <2>3 DEF Bijection, Injection, Surjection, IsInjective
<1>4. ExistsBijection(A, B)
  BY <1>3 DEF ExistsBijection
<1>5. Cardinality(B) = Cardinality(A)
  <2> HIDE DEF A, B
  <2> QED
    BY <1>1, <1>4, FS_Bijection
<1> QED
  BY <1>1, <1>5

\* A document stands after those, and only those, that come before it.
LEMMA PlaceInOrder ==
  ASSUME NEW n \in Nat, NEW s, DOMAIN s = 1..n, NEW sort, Len(sort) \in Nat,
         \A c \in 1..Len(sort) : Comparable(s, sort[c]), NEW u, NEW h,
         Rearranges(h, n, s, u), LexSorted(h, n, s, sort, 1), NEW i \in 1..n
  PROVE  u[1 + Cardinality({j \in DOMAIN s : Lex(s, sort, 1, j, i)})] = s[i]
<1>1. PICK p \in 1..n : h[p] = i
  BY RearrangesAll
<1> DEFINE B == {h[q] : q \in 1..(p - 1)}
           S == {j \in DOMAIN s : Lex(s, sort, 1, j, i)}
<1>2. S = B
  <2>1. ASSUME NEW q \in 1..(p - 1)
        PROVE  h[q] \in S
    <3>1. q \in 1..n /\ q < p
      OBVIOUS
    <3>2. h[q] \in 1..n
      BY <3>1 DEF Rearranges
    <3>3. Lex(s, sort, 1, h[q], h[p])
      BY <3>1 DEF LexSorted
    <3> QED
      BY <1>1, <3>2, <3>3
  <2>2. ASSUME NEW j \in S
        PROVE  j \in B
    <3>1. j \in 1..n /\ Lex(s, sort, 1, j, i)
      BY <1>1
    <3>2. PICK q \in 1..n : h[q] = j
      BY <3>1, RearrangesAll
    <3>3. ~Lex(s, sort, 1, i, j)
      BY <3>1, LexIsStrict
    <3>4. p # q
      BY <1>1, <3>1, <3>2, <3>3
    <3>5. ~(p < q)
      BY <1>1, <3>2, <3>3 DEF LexSorted
    <3>6. q \in 1..(p - 1)
      BY <3>4, <3>5
    <3> QED
      BY <3>2, <3>6
  <2> HIDE DEF S
  <2> QED
    BY <2>1, <2>2
<1>3. Cardinality(B) = p - 1
  <2> HIDE DEF B
  <2> QED
    BY PrefixCount DEF B
<1>4. 1 + Cardinality(S) = p
  <2> HIDE DEF S, B
  <2> QED
    BY <1>1, <1>2, <1>3
<1>5. u[p] = s[i]
  BY <1>1 DEF Rearranges
<1> HIDE DEF S
<1>6. u[1 + Cardinality(S)] = s[i]
  BY <1>4, <1>5
<1> QED
  BY <1>6 DEF S

\* So it does in what sorting makes of a sequence.
LEMMA SortedPlace ==
  ASSUME NEW s \in Seq(Doc), NEW sort \in Seq(SortKey), ~SortFails(s, sort), Len(s) > 1, NEW i \in DOMAIN s
  PROVE  SortBy(s, sort)[1 + Cardinality({j \in DOMAIN s : Lex(s, sort, 1, j, i)})] = s[i]
<1>1. Len(s) \in Nat /\ DOMAIN s = 1..Len(s) /\ Len(sort) \in Nat /\ DOMAIN sort = 1..Len(sort)
  OBVIOUS
<1>2. \A c \in DOMAIN sort : Comparable(s, sort[c])
  BY SortableIs
<1>3. PICK h : Rearranges(h, Len(s), s, SortBy(s, sort)) /\ LexSorted(h, Len(s), s, sort, 1)
  BY <1>2, SortByIs
<1> QED
  BY <1>1, <1>2, <1>3, PlaceInOrder

\* Sorting sorts by the first key, within it by the second, and is stable.
LEMMA SortingIsLexicographic == TypeInv => SortIsLexicographic
<1> SUFFICES ASSUME TypeInv, NEW sort \in Sorts, ~SortFails(docs, sort)
             PROVE  LET differ(i, j) == {k \in DOMAIN sort : docs[i][sort[k].key].v # docs[j][sort[k].key].v}
                        precedes(i, j) == IF differ(i, j) = {} THEN i < j
                                          ELSE Before(docs[i], docs[j], sort[Min(differ(i, j))])
                    IN Len(docs) > 1 =>
                         \A i \in DOMAIN docs :
                           SortBy(docs, sort)[1 + Cardinality({j \in DOMAIN docs : precedes(j, i)})] = docs[i]
  BY DEF SortIsLexicographic
<1> DEFINE differ(i, j) == {k \in DOMAIN sort : docs[i][sort[k].key].v # docs[j][sort[k].key].v}
           precedes(i, j) == IF differ(i, j) = {} THEN i < j
                             ELSE Before(docs[i], docs[j], sort[Min(differ(i, j))])
<1> SUFFICES ASSUME Len(docs) > 1, NEW i \in DOMAIN docs
             PROVE  SortBy(docs, sort)[1 + Cardinality({j \in DOMAIN docs : precedes(j, i)})] = docs[i]
  OBVIOUS
<1>1. sort \in Seq(SortKey) /\ docs \in Seq(Doc)
  BY SortsAreTyped DEF SortKey, TypeInv
<1>2. \A j \in DOMAIN docs : differ(j, i) = Differ(docs, sort, 1, j, i)
  <2>1. DOMAIN sort = 1..Len(sort)
    BY <1>1
  <2> QED
    BY <2>1 DEF Differ
<1>3. \A j \in DOMAIN docs : precedes(j, i) <=> Lex(docs, sort, 1, j, i)
  <2> HIDE DEF differ
  <2> QED
    BY <1>2 DEF Lex
<1> HIDE DEF precedes
<1>4. {j \in DOMAIN docs : precedes(j, i)} = {j \in DOMAIN docs : Lex(docs, sort, 1, j, i)}
  BY <1>3
<1>5. SortBy(docs, sort)[1 + Cardinality({j \in DOMAIN docs : Lex(docs, sort, 1, j, i)})] = docs[i]
  BY <1>1, SortedPlace
<1> QED
  BY <1>4, <1>5

-----------------------------------------------------------------------------
(* Pages.                                                                   *)

\* The lesser of two numbers.
LEMMA LesserIs ==
  ASSUME NEW a \in Int, NEW b \in Int
  PROVE  Min({a, b}) = IF a <= b THEN a ELSE b
<1>1. \E x \in {a, b} : \A y \in {a, b} : x <= y
  <2>1. CASE a <= b
    BY <2>1
  <2>2. CASE ~(a <= b)
    BY <2>2
  <2> QED
    BY <2>1, <2>2
<1>2. Min({a, b}) \in {a, b} /\ \A y \in {a, b} : Min({a, b}) <= y
  BY <1>1 DEF Min
<1> QED
  BY <1>2

\* A page holds the b members that follow the first a, as far as there are any.
OnPage(page, D, r, a, b) ==
  /\ page \in Seq(D)
  /\ Len(page) = IF Len(r) <= a THEN 0 ELSE IF b <= Len(r) - a THEN b ELSE Len(r) - a
  /\ \A i \in 1..Len(page) : page[i] = r[a + i]

\* What is on a page.
LEMMA PageIs ==
  ASSUME NEW D, NEW r \in Seq(D), NEW a \in Nat, NEW b \in Nat
  PROVE  OnPage(Page(r, a, b), D, r, a, b)
<1> DEFINE m == IF b <= Len(r) - a THEN b ELSE Len(r) - a
           n == IF Len(r) <= a THEN 0 ELSE m
           pg == [i \in 1..n |-> r[a + i]]
<1>1. Len(r) \in Nat /\ n \in Nat /\ Len(r) - a \in Int
  OBVIOUS
<1>2. Min({b, Len(r) - a}) = m
  BY <1>1, LesserIs
<1>3. 1..m = 1..n
  BY <1>1
<1>4. \A i \in 1..n : a + i \in 1..Len(r)
  BY <1>1
<1>5. pg \in Seq(D) /\ Len(pg) = n
  <2>1. \A i \in 1..n : r[a + i] \in D
    BY <1>4
  <2> HIDE DEF n
  <2> QED
    BY <1>1, <2>1
<1>6. Page(r, a, b) = pg
  <2> HIDE DEF m, n
  <2> QED
    BY <1>2, <1>3 DEF Page
<1>7. \A i \in 1..Len(pg) : pg[i] = r[a + i]
  <2> HIDE DEF n
  <2> QED
    BY <1>5
<1> HIDE DEF pg
<1> QED
  BY <1>5, <1>6, <1>7 DEF n, m, OnPage

\* A page continues what comes before it.
LEMMA PageContinues ==
  ASSUME NEW D, NEW r \in Seq(D), NEW a \in Nat, NEW b \in Nat
  PROVE  Page(r, 0, a) \o Page(r, a, b) = Page(r, 0, a + b)
<1> DEFINE x == Page(r, 0, a)
           y == Page(r, a, b)
           z == Page(r, 0, a + b)
<1>1. Len(r) \in Nat /\ 0 \in Nat /\ a + b \in Nat
  OBVIOUS
<1>2. x \in Seq(D) /\ Len(x) = (IF a <= Len(r) THEN a ELSE Len(r)) /\ \A i \in 1..Len(x) : x[i] = r[i]
  <2>1. OnPage(x, D, r, 0, a)
    BY <1>1, PageIs
  <2> HIDE DEF x
  <2> QED
    BY <1>1, <2>1 DEF OnPage
<1>3. /\ y \in Seq(D) /\ Len(y) = IF Len(r) <= a THEN 0 ELSE IF b <= Len(r) - a THEN b ELSE Len(r) - a
      /\ \A i \in 1..Len(y) : y[i] = r[a + i]
  <2>1. OnPage(y, D, r, a, b)
    BY PageIs
  <2> HIDE DEF y
  <2> QED
    BY <2>1 DEF OnPage
<1>4. z \in Seq(D) /\ Len(z) = (IF a + b <= Len(r) THEN a + b ELSE Len(r)) /\ \A i \in 1..Len(z) : z[i] = r[i]
  <2>1. OnPage(z, D, r, 0, a + b)
    BY <1>1, PageIs
  <2> HIDE DEF z
  <2> QED
    BY <1>1, <2>1 DEF OnPage
<1> HIDE DEF x, y, z
<1>5. x \o y \in Seq(D) /\ Len(x \o y) = Len(x) + Len(y)
  <2>1. x \in Seq(D) /\ y \in Seq(D)
    BY <1>2, <1>3
  <2> QED
    BY <2>1
<1>6. Len(x) + Len(y) = Len(z) /\ Len(x) \in Nat /\ Len(y) \in Nat
  <2> DEFINE l == Len(r)
             lx == Len(x)
             ly == Len(y)
             lz == Len(z)
  <2>1. /\ lx = (IF a <= l THEN a ELSE l) /\ ly = (IF l <= a THEN 0 ELSE IF b <= l - a THEN b ELSE l - a)
        /\ lz = (IF a + b <= l THEN a + b ELSE l) /\ l \in Nat
    BY <1>1, <1>2, <1>3, <1>4
  <2> HIDE DEF l, lx, ly, lz
  <2>2. lx + ly = lz /\ lx \in Nat /\ ly \in Nat
    BY <2>1
  <2> QED
    BY <2>2 DEF lx, ly, lz
<1>7. ASSUME NEW i \in 1..Len(z)
      PROVE  (x \o y)[i] = z[i]
  <2>1. CASE i <= Len(x)
    <3>1. (x \o y)[i] = x[i]
      BY <1>2, <1>3, <2>1
    <3> QED
      BY <1>2, <1>4, <2>1, <3>1
  <2>2. CASE ~(i <= Len(x))
    <3>1. (x \o y)[i] = y[i - Len(x)] /\ i - Len(x) \in 1..Len(y)
      <4>1. x \in Seq(D) /\ y \in Seq(D)
        BY <1>2, <1>3
      <4>2. i \in 1..(Len(x) + Len(y)) /\ i - Len(x) \in 1..Len(y)
        BY <1>6, <2>2
      <4> QED
        BY <2>2, <4>1, <4>2
    <3>2. Len(y) # 0
      BY <1>6, <3>1
    <3>3. Len(x) = a
      BY <1>1, <1>2, <1>3, <3>2
    <3>4. y[i - Len(x)] = r[a + (i - Len(x))] /\ a + (i - Len(x)) = i
      BY <1>3, <3>1, <3>3
    <3> QED
      BY <1>4, <3>1, <3>4
  <2> QED
    BY <2>1, <2>2
<1>8. x \o y = z
  <2> DEFINE v == x \o y
  <2>1. v \in Seq(D) /\ z \in Seq(D) /\ Len(v) = Len(z) /\ \A i \in 1..Len(z) : v[i] = z[i]
    BY <1>4, <1>5, <1>6, <1>7
  <2> HIDE DEF v
  <2>2. v = z
    BY <2>1
  <2> QED
    BY <2>2 DEF v
<1> QED
  BY <1>8 DEF x, y, z

\* Joined, the pages of a sequence are the sequence.
LEMMA PagesJoin ==
  ASSUME NEW D, NEW r \in Seq(D), NEW M \in Nat, Len(r) <= M, NEW size \in 1..2
  PROVE  FlattenSeq([k \in 1..M |-> Page(r, (k - 1) * size, size)]) = Page(r, 0, M)
<1> DEFINE s == [k \in 1..M |-> Page(r, (k - 1) * size, size)]
           Body(h, i) == IF i = 1 THEN s[i] ELSE h[i - 1] \o s[i]
           F == [k \in 1..M |-> Page(r, 0, k * size)]
           u == CHOOSE h : h = [i \in 1..M |-> Body(h, i)]
<1>1. Len(s) = M /\ Len(r) \in Nat
  OBVIOUS
<1>2. CASE M = 0
  <2>1. Page(r, 0, M) \in Seq(D) /\ Len(Page(r, 0, M)) = 0
    <3>1. OnPage(Page(r, 0, M), D, r, 0, M)
      BY <1>2, PageIs
    <3> QED
      BY <1>1, <1>2, <3>1 DEF OnPage
  <2>2. Page(r, 0, M) = <<>> /\ s = <<>>
    BY <1>2, <2>1
  <2> QED
    BY <1>1, <1>2, <2>2 DEF FlattenSeq
<1>3. CASE M # 0
  <2>1. ASSUME NEW k \in 1..M
        PROVE  F[k] = Body(F, k)
    <3> DEFINE a == (k - 1) * size
    <3>1. a \in Nat /\ size \in Nat /\ a + size = k * size
      <4>1. CASE size = 1
        BY <4>1
      <4>2. CASE size = 2
        BY <4>2
      <4> QED
        BY <4>1, <4>2
    <3>2. s[k] = Page(r, a, size) /\ F[k] = Page(r, 0, a + size)
      <4>1. F[k] = Page(r, 0, k * size)
        OBVIOUS
      <4> QED
        BY <3>1, <4>1
    <3>3. CASE k = 1
      <4>1. a = 0 /\ a + size = size
        BY <3>1, <3>3
      <4> QED
        BY <3>2, <3>3, <4>1
    <3>4. CASE k # 1
      <4>1. k - 1 \in 1..M /\ F[k - 1] = Page(r, 0, a)
        BY <3>4
      <4>2. Page(r, 0, a) \o Page(r, a, size) = Page(r, 0, a + size)
        <5> HIDE DEF a
        <5> QED
          BY <3>1, PageContinues
      <4> QED
        BY <3>2, <3>4, <4>1, <4>2
    <3> QED
      BY <3>3, <3>4
  <2>2. F = [i \in 1..M |-> Body(F, i)]
    <3> HIDE DEF Body
    <3>1. F = [k \in 1..M |-> F[k]]
      OBVIOUS
    <3> HIDE DEF F
    <3> QED
      BY <2>1, <3>1
  <2>3. u = [i \in 1..M |-> Body(u, i)]
    <3> HIDE DEF Body, F
    <3> QED
      BY <2>2
  <2>4. FlattenSeq(s) = u[M]
    <3>1. Len(s) # 0
      BY <1>1, <1>3
    <3> QED
      BY <1>1, <3>1 DEF FlattenSeq
  <2> HIDE DEF u, s, F
  <2> DEFINE Q == {n \in 0..M : n = 0 \/ u[n] = F[n]}
  <2>5. ASSUME NEW n \in 0..(M - 1), n \in Q
        PROVE  n + 1 \in Q
    <3>1. n + 1 \in 1..M /\ n + 1 \in 0..M /\ n + 1 - 1 = n
      OBVIOUS
    <3>2. u[n + 1] = Body(u, n + 1) /\ F[n + 1] = Body(F, n + 1)
      <4> HIDE DEF Body
      <4> QED
        BY <2>1, <2>3, <3>1
    <3>3. u[n + 1] = F[n + 1]
      <4>1. CASE n = 0
        BY <3>2, <4>1
      <4>2. CASE n # 0
        <5>1. n + 1 # 1 /\ u[n] = F[n]
          BY <2>5, <4>2
        <5> DEFINE k == n + 1
        <5>2. k # 1 /\ k - 1 = n /\ u[k] = Body(u, k) /\ F[k] = Body(F, k)
          BY <3>1, <3>2, <5>1
        <5> HIDE DEF k
        <5>3. u[k] = u[n] \o s[k] /\ F[k] = F[n] \o s[k]
          BY <5>2
        <5> QED
          BY <5>1, <5>3 DEF k
      <4> QED
        BY <4>1, <4>2
    <3> QED
      BY <3>1, <3>3
  <2>6. M \in Q
    <3>1. 0 \in Q
      OBVIOUS
    <3>2. 0..M \subseteq Q
      <4> HIDE DEF Q
      <4> QED
        BY <2>5, <3>1, Induct
    <3> QED
      BY <3>2
  <2>7. F[M] = Page(r, 0, M)
    <3>1. M * size \in Nat /\ M <= M * size
      <4>1. CASE size = 1
        BY <4>1
      <4>2. CASE size = 2
        BY <4>2
      <4> QED
        BY <4>1, <4>2
    <3>2. M \in 1..M
      BY <1>3
    <3>3. F[M] = Page(r, 0, M * size)
      BY <3>2 DEF F
    <3> DEFINE b == M * size
    <3> HIDE DEF b
    <3>4. b \in Nat /\ M <= b
      BY <3>1 DEF b
    <3>5. Min({b, Len(r) - 0}) = Len(r) /\ Min({M, Len(r) - 0}) = Len(r)
      BY <1>1, <3>4, LesserIs
    <3>6. Page(r, 0, b) = Page(r, 0, M)
      BY <3>5 DEF Page
    <3> QED
      BY <3>3, <3>6 DEF b
  <2>8. u[M] = Page(r, 0, M)
    BY <1>3, <2>6, <2>7
  <2>9. FlattenSeq(s) = Page(r, 0, M)
    BY <2>4, <2>8
  <2> QED
    BY <2>9 DEF s
<1> QED
  BY <1>2, <1>3

\* What a filter has taken, after one more document.
Taken(f, acc, d) == IF Matches(f, d) THEN Append(acc, d) ELSE acc
FoundBy(u, D, f, s) == /\ u \in [0..Len(s) -> Seq(D)] /\ u[0] = <<>>
                       /\ \A n \in 1..Len(s) : u[n] = Taken(f, u[n - 1], s[n])
                       /\ Found(f, s) = u[Len(s)]

\* It is a sequence of documents.
LEMMA TakenIs ==
  ASSUME NEW D, NEW f, NEW acc \in Seq(D), NEW d \in D
  PROVE  Taken(f, acc, d) \in Seq(D) /\ Len(Taken(f, acc, d)) <= Len(acc) + 1
BY DEF Taken

\* A filter takes one document after the other.
LEMMA FoundSteps ==
  ASSUME NEW D, NEW s \in Seq(D), NEW filter, filter # NoFilter
  PROVE  \E u : FoundBy(u, D, filter, s)
<1> DEFINE N == Len(s)
           base == <<>>
           step == [q \in (Seq(D)) \X (1..N) |-> Taken(filter, q[1], s[q[2]])]
           Body(h, s_) == IF s_ = {} THEN <<>>
                          ELSE Taken(filter, h[s_ \ {Max(s_)}], s[Max(s_)])
           iter == CHOOSE h : h = [s_ \in SUBSET (1..N) |-> Body(h, s_)]
<1>1. N \in Nat /\ base \in Seq(D) /\ DOMAIN s = 1..N /\ \A n \in 1..N : s[n] \in D
  OBVIOUS
<1>2. step \in [(Seq(D)) \X (1..N) -> Seq(D)]
  BY <1>1, TakenIs
<1>3. PICK f : Folds(f, Seq(D), N, base, step)
  <2> HIDE DEF base, step
  <2> QED
    BY <1>1, <1>2, FoldExists
<1>4. Found(filter, s) = iter[1..N]
  BY <1>1 DEF Found, Taken, FoldLeft, MapThenFoldSet
<1>5. f = [s_ \in SUBSET (1..N) |-> Body(f, s_)]
  <2>1. ASSUME NEW s_ \in SUBSET (1..N)
        PROVE  f[s_] = Body(f, s_)
    <3>1. s_ # {} => f[s_ \ {Max(s_)}] \in Seq(D) /\ Max(s_) \in 1..N
      BY <1>1, <1>3, MaxIs DEF Folds
    <3> QED
      BY <1>3, <3>1 DEF Folds
  <2>2. f = [s_ \in SUBSET (1..N) |-> f[s_]]
    BY <1>3 DEF Folds
  <2> HIDE DEF Body
  <2> QED
    BY <2>1, <2>2
<1>6. iter = [s_ \in SUBSET (1..N) |-> Body(iter, s_)]
  <2> HIDE DEF Body
  <2> QED
    BY <1>5
<1> HIDE DEF iter
<1> DEFINE u == [n \in 0..N |-> iter[1..n]]
<1>7. u[0] = base
  <2>1. 0 \in 0..N /\ 1..0 = {} /\ {} \in SUBSET (1..N)
    BY <1>1
  <2> QED
    BY <1>6, <2>1
<1>8. ASSUME NEW n \in 1..N
      PROVE  u[n] = Taken(filter, u[n - 1], s[n])
  <2>1. n \in 0..N /\ n - 1 \in 0..N
    BY <1>1
  <2>2. iter[1..n] = Body(iter, 1..n)
    <3> HIDE DEF Body
    <3> QED
      BY <1>1, <1>6, UptoIs
  <2> QED
    BY <1>1, <2>1, <2>2, UptoIs
<1>9. u \in [0..N -> Seq(D)]
  <2> DEFINE S == {n \in 0..N : u[n] \in Seq(D)}
  <2> HIDE DEF u
  <2>1. 0 \in S
    <3>1. 0 \in 0..N /\ u[0] \in Seq(D)
      BY <1>1, <1>7
    <3> QED
      BY <3>1
  <2>2. ASSUME NEW n \in 0..(N - 1), n \in S
        PROVE  n + 1 \in S
    <3>1. n + 1 \in 1..N /\ n + 1 \in 0..N /\ n + 1 - 1 = n
      BY <1>1
    <3>2. u[n + 1] = Taken(filter, u[n], s[n + 1])
      BY <1>8, <3>1
    <3> QED
      BY <1>1, <2>2, <3>1, <3>2, TakenIs
  <2>3. 0..N \subseteq S
    <3> HIDE DEF S
    <3> QED
      BY <1>1, <2>1, <2>2, Induct
  <2> QED
    BY <2>3 DEF u
<1>10. Found(filter, s) = u[N]
  BY <1>1, <1>4
<1> QED
  <2> HIDE DEF u
  <2> QED
    BY <1>7, <1>8, <1>9, <1>10 DEF FoundBy


\* A filter finds no more documents than there are.
LEMMA FoundIs ==
  ASSUME NEW D, NEW s \in Seq(D), NEW f
  PROVE  Found(f, s) \in Seq(D) /\ Len(Found(f, s)) <= Len(s)
<1>1. CASE f = NoFilter
  <2>1. Found(f, s) = s
    BY <1>1 DEF Found
  <2>2. s \in Seq(D) /\ Len(s) <= Len(s)
    OBVIOUS
  <2> QED
    BY <2>1, <2>2
<1>2. CASE f # NoFilter
  <2>0. \E u : FoundBy(u, D, f, s)
    BY <1>2, FoundSteps
  <2> DEFINE N == Len(s)
  <2>1. PICK u \in [0..N -> Seq(D)] : /\ u[0] = <<>>
                                      /\ \A n \in 1..N : u[n] = Taken(f, u[n - 1], s[n])
                                      /\ Found(f, s) = u[N]
    BY <2>0 DEF FoundBy
  <2>2. N \in Nat /\ \A n \in 1..N : s[n] \in D
    OBVIOUS
  <2> HIDE DEF N
  <2> DEFINE S == {n \in 0..N : Len(u[n]) <= n}
  <2>3. 0 \in S
    BY <2>1, <2>2
  <2>4. ASSUME NEW n \in 0..(N - 1), n \in S
        PROVE  n + 1 \in S
    <3>1. n + 1 \in 1..N /\ n + 1 \in 0..N /\ n + 1 - 1 = n /\ u[n] \in Seq(D) /\ s[n + 1] \in D
      BY <2>1, <2>2
    <3>2. u[n + 1] = Taken(f, u[n], s[n + 1])
      BY <2>1, <3>1
    <3>3. Len(u[n + 1]) <= Len(u[n]) + 1 /\ u[n + 1] \in Seq(D)
      BY <3>1, <3>2, TakenIs
    <3> QED
      BY <2>4, <3>1, <3>3
  <2>5. 0..N \subseteq S
    <3> HIDE DEF S
    <3> QED
      BY <2>2, <2>3, <2>4, Induct
  <2>6. Found(f, s) \in Seq(D) /\ Len(Found(f, s)) <= N
    BY <2>1, <2>2, <2>5
  <2> QED
    BY <2>6 DEF N
<1> QED
  BY <1>1, <1>2

\* Reading page by page returns what reading at once does.
LEMMA PagesAreComplete == TypeInv => PagesCover
<1> SUFFICES ASSUME TypeInv, NEW f, NEW sort \in Sorts, NEW size \in 1..2
             PROVE  FlattenSeq([k \in 1..MaxDocs |-> Answer(f, <<>>, sort, (k - 1) * size, size)])
                      = Answer(f, <<>>, sort, 0, MaxDocs)
  BY DEF PagesCover
<1> DEFINE sorted == SortBy(Found(f, docs), sort)
           r == [i \in DOMAIN sorted |-> Project(sorted[i], <<>>).res]
           R == {Project(sorted[i], <<>>).res : i \in DOMAIN sorted}
<1>1. docs \in Seq(Doc) /\ Len(docs) <= MaxDocs /\ sort \in Seq(SortKey) /\ MaxDocs \in Nat
  BY SortsAreTyped, Sizes DEF TypeInv, SortKey
<1>2. Found(f, docs) \in Seq(Doc) /\ Len(Found(f, docs)) <= Len(docs)
  BY <1>1, FoundIs
<1>3. sorted \in Seq(Doc) /\ Len(sorted) = Len(Found(f, docs))
  BY <1>1, <1>2, SortByIs DEF Rearranges
<1> HIDE DEF sorted
<1>4. r \in Seq(R) /\ Len(r) <= MaxDocs
  <2>1. Len(sorted) \in Nat /\ DOMAIN sorted = 1..Len(sorted) /\ Len(sorted) <= MaxDocs
    BY <1>1, <1>2, <1>3
  <2>2. r \in [1..Len(sorted) -> R]
    BY <2>1
  <2> HIDE DEF r, R
  <2> QED
    BY <2>1, <2>2
<1>5. \A a, b : Answer(f, <<>>, sort, a, b) = Page(r, a, b)
  BY DEF Answer, sorted
<1> HIDE DEF r, R
<1>6. FlattenSeq([k \in 1..MaxDocs |-> Page(r, (k - 1) * size, size)]) = Page(r, 0, MaxDocs)
  BY <1>1, <1>4, PagesJoin
<1> QED
  BY <1>5, <1>6
\* What the induction keeps says of the collection what the type invariant says.
LEMMA TypesAre == TypeInv => TypeOK
<1> SUFFICES ASSUME TypeInv
             PROVE  TypeOK
  OBVIOUS
<1>1. docs \in Seq(ToSet(docs))
  <2>1. DOMAIN docs = 1..Len(docs) /\ Len(docs) \in Nat /\ docs = [i \in 1..Len(docs) |-> docs[i]]
    BY DEF TypeInv
  <2>2. docs \in [1..Len(docs) -> ToSet(docs)]
    BY <2>1 DEF ToSet
  <2> QED
    BY <2>1, <2>2
<1>2. \A i \in DOMAIN docs : IsDoc(docs[i])
  <2>1. \A i \in DOMAIN docs : docs[i] \in Doc
    BY DEF TypeInv
  <2> QED
    BY <2>1, DocIs
<1> QED
  BY <1>1, <1>2 DEF TypeInv, TypeOK

\* Filters are logic, sorting is stable and lexicographic, and pages cover what is found:
\* in every state of a collection, for any documents, filters, sortings and patches.
THEOREM AnswersCompose == Spec => []Inv
<1>1. TypeInv => Inv
  BY TypesAre, QueriesAreLogic, SortingIsLexicographic, PagesAreComplete DEF Inv
<1> QED
  BY <1>1, TypesInit, TypesStep, PTL DEF Spec

-----------------------------------------------------------------------------
(* Projections that include and projections that exclude divide the leaves  *)
(* of a document.                                                           *)
LeafAt(d, k, v) == k # "_id" /\ k \in Keys(d) /\ ~IsNested(d[k]) /\ d[k] = v
LeafIn(d, k, x, v) == k # "_id" /\ NestedAt(d, k) /\ x \in DOMAIN d[k].nested /\ d[k].nested[x] = v

\* The leaves of a document, taken apart.
LEMMA LeavesAre ==
  ASSUME NEW d, NEW l
  PROVE  l \in Leaves(d) <=> \/ \E k, v : l = <<k, v>> /\ LeafAt(d, k, v)
                             \/ \E k, x, v : l = <<k, x, v>> /\ LeafIn(d, k, x, v)
<1> DEFINE under(k) == IF IsNested(d[k]) THEN {<<k, x, d[k].nested[x]>> : x \in DOMAIN d[k].nested} ELSE {<<k, d[k]>>}
<1>1. l \in Leaves(d) <=> \E k \in Keys(d) \ {"_id"} : l \in under(k)
  BY DEF Leaves
<1>2. ASSUME NEW k \in Keys(d) \ {"_id"}, l \in under(k)
      PROVE  \/ \E j, v : l = <<j, v>> /\ LeafAt(d, j, v)
             \/ \E j, x, v : l = <<j, x, v>> /\ LeafIn(d, j, x, v)
  <2>1. CASE IsNested(d[k])
    <3>1. PICK x \in DOMAIN d[k].nested : l = <<k, x, d[k].nested[x]>>
      BY <1>2, <2>1
    <3>2. LeafIn(d, k, x, d[k].nested[x])
      BY <2>1 DEF LeafIn, NestedAt
    <3> QED
      BY <3>1, <3>2
  <2>2. CASE ~IsNested(d[k])
    <3>1. l = <<k, d[k]>> /\ LeafAt(d, k, d[k])
      BY <1>2, <2>2 DEF LeafAt
    <3> QED
      BY <3>1
  <2> QED
    BY <2>1, <2>2
<1>3. ASSUME NEW k, NEW v, l = <<k, v>>, LeafAt(d, k, v)
      PROVE  \E j \in Keys(d) \ {"_id"} : l \in under(j)
  <2>1. k \in Keys(d) \ {"_id"} /\ l \in under(k)
    BY <1>3 DEF LeafAt
  <2> QED
    BY <2>1
<1>4. ASSUME NEW k, NEW x, NEW v, l = <<k, x, v>>, LeafIn(d, k, x, v)
      PROVE  \E j \in Keys(d) \ {"_id"} : l \in under(j)
  <2>1. k \in Keys(d) \ {"_id"} /\ l \in under(k)
    BY <1>4 DEF LeafIn, NestedAt
  <2> QED
    BY <2>1
<1> HIDE DEF under
<1> QED
  BY <1>1, <1>2, <1>3, <1>4

\* A key that is set has the leaves of its value, and the others keep theirs.
LEMMA WithLeaves ==
  ASSUME NEW d, NEW k, NEW z
  PROVE  /\ \A j, v : LeafAt(With(d, k, z), j, v) <=>
                        IF j = k THEN j # "_id" /\ ~IsNested(z) /\ z = v ELSE LeafAt(d, j, v)
         /\ \A j, x, v : LeafIn(With(d, k, z), j, x, v) <=>
                           IF j = k THEN j # "_id" /\ IsNested(z) /\ x \in DOMAIN z.nested /\ z.nested[x] = v
                           ELSE LeafIn(d, j, x, v)
<1> DEFINE w == With(d, k, z)
<1>1. Keys(w) = Keys(d) \cup {k} /\ w[k] = z /\ \A j \in Keys(d) : j # k => w[j] = d[j]
  BY DEF With, Keys
<1> HIDE DEF w
<1>2. \A j, v : LeafAt(w, j, v) <=> IF j = k THEN j # "_id" /\ ~IsNested(z) /\ z = v ELSE LeafAt(d, j, v)
  BY <1>1 DEF LeafAt
<1>3. ASSUME NEW j, NEW x, NEW v
      PROVE  LeafIn(w, j, x, v) <=> IF j = k THEN j # "_id" /\ IsNested(z) /\ x \in DOMAIN z.nested /\ z.nested[x] = v
                                    ELSE LeafIn(d, j, x, v)
  <2>1. CASE j = k
    BY <1>1, <2>1 DEF LeafIn, NestedAt
  <2>2. CASE j # k
    <3>1. j \in Keys(w) <=> j \in Keys(d)
      BY <1>1, <2>2
    <3>2. j \in Keys(d) => w[j] = d[j]
      BY <1>1, <2>2
    <3> QED
      BY <2>2, <3>1, <3>2 DEF LeafIn, NestedAt
  <2> QED
    BY <2>1, <2>2
<1> QED
  BY <1>2, <1>3 DEF w

\* A key that is removed has no leaves, and the others keep theirs.
LEMMA WithoutLeaves ==
  ASSUME NEW d, NEW k
  PROVE  /\ \A j, v : LeafAt(Without(d, k), j, v) <=> j # k /\ LeafAt(d, j, v)
         /\ \A j, x, v : LeafIn(Without(d, k), j, x, v) <=> j # k /\ LeafIn(d, j, x, v)
<1> DEFINE w == Without(d, k)
<1>1. Keys(w) = Keys(d) \ {k} /\ \A j \in Keys(d) : j # k => w[j] = d[j]
  BY DEF Without, Keys
<1> HIDE DEF w
<1>2. \A j, v : LeafAt(w, j, v) <=> j # k /\ LeafAt(d, j, v)
  BY <1>1 DEF LeafAt
<1>3. \A j, x, v : LeafIn(w, j, x, v) <=> j # k /\ LeafIn(d, j, x, v)
  BY <1>1 DEF LeafIn, NestedAt
<1> QED
  BY <1>2, <1>3 DEF w

\* A document with the leaves of another that are under some paths, or under none of them.
Included(res, doc, H) ==
  /\ \A k, v : LeafAt(res, k, v) <=> LeafAt(doc, k, v) /\ <<k>> \in H
  /\ \A k, x, v : LeafIn(res, k, x, v) <=> LeafIn(doc, k, x, v) /\ (<<k>> \in H \/ <<k, x>> \in H)
Excluded(res, doc, H) ==
  /\ \A k, v : LeafAt(res, k, v) <=> LeafAt(doc, k, v) /\ <<k>> \notin H
  /\ \A k, x, v : LeafIn(res, k, x, v) <=> LeafIn(doc, k, x, v) /\ <<k>> \notin H /\ <<k, x>> \notin H

\* Paths are equal if their keys are.
LEMMA PathsDiffer ==
  /\ \A a, b : <<a>> = <<b>> <=> a = b
  /\ \A a, b, c, d : <<a, b>> = <<c, d>> <=> a = c /\ b = d
  /\ \A a, b, c : <<a>> # <<b, c>>
<1>1. \A a, b, c : Len(<<a>>) = 1 /\ Len(<<b, c>>) = 2
  OBVIOUS
<1> QED
  BY <1>1

\* An entry of an inclusion includes what is under its path.
LEMMA IncludeLeaves ==
  ASSUME NEW doc, NEW res, NEW H, Included(res, doc, H), NEW e \in Entry, Takes(e) \/ IsId(e)
  PROVE  Included(IncludeStep(res, doc, e), doc, H \cup {e.path})
<1> DEFINE p == e.path
           r == IncludeStep(res, doc, e)
           G == H \cup {p}
<1>1. p \in Path /\ (IsId(e) <=> p = <<"_id">>) /\ (Takes(e) => ~IsId(e))
  BY DEF Entry, IsId, Takes
<1>2. CASE IsId(e)
  <2>1. r = res /\ p = <<"_id">>
    BY <1>1, <1>2 DEF IncludeStep
  <2>2. \A k, x : (<<k, x>> \in G <=> <<k, x>> \in H) /\ (k # "_id" => (<<k>> \in G <=> <<k>> \in H))
    BY <2>1, PathsDiffer
  <2>3. \A k, x, v : (LeafAt(doc, k, v) => k # "_id") /\ (LeafIn(doc, k, x, v) => k # "_id")
    BY DEF LeafAt, LeafIn
  <2> HIDE DEF r, G, p
  <2>4. Included(r, doc, G)
    BY <2>1, <2>2, <2>3 DEF Included
  <2> QED
    BY <2>4 DEF r, G, p
<1>3. CASE ~IsId(e) /\ Len(p) = 1
  <2> DEFINE k0 == p[1]
  <2>1. p = <<k0>> /\ Takes(e)
    BY <1>1, <1>3, PathIs
  <2>2. \A k, x : (<<k, x>> \in G <=> <<k, x>> \in H) /\ (<<k>> \in G <=> k = k0 \/ <<k>> \in H)
    <3> HIDE DEF k0
    <3> QED
      BY <2>1, PathsDiffer
  <2>3. k0 # "_id"
    BY <1>1, <1>3, <2>1
  <2>4. CASE k0 \in Keys(doc)
    <3> DEFINE z == doc[k0]
    <3>1. r = With(res, k0, z)
      BY <1>3, <2>1, <2>4 DEF IncludeStep, Has, At, Put
    <3> HIDE DEF r, G, p, k0
    <3>2. ASSUME NEW k, NEW v
          PROVE  LeafAt(r, k, v) <=> LeafAt(doc, k, v) /\ <<k>> \in G
      <4>1. LeafAt(r, k, v) <=> IF k = k0 THEN k # "_id" /\ ~IsNested(z) /\ z = v ELSE LeafAt(res, k, v)
        BY <3>1, WithLeaves
      <4>2. CASE k = k0
        BY <2>2, <2>3, <2>4, <4>1, <4>2 DEF LeafAt
      <4>3. CASE k # k0
        BY <2>2, <4>1, <4>3 DEF Included
      <4> QED
        BY <4>2, <4>3
    <3>3. ASSUME NEW k, NEW x, NEW v
          PROVE  LeafIn(r, k, x, v) <=> LeafIn(doc, k, x, v) /\ (<<k>> \in G \/ <<k, x>> \in G)
      <4>1. LeafIn(r, k, x, v) <=> IF k = k0 THEN k # "_id" /\ IsNested(z) /\ x \in DOMAIN z.nested /\ z.nested[x] = v
                                   ELSE LeafIn(res, k, x, v)
        BY <3>1, WithLeaves
      <4>2. CASE k = k0
        BY <2>2, <2>3, <2>4, <4>1, <4>2 DEF LeafIn, NestedAt
      <4>3. CASE k # k0
        BY <2>2, <4>1, <4>3 DEF Included
      <4> QED
        BY <4>2, <4>3
    <3>4. Included(r, doc, G)
      BY <3>2, <3>3 DEF Included
    <3> QED
      BY <3>4 DEF r, G, p
  <2>5. CASE k0 \notin Keys(doc)
    <3>1. r = res
      BY <1>3, <2>5 DEF IncludeStep, Has
    <3>2. \A x, v : ~LeafAt(doc, k0, v) /\ ~LeafIn(doc, k0, x, v)
      BY <2>5 DEF LeafAt, LeafIn, NestedAt
    <3> HIDE DEF r, G, p, k0
    <3>3. Included(r, doc, G)
      BY <2>2, <3>1, <3>2 DEF Included
    <3> QED
      BY <3>3 DEF r, G, p
  <2> QED
    BY <2>4, <2>5
<1>4. CASE ~IsId(e) /\ Len(p) = 2
  <2> DEFINE k0 == p[1]
             x0 == p[2]
  <2>1. p = <<k0, x0>> /\ Takes(e)
    BY <1>1, <1>4, PathIs
  <2>2. \A k, x : (<<k>> \in G <=> <<k>> \in H) /\ (<<k, x>> \in G <=> (k = k0 /\ x = x0) \/ <<k, x>> \in H)
    <3> HIDE DEF k0, x0
    <3> QED
      BY <2>1, PathsDiffer
  <2>3. CASE Has(doc, p)
    <3> DEFINE y == doc[k0].nested[x0]
               f == IF NestedAt(res, k0) THEN res[k0].nested ELSE <<>>
               z == [nested |-> With(f, x0, y)]
    <3>1. NestedAt(doc, k0) /\ x0 \in DOMAIN doc[k0].nested /\ At(doc, p) = y
      BY <1>4, <2>3 DEF Has, At
    <3>2. \E w : /\ r = With(w, k0, z)
                 /\ \A k, x, v : k # k0 => /\ LeafAt(w, k, v) <=> LeafAt(res, k, v)
                                           /\ LeafIn(w, k, x, v) <=> LeafIn(res, k, x, v)
      <4>1. CASE NestedAt(res, k0)
        <5>1. r = With(res, k0, z)
          BY <1>4, <2>1, <2>3, <3>1, <4>1 DEF IncludeStep, Put
        <5> HIDE DEF r, z
        <5> QED
          BY <5>1
      <4>2. CASE ~NestedAt(res, k0)
        <5> DEFINE w == With(res, k0, [nested |-> <<>>])
        <5>1. r = Put(w, p, y)
          BY <1>4, <2>1, <2>3, <3>1, <4>2 DEF IncludeStep
        <5>2. w[k0].nested = <<>>
          <6>1. w[k0] = [nested |-> <<>>]
            BY DEF With
          <6> HIDE DEF w
          <6> QED
            BY <6>1
        <5>3. Put(w, p, y) = With(w, k0, z)
          <6> HIDE DEF w
          <6>1. w[k0].nested = f
            BY <4>2, <5>2
          <6> QED
            BY <1>4, <6>1 DEF Put
        <5>4. \A k, x, v : k # k0 => /\ LeafAt(w, k, v) <=> LeafAt(res, k, v)
                                     /\ LeafIn(w, k, x, v) <=> LeafIn(res, k, x, v)
          <6> HIDE DEF k0
          <6> QED
            BY WithLeaves
        <5> HIDE DEF r, w, z
        <5> QED
          BY <5>1, <5>3, <5>4
      <4> QED
        BY <4>1, <4>2
    <3>3. /\ \A k, v : LeafAt(r, k, v) <=> k # k0 /\ LeafAt(res, k, v)
          /\ \A k, x, v : LeafIn(r, k, x, v) <=> IF k = k0 THEN k # "_id" /\ x \in DOMAIN z.nested /\ z.nested[x] = v
                                                 ELSE LeafIn(res, k, x, v)
      <4>1. IsNested(z)
        BY DEF IsNested
      <4> HIDE DEF r, z
      <4> QED
        BY <3>2, <4>1, WithLeaves
    <3>4. /\ x0 \in DOMAIN z.nested /\ z.nested[x0] = y
          /\ \A x : x # x0 => (x \in DOMAIN z.nested <=> x \in DOMAIN f)
          /\ \A x \in DOMAIN f : x # x0 => z.nested[x] = f[x]
      <4>1. z.nested = With(f, x0, y)
        OBVIOUS
      <4> HIDE DEF z, f, y, x0
      <4> QED
        BY <4>1 DEF With
    <3>5. \A x, v : k0 # "_id" => (x \in DOMAIN f /\ f[x] = v <=> LeafIn(res, k0, x, v))
      <4>1. CASE NestedAt(res, k0)
        BY <4>1 DEF LeafIn
      <4>2. CASE ~NestedAt(res, k0)
        <5>1. DOMAIN f = {}
          <6>1. f = <<>> /\ DOMAIN <<>> = {}
            BY <4>2
          <6> QED
            BY <6>1
        <5> HIDE DEF f
        <5> QED
          BY <4>2, <5>1 DEF LeafIn
      <4> QED
        BY <4>1, <4>2
    <3>6. ASSUME NEW k, NEW v
          PROVE  LeafAt(r, k, v) <=> LeafAt(doc, k, v) /\ <<k>> \in G
      <4>1. ~LeafAt(doc, k0, v)
        BY <3>1 DEF LeafAt, NestedAt
      <4> HIDE DEF r, G, p, k0
      <4> QED
        BY <2>2, <3>3, <4>1 DEF Included
    <3>7. ASSUME NEW k, NEW x, NEW v
          PROVE  LeafIn(r, k, x, v) <=> LeafIn(doc, k, x, v) /\ (<<k>> \in G \/ <<k, x>> \in G)
      <4>1. LeafIn(doc, k0, x0, v) <=> k0 # "_id" /\ y = v
        BY <3>1 DEF LeafIn
      <4> HIDE DEF r, G, p, k0, x0, y, f, z
      <4>2. LeafIn(res, k, x, v) <=> LeafIn(doc, k, x, v) /\ (<<k>> \in H \/ <<k, x>> \in H)
        BY DEF Included
      <4>3. CASE k # k0
        BY <2>2, <3>3, <4>2, <4>3
      <4>4. CASE k = k0 /\ x = x0
        <5>1. LeafIn(r, k0, x0, v) <=> k0 # "_id" /\ y = v
          BY <3>3, <3>4
        <5>2. <<k0, x0>> \in G
          BY <2>2
        <5> QED
          BY <4>1, <4>4, <5>1, <5>2
      <4>5. CASE k = k0 /\ x # x0
        <5>1. LeafIn(r, k, x, v) <=> k # "_id" /\ x \in DOMAIN z.nested /\ z.nested[x] = v
          BY <3>3, <4>5
        <5>2. x \in DOMAIN z.nested /\ z.nested[x] = v <=> x \in DOMAIN f /\ f[x] = v
          BY <3>4, <4>5
        <5>3. LeafIn(r, k, x, v) <=> k # "_id" /\ LeafIn(res, k, x, v)
          BY <3>5, <4>5, <5>1, <5>2
        <5>4. LeafIn(res, k, x, v) => k # "_id"
          BY DEF LeafIn
        <5> QED
          BY <2>2, <4>2, <4>5, <5>3, <5>4
      <4> QED
        BY <4>3, <4>4, <4>5
    <3>8. Included(r, doc, G)
      <4> HIDE DEF r, G, p
      <4> QED
        BY <3>6, <3>7 DEF Included
    <3> QED
      BY <3>8
  <2>4. CASE ~Has(doc, p)
    <3>1. r = res
      BY <2>4 DEF IncludeStep
    <3>2. \A v : ~LeafIn(doc, k0, x0, v)
      BY <1>4, <2>4 DEF Has, LeafIn
    <3> HIDE DEF r, G, p, k0, x0
    <3>3. Included(r, doc, G)
      BY <2>2, <3>1, <3>2 DEF Included
    <3> QED
      BY <3>3 DEF r, G, p
  <2> QED
    BY <2>3, <2>4
<1>5. Len(p) = 1 \/ Len(p) = 2
  BY <1>1, PathIs
<1> QED
  BY <1>2, <1>3, <1>4, <1>5

\* An entry of an exclusion excludes what is under its path.
LEMMA ExcludeLeaves ==
  ASSUME NEW doc, NEW acc, NEW H, Excluded(acc.res, doc, H), NEW e \in Entry, Drops(e) \/ IsId(e),
         acc = [res |-> acc.res, stored |-> acc.stored]
  PROVE  Excluded(ExcludeStep(acc, e).res, doc, H \cup {e.path})
<1> DEFINE p == e.path
           res == acc.res
           r == ExcludeStep(acc, e).res
           G == H \cup {p}
<1>1. p \in Path /\ (IsId(e) <=> p = <<"_id">>) /\ (Drops(e) => ~IsId(e))
  BY DEF Entry, IsId, Drops
<1>2. CASE IsId(e)
  <2>1. r = res /\ p = <<"_id">>
    BY <1>1, <1>2 DEF ExcludeStep
  <2>2. \A k, x : (<<k, x>> \in G <=> <<k, x>> \in H) /\ (k # "_id" => (<<k>> \in G <=> <<k>> \in H))
    BY <2>1, PathsDiffer
  <2>3. \A k, x, v : (LeafAt(doc, k, v) => k # "_id") /\ (LeafIn(doc, k, x, v) => k # "_id")
    BY DEF LeafAt, LeafIn
  <2> HIDE DEF r, G, p
  <2>4. Excluded(r, doc, G)
    BY <2>1, <2>2, <2>3 DEF Excluded
  <2> QED
    BY <2>4 DEF r, G, p
<1>3. CASE ~IsId(e) /\ Len(p) = 1
  <2> DEFINE k0 == p[1]
  <2>1. p = <<k0>> /\ Drops(e)
    BY <1>1, <1>3, PathIs
  <2>2. \A k, x : (<<k, x>> \in G <=> <<k, x>> \in H) /\ (<<k>> \in G <=> k = k0 \/ <<k>> \in H)
    <3> HIDE DEF k0
    <3> QED
      BY <2>1, PathsDiffer
  <2>3. r = Without(res, k0)
    <3>1. ExcludeStep(acc, e) = [acc EXCEPT !.res = Without(@, k0)]
      BY <1>3, <2>1 DEF ExcludeStep
    <3> DEFINE w == Without(acc.res, k0)
    <3>2. [acc EXCEPT !.res = Without(@, k0)] = [res |-> w, stored |-> acc.stored]
      <4> HIDE DEF w, k0
      <4> QED
        BY DEF w
    <3> HIDE DEF w, k0
    <3>3. r = w
      BY <3>1, <3>2
    <3> QED
      BY <3>3 DEF w
  <2> HIDE DEF r, G, p, k0
  <2>4. Excluded(r, doc, G)
    <3>1. /\ \A j, v : LeafAt(r, j, v) <=> j # k0 /\ LeafAt(res, j, v)
          /\ \A j, x, v : LeafIn(r, j, x, v) <=> j # k0 /\ LeafIn(res, j, x, v)
      BY <2>3, WithoutLeaves
    <3> QED
      BY <2>2, <3>1 DEF Excluded
  <2> QED
    BY <2>4 DEF r, G, p
<1>4. CASE ~IsId(e) /\ Len(p) = 2
  <2> DEFINE k0 == p[1]
             x0 == p[2]
  <2>1. p = <<k0, x0>> /\ Drops(e)
    BY <1>1, <1>4, PathIs
  <2>2. \A k, x : (<<k>> \in G <=> <<k>> \in H) /\ (<<k, x>> \in G <=> (k = k0 /\ x = x0) \/ <<k, x>> \in H)
    <3> HIDE DEF k0, x0
    <3> QED
      BY <2>1, PathsDiffer
  <2>3. CASE NestedAt(res, k0)
    <3> DEFINE f == res[k0].nested
               z == [nested |-> Without(f, x0)]
    <3>1. r = With(res, k0, z)
      BY <1>4, <2>1, <2>3 DEF ExcludeStep, Pop
    <3>2. z.nested = Without(f, x0) /\ IsNested(z)
      BY DEF IsNested
    <3>3. \A x, v : LeafIn(res, k0, x, v) <=> k0 # "_id" /\ x \in DOMAIN f /\ f[x] = v
      BY <2>3 DEF LeafIn
    <3>4. \A v : ~LeafAt(res, k0, v)
      BY <2>3 DEF LeafAt, NestedAt
    <3> HIDE DEF r, G, p, z, f, x0, k0
    <3>5. \A x, v : x \in DOMAIN z.nested /\ z.nested[x] = v <=> x # x0 /\ x \in DOMAIN f /\ f[x] = v
      BY <3>2 DEF Without
    <3>6. /\ \A k, v : LeafAt(r, k, v) <=> LeafAt(res, k, v)
          /\ \A k, x, v : LeafIn(r, k, x, v) <=> ~(k = k0 /\ x = x0) /\ LeafIn(res, k, x, v)
      <4>1. /\ \A k, v : LeafAt(r, k, v) <=> k # k0 /\ LeafAt(res, k, v)
            /\ \A k, x, v : LeafIn(r, k, x, v) <=>
                 IF k = k0 THEN k # "_id" /\ x \in DOMAIN z.nested /\ z.nested[x] = v ELSE LeafIn(res, k, x, v)
        BY <3>1, <3>2, WithLeaves
      <4>2. ASSUME NEW k, NEW x, NEW v
            PROVE  LeafIn(r, k, x, v) <=> ~(k = k0 /\ x = x0) /\ LeafIn(res, k, x, v)
        <5>1. CASE k = k0
          BY <3>3, <3>5, <4>1, <5>1
        <5>2. CASE k # k0
          BY <4>1, <5>2
        <5> QED
          BY <5>1, <5>2
      <4> QED
        BY <3>4, <4>1, <4>2
    <3>7. Excluded(r, doc, G)
      BY <2>2, <3>6 DEF Excluded
    <3> QED
      BY <3>7 DEF r, G, p
  <2>4. CASE ~NestedAt(res, k0)
    <3>1. r = res
      BY <1>4, <2>1, <2>4 DEF ExcludeStep
    <3>2. \A v : ~LeafIn(res, k0, x0, v)
      BY <2>4 DEF LeafIn
    <3> HIDE DEF r, G, p, k0, x0
    <3>3. Excluded(r, doc, G)
      BY <2>2, <3>1, <3>2 DEF Excluded
    <3> QED
      BY <3>3 DEF r, G, p
  <2> QED
    BY <2>3, <2>4
<1>5. Len(p) = 1 \/ Len(p) = 2
  BY <1>1, PathIs
<1> QED
  BY <1>2, <1>3, <1>4, <1>5

\* What an inclusion starts from.
Begin(doc, proj) == IF ~DropsId(proj) /\ "_id" \in Keys(doc) THEN With(<<>>, "_id", doc["_id"]) ELSE <<>>

\* It is a document.
LEMMA BeginIs ==
  ASSUME NEW doc \in Doc, NEW proj
  PROVE  Begin(doc, proj) \in Doc
<1>1. <<>> \in Partial(Value)
  BY EmptyIs
<1>2. CASE ~DropsId(proj) /\ "_id" \in Keys(doc)
  <2>1. "_id" \in Names /\ doc["_id"] \in Value
    BY <1>2, DocHas DEF Keys
  <2>2. With(<<>>, "_id", doc["_id"]) \in Partial(Value)
    BY <1>1, <2>1, WithIs
  <2> QED
    BY <1>2, <2>2 DEF Begin, Doc
<1>3. CASE ~(~DropsId(proj) /\ "_id" \in Keys(doc))
  BY <1>1, <1>3 DEF Begin, Doc
<1> QED
  BY <1>2, <1>3

\* An entry of an inclusion makes a document of one.
LEMMA IncludeIs ==
  ASSUME NEW doc \in Doc, NEW res \in Doc, NEW e \in Entry
  PROVE  IncludeStep(res, doc, e) \in Doc
<1> DEFINE p == e.path
           v == At(doc, p)
<1>1. p \in Path /\ (Len(p) = 1 \/ Len(p) = 2) /\ (Len(p) = 1 => Len(p) # 2)
  BY PathIs DEF Entry
<1>2. CASE ~Takes(e) \/ ~Has(doc, p)
  BY <1>2 DEF IncludeStep
<1>3. CASE Takes(e) /\ Has(doc, p) /\ (Len(p) = 1 \/ NestedAt(res, p[1]))
  <2>1. v \in Value /\ (Len(p) = 2 => v \in Scalar)
    BY <1>1, <1>3, AtIs
  <2> HIDE DEF v, p
  <2>2. Put(res, p, v) \in Doc
    BY <1>1, <1>3, <2>1, PutIs
  <2>3. IncludeStep(res, doc, e) = Put(res, p, v)
    BY <1>3 DEF IncludeStep, p, v
  <2> QED
    BY <2>2, <2>3
<1>4. CASE Takes(e) /\ Has(doc, p) /\ ~(Len(p) = 1 \/ NestedAt(res, p[1]))
  <2> DEFINE w == With(res, p[1], [nested |-> <<>>])
  <2>1. v \in Value /\ v \in Scalar
    BY <1>1, <1>4, AtIs
  <2>2. [nested |-> <<>>] \in Value /\ IsNested([nested |-> <<>>])
    <3>1. <<>> \in Level
      BY EmptyIs DEF Level
    <3> QED
      BY <3>1, NestIs
  <2>3. p[1] \in Names /\ res \in Partial(Value)
    BY <1>1, PathIs DEF Doc
  <2>4. w \in Doc /\ NestedAt(w, p[1])
    <3> DEFINE k == p[1]
               z == [nested |-> <<>>]
    <3>0. z \in Value /\ k \in Names /\ res \in Partial(Value)
      BY <2>2, <2>3
    <3> HIDE DEF z, k, v, p
    <3>1. With(res, k, z) \in Partial(Value) /\ DOMAIN With(res, k, z) = DOMAIN res \cup {k} /\ With(res, k, z)[k] = z
      BY <3>0, WithIs
    <3>2. With(res, k, z) \in Doc /\ NestedAt(With(res, k, z), k)
      BY <2>2, <3>1 DEF Doc, NestedAt, Keys, z
    <3> QED
      BY <3>2 DEF z, k
  <2> HIDE DEF w, v, p
  <2>5. Put(w, p, v) \in Doc
    BY <1>1, <2>1, <2>4, PutIs
  <2>6. IncludeStep(res, doc, e) = Put(w, p, v)
    BY <1>4 DEF IncludeStep, p, v, w
  <2> QED
    BY <2>5, <2>6
<1> QED
  BY <1>2, <1>3, <1>4

IncludedBy(u, doc, proj) == /\ u \in [0..Len(proj) -> Doc] /\ u[0] = Begin(doc, proj)
                            /\ \A n \in 1..Len(proj) : u[n] = IncludeStep(u[n - 1], doc, proj[n])
                            /\ Project(doc, proj).res = u[Len(proj)]

\* An inclusion takes one entry after the other.
LEMMA IncludeSteps ==
  ASSUME NEW doc \in Doc, NEW proj \in Seq(Entry), IsInclusion(proj)
  PROVE  \E u : IncludedBy(u, doc, proj)
<1> DEFINE N == Len(proj)
           base == Begin(doc, proj)
           step == [q \in (Doc) \X (1..N) |-> IncludeStep(q[1], doc, proj[q[2]])]
           Body(h, s_) == IF s_ = {} THEN Begin(doc, proj)
                          ELSE IncludeStep(h[s_ \ {Max(s_)}], doc, proj[Max(s_)])
           iter == CHOOSE h : h = [s_ \in SUBSET (1..N) |-> Body(h, s_)]
<1>1. N \in Nat /\ base \in Doc /\ DOMAIN proj = 1..N /\ \A n \in 1..N : proj[n] \in Entry
  BY BeginIs
<1>2. step \in [(Doc) \X (1..N) -> Doc]
  BY <1>1, IncludeIs
<1>3. PICK f : Folds(f, Doc, N, base, step)
  <2> HIDE DEF base, step
  <2> QED
    BY <1>1, <1>2, FoldExists
<1>4. Project(doc, proj).res = iter[1..N]
  BY <1>1 DEF Project, Begin, FoldLeft, MapThenFoldSet
<1>5. f = [s_ \in SUBSET (1..N) |-> Body(f, s_)]
  <2>1. ASSUME NEW s_ \in SUBSET (1..N)
        PROVE  f[s_] = Body(f, s_)
    <3>1. s_ # {} => f[s_ \ {Max(s_)}] \in Doc /\ Max(s_) \in 1..N
      BY <1>1, <1>3, MaxIs DEF Folds
    <3> QED
      BY <1>3, <3>1 DEF Folds
  <2>2. f = [s_ \in SUBSET (1..N) |-> f[s_]]
    BY <1>3 DEF Folds
  <2> HIDE DEF Body
  <2> QED
    BY <2>1, <2>2
<1>6. iter = [s_ \in SUBSET (1..N) |-> Body(iter, s_)]
  <2> HIDE DEF Body
  <2> QED
    BY <1>5
<1> HIDE DEF iter
<1> DEFINE u == [n \in 0..N |-> iter[1..n]]
<1>7. u[0] = base
  <2>1. 0 \in 0..N /\ 1..0 = {} /\ {} \in SUBSET (1..N)
    BY <1>1
  <2> QED
    BY <1>6, <2>1
<1>8. ASSUME NEW n \in 1..N
      PROVE  u[n] = IncludeStep(u[n - 1], doc, proj[n])
  <2>1. n \in 0..N /\ n - 1 \in 0..N
    BY <1>1
  <2>2. iter[1..n] = Body(iter, 1..n)
    <3> HIDE DEF Body
    <3> QED
      BY <1>1, <1>6, UptoIs
  <2> QED
    BY <1>1, <2>1, <2>2, UptoIs
<1>9. u \in [0..N -> Doc]
  <2> DEFINE S == {n \in 0..N : u[n] \in Doc}
  <2> HIDE DEF u
  <2>1. 0 \in S
    <3>1. 0 \in 0..N /\ u[0] \in Doc
      BY <1>1, <1>7
    <3> QED
      BY <3>1
  <2>2. ASSUME NEW n \in 0..(N - 1), n \in S
        PROVE  n + 1 \in S
    <3>1. n + 1 \in 1..N /\ n + 1 \in 0..N /\ n + 1 - 1 = n
      BY <1>1
    <3>2. u[n + 1] = IncludeStep(u[n], doc, proj[n + 1])
      BY <1>8, <3>1
    <3> QED
      BY <1>1, <2>2, <3>1, <3>2, IncludeIs
  <2>3. 0..N \subseteq S
    <3> HIDE DEF S
    <3> QED
      BY <1>1, <2>1, <2>2, Induct
  <2> QED
    BY <2>3 DEF u
<1>10. Project(doc, proj).res = u[N]
  BY <1>1, <1>4
<1> QED
  <2> HIDE DEF u
  <2> QED
    BY <1>7, <1>8, <1>9, <1>10 DEF IncludedBy

\* The paths of the first entries of a projection.
Named(proj, n) == {proj[i].path : i \in 1..n}

\* One more entry, one more path.
LEMMA NamedIs ==
  ASSUME NEW proj, NEW n \in Nat
  PROVE  Named(proj, 0) = {} /\ Named(proj, n + 1) = Named(proj, n) \cup {proj[n + 1].path}
<1>1. 1..0 = {} /\ 1..(n + 1) = 1..n \cup {n + 1}
  OBVIOUS
<1> QED
  BY <1>1 DEF Named

\* An inclusion includes what is under its paths.
LEMMA InclusionLeaves ==
  ASSUME NEW doc \in Doc, NEW proj \in Seq(Entry), IsInclusion(proj), \A i \in DOMAIN proj : Takes(proj[i]) \/ IsId(proj[i])
  PROVE  Included(Project(doc, proj).res, doc, Named(proj, Len(proj)))
<1>1. PICK u : IncludedBy(u, doc, proj)
  BY IncludeSteps
<1> DEFINE N == Len(proj)
<1>2. N \in Nat /\ DOMAIN proj = 1..N /\ \A i \in 1..N : proj[i] \in Entry
  OBVIOUS
<1>3. Included(u[0], doc, Named(proj, 0))
  <2>1. \A k, x, v : ~LeafAt(<<>>, k, v) /\ ~LeafIn(<<>>, k, x, v)
    <3>1. Keys(<<>>) = {}
      BY DEF Keys
    <3> QED
      BY <3>1 DEF LeafAt, LeafIn, NestedAt
  <2>2. \A k, x, v : ~LeafAt(Begin(doc, proj), k, v) /\ ~LeafIn(Begin(doc, proj), k, x, v)
    <3>1. CASE ~DropsId(proj) /\ "_id" \in Keys(doc)
      <4> DEFINE z == doc["_id"]
      <4>1. Begin(doc, proj) = With(<<>>, "_id", z)
        BY <3>1 DEF Begin
      <4> HIDE DEF z
      <4>2. /\ \A j, v : LeafAt(With(<<>>, "_id", z), j, v) <=>
                        IF j = "_id" THEN j # "_id" /\ ~IsNested(z) /\ z = v ELSE LeafAt(<<>>, j, v)
            /\ \A j, x, v : LeafIn(With(<<>>, "_id", z), j, x, v) <=>
                           IF j = "_id" THEN j # "_id" /\ IsNested(z) /\ x \in DOMAIN z.nested /\ z.nested[x] = v
                           ELSE LeafIn(<<>>, j, x, v)
        BY WithLeaves
      <4> QED
        BY <2>1, <4>1, <4>2
    <3>2. CASE ~(~DropsId(proj) /\ "_id" \in Keys(doc))
      BY <2>1, <3>2 DEF Begin
    <3> QED
      BY <3>1, <3>2
  <2>3. u[0] = Begin(doc, proj) /\ Named(proj, 0) = {}
    BY <1>1, NamedIs DEF IncludedBy
  <2> QED
    BY <2>2, <2>3 DEF Included
<1> DEFINE S == {n \in 0..N : Included(u[n], doc, Named(proj, n))}
<1>4. 0 \in S
  BY <1>2, <1>3
<1>5. ASSUME NEW n \in 0..(N - 1), n \in S
      PROVE  n + 1 \in S
  <2>1. n \in Nat /\ n + 1 \in 1..N /\ n + 1 \in 0..N /\ n + 1 - 1 = n
    BY <1>2
  <2>2. u[n + 1] = IncludeStep(u[n], doc, proj[n + 1])
    BY <1>1, <2>1 DEF IncludedBy
  <2>3. proj[n + 1] \in Entry /\ (Takes(proj[n + 1]) \/ IsId(proj[n + 1]))
    BY <1>2, <2>1
  <2>4. Included(u[n + 1], doc, Named(proj, n) \cup {proj[n + 1].path})
    <3>1. Included(u[n], doc, Named(proj, n))
      BY <1>5
    <3> QED
      BY <2>2, <2>3, <3>1, IncludeLeaves
  <2> QED
    BY <2>1, <2>4, NamedIs
<1>6. N \in S
  <2> HIDE DEF S, N
  <2>1. 0..N \subseteq S
    BY <1>2, <1>4, <1>5, Induct
  <2> QED
    BY <1>2, <2>1
<1>7. Project(doc, proj).res = u[N]
  BY <1>1 DEF IncludedBy
<1> QED
  BY <1>6, <1>7

\* An exclusion excludes what is under its paths.
LEMMA ExclusionLeaves ==
  ASSUME NEW doc \in Doc, NEW proj \in Seq(Entry), ~IsInclusion(proj), \A i \in DOMAIN proj : Drops(proj[i]) \/ IsId(proj[i])
  PROVE  Excluded(Project(doc, proj).res, doc, Named(proj, Len(proj)))
<1>1. PICK u \in [0..Len(proj) -> Pair] : /\ u[0] = Start(doc, proj)
                                          /\ \A n \in 1..Len(proj) : u[n] = ExcludeStep(u[n - 1], proj[n])
                                          /\ Project(doc, proj) = u[Len(proj)]
  BY ExcludeSteps
<1> DEFINE N == Len(proj)
<1>2. N \in Nat /\ DOMAIN proj = 1..N /\ \A i \in 1..N : proj[i] \in Entry
  OBVIOUS
<1>3. Excluded(u[0].res, doc, Named(proj, 0))
  <2>1. /\ \A j, v : LeafAt(Without(doc, "_id"), j, v) <=> j # "_id" /\ LeafAt(doc, j, v)
        /\ \A j, x, v : LeafIn(Without(doc, "_id"), j, x, v) <=> j # "_id" /\ LeafIn(doc, j, x, v)
    BY WithoutLeaves
  <2>2. \A k, x, v : (LeafAt(doc, k, v) => k # "_id") /\ (LeafIn(doc, k, x, v) => k # "_id")
    BY DEF LeafAt, LeafIn
  <2>3. u[0].res = (IF DropsId(proj) THEN Without(doc, "_id") ELSE doc) /\ Named(proj, 0) = {}
    BY <1>1, NamedIs DEF Start
  <2>4. /\ \A j, v : LeafAt(u[0].res, j, v) <=> LeafAt(doc, j, v)
        /\ \A j, x, v : LeafIn(u[0].res, j, x, v) <=> LeafIn(doc, j, x, v)
    BY <2>1, <2>2, <2>3
  <2> QED
    BY <2>3, <2>4 DEF Excluded
<1> DEFINE S == {n \in 0..N : Excluded(u[n].res, doc, Named(proj, n))}
<1>4. 0 \in S
  BY <1>2, <1>3
<1>5. ASSUME NEW n \in 0..(N - 1), n \in S
      PROVE  n + 1 \in S
  <2>1. n \in Nat /\ n + 1 \in 1..N /\ n + 1 \in 0..N /\ n \in 0..N /\ n + 1 - 1 = n
    BY <1>2
  <2>2. u[n + 1] = ExcludeStep(u[n], proj[n + 1])
    BY <1>1, <2>1
  <2>3. proj[n + 1] \in Entry /\ (Drops(proj[n + 1]) \/ IsId(proj[n + 1]))
    BY <1>2, <2>1
  <2>4. u[n] = [res |-> u[n].res, stored |-> u[n].stored]
    <3>1. u[n] \in [res : Doc, stored : Doc]
      BY <1>1, <2>1 DEF Pair
    <3> QED
      BY <3>1
  <2>5. Excluded(u[n + 1].res, doc, Named(proj, n) \cup {proj[n + 1].path})
    <3>1. Excluded(u[n].res, doc, Named(proj, n))
      BY <1>5
    <3> QED
      BY <2>2, <2>3, <2>4, <3>1, ExcludeLeaves
  <2> QED
    BY <2>1, <2>5, NamedIs
<1>6. N \in S
  <2> HIDE DEF S, N
  <2>1. 0..N \subseteq S
    BY <1>2, <1>4, <1>5, Induct
  <2> QED
    BY <1>2, <2>1
<1>7. Project(doc, proj).res = u[N].res
  BY <1>1
<1> QED
  BY <1>6, <1>7

\* What is under some paths and what is under none of them divide the leaves.
LEMMA LeavesDivide ==
  ASSUME NEW doc, NEW a, NEW b, NEW H, Included(a, doc, H), Excluded(b, doc, H)
  PROVE  Leaves(a) \cup Leaves(b) = Leaves(doc) /\ Leaves(a) \cap Leaves(b) = {}
<1>1. /\ \A k, v : LeafAt(doc, k, v) <=> LeafAt(a, k, v) \/ LeafAt(b, k, v)
      /\ \A k, x, v : LeafIn(doc, k, x, v) <=> LeafIn(a, k, x, v) \/ LeafIn(b, k, x, v)
      /\ \A k, v : ~(LeafAt(a, k, v) /\ LeafAt(b, k, v))
      /\ \A k, x, v : ~(LeafIn(a, k, x, v) /\ LeafIn(b, k, x, v))
  BY DEF Included, Excluded
<1>2. ASSUME NEW l
      PROVE  l \in Leaves(doc) <=> l \in Leaves(a) \/ l \in Leaves(b)
  BY <1>1, LeavesAre
<1>3. ASSUME NEW l, l \in Leaves(a), l \in Leaves(b)
      PROVE  FALSE
  <2>1. \A k, v, j, x, w : <<k, v>> # <<j, x, w>>
    <3>1. \A k, v, j, x, w : Len(<<k, v>>) = 2 /\ Len(<<j, x, w>>) = 3
      OBVIOUS
    <3> QED
      BY <3>1
  <2>2. \A k, v, j, w : <<k, v>> = <<j, w>> => k = j /\ v = w
    OBVIOUS
  <2>3. \A k, x, v, j, y, w : <<k, x, v>> = <<j, y, w>> => k = j /\ x = y /\ v = w
    OBVIOUS
  <2>4. CASE \E k, v : l = <<k, v>> /\ LeafAt(a, k, v)
    <3>1. PICK k, v : l = <<k, v>> /\ LeafAt(a, k, v)
      BY <2>4
    <3>2. \E j, w : l = <<j, w>> /\ LeafAt(b, j, w)
      BY <1>3, <2>1, <3>1, LeavesAre
    <3> QED
      BY <1>1, <2>2, <3>1, <3>2
  <2>5. CASE \E k, x, v : l = <<k, x, v>> /\ LeafIn(a, k, x, v)
    <3>1. PICK k, x, v : l = <<k, x, v>> /\ LeafIn(a, k, x, v)
      BY <2>5
    <3>2. \E j, y, w : l = <<j, y, w>> /\ LeafIn(b, j, y, w)
      BY <1>3, <2>1, <3>1, LeavesAre
    <3> QED
      BY <1>1, <2>3, <3>1, <3>2
  <2> QED
    BY <1>3, <2>4, <2>5, LeavesAre
<1> QED
  BY <1>2, <1>3

\* Turning a projection round keeps its paths.
LEMMA TurnedIs ==
  ASSUME NEW proj \in Seq(Entry)
  PROVE  /\ Turned(proj) \in Seq(Entry) /\ Len(Turned(proj)) = Len(proj) /\ DOMAIN Turned(proj) = DOMAIN proj
         /\ \A i \in DOMAIN proj : /\ Turned(proj)[i].path = proj[i].path
                                   /\ Turned(proj)[i].mode = IF proj[i].mode = "include" THEN "exclude" ELSE "include"
<1> DEFINE T == Turned(proj)
<1>1. \A i \in DOMAIN proj : proj[i] \in Entry
  OBVIOUS
<1>2. \A i \in DOMAIN proj : /\ T[i] \in Entry /\ T[i].path = proj[i].path
                             /\ T[i].mode = IF proj[i].mode = "include" THEN "exclude" ELSE "include"
  BY <1>1 DEF Turned, Entry
<1>3. DOMAIN proj = 1..Len(proj) /\ Len(proj) \in Nat /\ DOMAIN T = DOMAIN proj /\ T = [i \in 1..Len(proj) |-> T[i]]
  BY DEF Turned
<1> HIDE DEF T
<1>4. T \in Seq(Entry) /\ Len(T) = Len(proj)
  <2>1. T \in [1..Len(proj) -> Entry]
    BY <1>2, <1>3
  <2> QED
    BY <1>3, <2>1
<1> QED
  BY <1>2, <1>3, <1>4 DEF T

Opposite(inc, exc) ==
  /\ inc \in Seq(Entry) /\ exc \in Seq(Entry) /\ Len(inc) = Len(exc) /\ IsInclusion(inc) /\ ~IsInclusion(exc)
  /\ \A i \in DOMAIN inc : inc[i].path = exc[i].path /\ (IsId(inc[i]) \/ (Takes(inc[i]) /\ Drops(exc[i])))

\* Including and excluding the same paths divide a document.
LEMMA IncludedOrExcluded ==
  ASSUME NEW doc \in Doc, NEW inc, NEW exc, Opposite(inc, exc)
  PROVE  /\ Leaves(Project(doc, inc).res) \cup Leaves(Project(doc, exc).res) = Leaves(doc)
         /\ Leaves(Project(doc, inc).res) \cap Leaves(Project(doc, exc).res) = {}
<1>1. inc \in Seq(Entry) /\ exc \in Seq(Entry) /\ DOMAIN inc = 1..Len(inc) /\ DOMAIN exc = 1..Len(inc)
  BY DEF Opposite
<1>2. Included(Project(doc, inc).res, doc, Named(inc, Len(inc)))
  <2>1. IsInclusion(inc) /\ \A i \in DOMAIN inc : Takes(inc[i]) \/ IsId(inc[i])
    BY DEF Opposite
  <2> QED
    BY <1>1, <2>1, InclusionLeaves
<1>3. Excluded(Project(doc, exc).res, doc, Named(exc, Len(exc)))
  <2>1. ~IsInclusion(exc) /\ \A i \in DOMAIN exc : Drops(exc[i]) \/ IsId(exc[i])
    BY <1>1 DEF Opposite, IsId
  <2> QED
    BY <1>1, <2>1, ExclusionLeaves
<1>4. Named(inc, Len(inc)) = Named(exc, Len(exc))
  BY <1>1 DEF Opposite, Named
<1> QED
  BY <1>2, <1>3, <1>4, LeavesDivide

\* Every value of a document is in the result of including some paths or in that of
\* excluding them, and in one of them only, for any documents and projections.
THEOREM InclusionsComplement == Spec => []ProjectionsDivide
<1>1. TypeInv => ProjectionsDivide
  <2> SUFFICES ASSUME TypeInv, NEW i \in DOMAIN docs, NEW proj \in Projections,
                      \E j \in DOMAIN proj : ~IsId(proj[j]), ~IsMixed(proj)
               PROVE  LET one == Leaves(Project(docs[i], proj).res)
                          other == Leaves(Project(docs[i], Turned(proj)).res)
                      IN one \cup other = Leaves(docs[i]) /\ one \cap other = {}
    BY DEF ProjectionsDivide
  <2> DEFINE T == Turned(proj)
  <2>1. docs[i] \in Doc /\ proj \in Seq(Entry)
    <3>1. docs[i] \in Doc
      BY DEF TypeInv
    <3>2. proj \in Seq(Entry)
      BY ProjectionsAreTyped DEF Entry
    <3> QED
      BY <3>1, <3>2
  <2>2. /\ T \in Seq(Entry) /\ Len(T) = Len(proj) /\ DOMAIN T = DOMAIN proj
        /\ \A j \in DOMAIN proj : /\ T[j].path = proj[j].path
                                  /\ T[j].mode = IF proj[j].mode = "include" THEN "exclude" ELSE "include"
    BY <2>1, TurnedIs
  <2>3. \A j \in DOMAIN proj : proj[j].mode \in {"include", "exclude"}
    <3>1. \A j \in DOMAIN proj : proj[j] \in Entry
      BY <2>1
    <3> QED
      BY <3>1 DEF Entry
  <2> HIDE DEF T
  <2>4. \A j \in DOMAIN proj : (IsId(T[j]) <=> IsId(proj[j])) /\ (~IsId(proj[j]) => (Takes(T[j]) <=> Drops(proj[j])))
    BY <2>2, <2>3 DEF IsId, Takes, Drops
  <2>5. CASE IsInclusion(proj)
    <3>1. \A j \in DOMAIN proj : IsId(proj[j]) \/ (Takes(proj[j]) /\ Drops(T[j]))
      <4>1. \A j \in DOMAIN proj : ~Drops(proj[j])
        BY <2>5 DEF IsMixed
      <4> QED
        BY <2>2, <2>3, <2>4, <4>1 DEF IsId, Takes, Drops
    <3>2. ~IsInclusion(T)
      BY <2>2, <2>4, <3>1 DEF IsInclusion, Takes, Drops
    <3>3. /\ Leaves(Project(docs[i], proj).res) \cup Leaves(Project(docs[i], T).res) = Leaves(docs[i])
          /\ Leaves(Project(docs[i], proj).res) \cap Leaves(Project(docs[i], T).res) = {}
      <4>1. Opposite(proj, T)
        BY <2>1, <2>2, <2>5, <3>1, <3>2 DEF Opposite
      <4> QED
        BY <2>1, <4>1, IncludedOrExcluded
    <3> QED
      BY <3>3 DEF T
  <2>6. CASE ~IsInclusion(proj)
    <3>1. \A j \in DOMAIN proj : IsId(T[j]) \/ (Takes(T[j]) /\ Drops(proj[j]))
      BY <2>2, <2>3, <2>4, <2>6 DEF IsInclusion, IsId, Takes, Drops
    <3>2. IsInclusion(T)
      BY <2>2, <2>4, <3>1 DEF IsInclusion
    <3>3. /\ Leaves(Project(docs[i], T).res) \cup Leaves(Project(docs[i], proj).res) = Leaves(docs[i])
          /\ Leaves(Project(docs[i], T).res) \cap Leaves(Project(docs[i], proj).res) = {}
      <4>1. Opposite(T, proj)
        BY <2>1, <2>2, <2>4, <2>6, <3>1, <3>2 DEF Opposite
      <4> QED
        BY <2>1, <4>1, IncludedOrExcluded
    <3> QED
      BY <3>3 DEF T
  <2> QED
    BY <2>5, <2>6
<1> QED
  BY <1>1, TypesInit, TypesStep, PTL DEF Spec

=============================================================================
