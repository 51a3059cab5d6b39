--------------------------- MODULE LangChain_proof ---------------------------
(***************************************************************************)
(* Proofs about LangChain, for any runs, scripts and number of calls.      *)
(***************************************************************************)
EXTENDS LangChain, SequenceTheorems, FiniteSetTheorems, TLAPS

(* Induction up to N, in a form that sets alone can state: the least number *)
(* that is not in S would have a predecessor that is.                       *)
LEMMA Least ==
  ASSUME NEW n \in Nat, NEW S \in SUBSET (1..n), S # {}
  PROVE  \E m \in S : \A i \in S : m <= i
<1> DEFINE T == {1..i : i \in S}
           R == StrictSubsetOrdering(1..n)
<1>1. IsWellFoundedOn(R, FiniteSubsetsOf(1..n)) /\ FiniteSubsetsOf(1..n) = SUBSET (1..n)
  <2>1. IsFiniteSet(1..n)
    BY FS_Interval
  <2>2. FiniteSubsetsOf(1..n) = SUBSET (1..n)
    BY <2>1, FS_FiniteSubsetsOfFinite
  <2>3. IsWellFoundedOn(R, FiniteSubsetsOf(1..n))
    BY FS_StrictSubsetOrderingWellFounded
  <2> QED
    BY <2>2, <2>3
<1>2. T \subseteq SUBSET (1..n) /\ T # {}
  <2>1. \A i \in S : 1..i \subseteq 1..n
    OBVIOUS
  <2> QED
    BY <2>1
<1>3. \E x \in T : \A y \in T : ~(<<y, x>> \in R)
  <2> HIDE DEF T, R
  <2> QED
    BY <1>1, <1>2, WFMin
<1>4. PICK m \in S : \A i \in S : ~(<<1..i, 1..m>> \in R)
  BY <1>3
<1>5. ASSUME NEW i \in S, i < m
      PROVE  FALSE
  <2>1. 1..i \subseteq 1..m /\ m \in 1..m /\ m \notin 1..i
    BY <1>5
  <2>2. <<1..i, 1..m>> \in R
    BY <2>1 DEF StrictSubsetOrdering
  <2> QED
    BY <1>4, <2>2
<1> QED
  BY <1>5

\* What holds of 0 and of the successor of each number it holds of, holds up to N.
LEMMA Induct ==
  ASSUME NEW N \in Nat, NEW S, 0 \in S,
         \A n \in 0..(N - 1) : n \in S => n + 1 \in S
  PROVE  0..N \subseteq S
<1> SUFFICES ASSUME ~(0..N \subseteq S)
             PROVE  FALSE
  OBVIOUS
<1> DEFINE T == {n \in 1..N : n \notin S}
<1>1. T \in SUBSET (1..N) /\ T # {}
  OBVIOUS
<1>2. PICK m \in T : \A i \in T : m <= i
  BY <1>1, Least
<1>3. m - 1 \in 0..(N - 1) /\ m - 1 \in S
  BY <1>2
<1> QED
  BY <1>2, <1>3
-----------------------------------------------------------------------------
(* What the recursive definitions of the model compute, one step after the  *)
(* other.  First the patches of a chunk.                                    *)
CallOp == [path : {"call", "args", "args/-"}, i : 1..MaxCalls, v : Nat]
ResultOp == [path : {"results", "results/-"}, i : 1..MaxCalls, v : {0}]
TextOp == [path : {"/-"}, i : {0}, v : Nat]
AnyOp == CallOp \cup ResultOp \cup TextOp

Outcome == [ok : BOOLEAN, doc : Doc]
After(acc, op) == IF acc.ok /\ Applies(acc.doc, op)
                  THEN [ok |-> TRUE, doc |-> Apply(acc.doc, op)]
                  ELSE [ok |-> FALSE, doc |-> acc.doc]

\* The two entries a call begins as are entries.
LEMMA BlankTyped == Blank \in Entry /\ Opened \in Entry
BY DEF Blank, Opened, Entry

\* The entry of a call is there afterwards, behind blank ones where there were none.
LEMMA WithEntryIs ==
  ASSUME NEW s \in Seq(Entry), NEW i \in 1..MaxCalls
  PROVE  /\ WithEntry(s, i) \in Seq(Entry)
         /\ i \in 1..Len(WithEntry(s, i))
         /\ Len(WithEntry(s, i)) = IF i <= Len(s) THEN Len(s) ELSE i
         /\ \A p \in 1..Len(WithEntry(s, i)) :
              WithEntry(s, i)[p] = IF p <= Len(s) THEN s[p] ELSE Blank
<1> DEFINE m == IF i <= Len(s) THEN 0 ELSE i - Len(s)
           new == [k \in 1..m |-> Blank]
<1>1. i \in Nat /\ Len(s) \in Nat /\ m \in Nat /\ 1..(i - Len(s)) = 1..m
  BY MaxCallsNat
<1>2. WithEntry(s, i) = s \o new
  <2>1. CASE i <= Len(s)
    <3>1. m = 0 /\ 1..m = {}
      BY <2>1
    <3>2. new = <<>>
      BY <3>1
    <3>3. WithEntry(s, i) = s
      BY <2>1 DEF WithEntry
    <3> HIDE DEF new
    <3> QED
      BY <3>2, <3>3, ConcatEmptySeq
  <2>2. CASE ~(i <= Len(s))
    BY <1>1, <2>2 DEF WithEntry
  <2> QED
    BY <2>1, <2>2
<1>3. new \in Seq(Entry) /\ Len(new) = m /\ \A p \in 1..m : new[p] = Blank
  <2> HIDE DEF m
  <2> QED
    BY <1>1, BlankTyped, IsASeq
<1> HIDE DEF new
<1>4. /\ s \o new \in Seq(Entry) /\ Len(s \o new) = Len(s) + m
      /\ \A p \in 1..(Len(s) + m) : (s \o new)[p] = IF p <= Len(s) THEN s[p] ELSE new[p - Len(s)]
  BY <1>1, <1>3, ConcatProperties
<1>5. \A p \in 1..(Len(s) + m) : p > Len(s) => new[p - Len(s)] = Blank
  BY <1>1, <1>3
<1> QED
  BY <1>1, <1>2, <1>4, <1>5

(* A call is inserted where its index says, if that is at most the next.    *)
LEMMA InsertIs ==
  ASSUME NEW s \in Seq(Entry), NEW i \in 1..(Len(s) + 1)
  PROVE  /\ InsertAt(s, i, Opened) \in Seq(Entry)
         /\ Len(InsertAt(s, i, Opened)) = Len(s) + 1
         /\ InsertAt(s, i, Opened)[i] = Opened
         /\ \A p \in 1..(i - 1) : InsertAt(s, i, Opened)[p] = s[p]
<1> DEFINE front == SubSeq(s, 1, i - 1)
           back == SubSeq(s, i, Len(s))
<1>1. /\ front \in Seq(Entry) /\ Len(front) = i - 1 /\ \A p \in 1..(i - 1) : front[p] = s[p]
      /\ back \in Seq(Entry) /\ Len(back) = Len(s) - i + 1
  OBVIOUS
<1>2. InsertAt(s, i, Opened) = front \o <<Opened>> \o back
  BY DEF InsertAt
<1>3. /\ front \o <<Opened>> \in Seq(Entry) /\ Len(front \o <<Opened>>) = i
      /\ (front \o <<Opened>>)[i] = Opened
      /\ \A p \in 1..(i - 1) : (front \o <<Opened>>)[p] = s[p]
  <2> HIDE DEF front
  <2> QED
    BY <1>1, BlankTyped
<1> HIDE DEF front, back
<1> QED
  BY <1>1, <1>2, <1>3, ConcatProperties

\* What a fragment and a replacement do to an entry.
LEMMA EntryTyped ==
  ASSUME NEW entry \in Entry, NEW v \in Nat
  PROVE  /\ Fragment(entry, v) \in Entry /\ Replaced(entry, v) \in Entry
         /\ Fragment(entry, v).opened = entry.opened /\ Replaced(entry, v).opened = entry.opened
         /\ Fragment(entry, v).form = IF entry.form = "list" THEN "list" ELSE "dict"
         /\ Fragment(entry, v).args = Append(entry.args, v)
         /\ Replaced(entry, v).form = "dict" /\ Replaced(entry, v).args = <<v>>
<1>1. entry.args \in Seq(Nat) /\ Append(entry.args, v) \in Seq(Nat) /\ <<v>> \in Seq(Nat)
  BY DEF Entry
<1> QED
  BY <1>1 DEF Fragment, Replaced, Entry

(* What each patch of a call makes of the calls.                            *)
LEMMA CallIs ==
  ASSUME NEW s \in Seq(Entry), NEW op \in CallOp, op.path = "call" => op.i <= Len(s) + 1
  PROVE  /\ WithCall(s, op) \in Seq(Entry)
         /\ op.path = "call" => /\ op.i \in 1..(Len(s) + 1)
                                /\ WithCall(s, op) = InsertAt(s, op.i, Opened)
         /\ op.path = "args" => WithCall(s, op) = [WithEntry(s, op.i) EXCEPT
                                          ![op.i] = Replaced(WithEntry(s, op.i)[op.i], op.v)]
         /\ op.path = "args/-" => WithCall(s, op) = [WithEntry(s, op.i) EXCEPT
                                            ![op.i] = Fragment(WithEntry(s, op.i)[op.i], op.v)]
<1>1. op.i \in 1..MaxCalls /\ op.v \in Nat /\ op.path \in {"call", "args", "args/-"}
  BY DEF CallOp
<1>2. CASE op.path = "call"
  <2>1. op.i \in 1..(Len(s) + 1)
    BY <1>1, <1>2, MaxCallsNat
  <2>2. InsertAt(s, op.i, Opened) \in Seq(Entry)
    BY <2>1, InsertIs
  <2>3. WithCall(s, op) = InsertAt(s, op.i, Opened)
    BY <1>2 DEF WithCall
  <2> QED
    BY <1>2, <2>1, <2>2, <2>3
<1> DEFINE w == WithEntry(s, op.i)
<1>3. w \in Seq(Entry) /\ op.i \in 1..Len(w) /\ w[op.i] \in Entry
  BY <1>1, WithEntryIs
<1>4. CASE op.path = "args"
  <2>1. WithCall(s, op) = [w EXCEPT ![op.i] = Replaced(w[op.i], op.v)]
    BY <1>4 DEF WithCall
  <2> HIDE DEF w
  <2>2. Replaced(w[op.i], op.v) \in Entry
    BY <1>1, <1>3, EntryTyped
  <2>3. [w EXCEPT ![op.i] = Replaced(w[op.i], op.v)] \in Seq(Entry)
    BY <1>3, <2>2, ExceptSeq
  <2> QED
    BY <1>4, <2>1, <2>3 DEF w
<1>5. CASE op.path = "args/-"
  <2>1. WithCall(s, op) = [w EXCEPT ![op.i] = Fragment(w[op.i], op.v)]
    BY <1>5 DEF WithCall
  <2> HIDE DEF w
  <2>2. Fragment(w[op.i], op.v) \in Entry
    BY <1>1, <1>3, EntryTyped
  <2>3. [w EXCEPT ![op.i] = Fragment(w[op.i], op.v)] \in Seq(Entry)
    BY <1>3, <2>2, ExceptSeq
  <2> QED
    BY <1>5, <2>1, <2>3 DEF w
<1> QED
  BY <1>1, <1>2, <1>4, <1>5

(* And of a document.                                                       *)
LEMMA ApplyIs ==
  ASSUME NEW doc \in Doc, NEW op \in AnyOp, Applies(doc, op)
  PROVE  /\ Apply(doc, op) \in Doc
         /\ op \in TextOp => Apply(doc, op) = [doc EXCEPT !.root = IF doc.root = "none" THEN "list" ELSE doc.root,
                                                         !.text = Append(doc.text, op.v)]
         /\ op \in CallOp => /\ doc.root # "list"
                             /\ op.path = "call" => op.i <= Len(doc.calls) + 1
                             /\ op.path = "args" => WithEntry(doc.calls, op.i)[op.i].form # "missing"
                             /\ Apply(doc, op) = [doc EXCEPT !.root = "dict", !.calls = WithCall(doc.calls, op)]
         /\ op \in ResultOp => /\ doc.root # "list"
                               /\ Apply(doc, op) = [doc EXCEPT !.root = "dict", !.results =
                                    IF op.path = "results" THEN <<>> ELSE Append(doc.results, op.i)]
<1>1. CASE op \in TextOp
  <2>1. op.path = "/-" /\ op.v \in Nat /\ op \notin CallOp /\ op \notin ResultOp
    BY <1>1 DEF TextOp, CallOp, ResultOp
  <2>2. Apply(doc, op) = [doc EXCEPT !.root = IF doc.root = "none" THEN "list" ELSE doc.root,
                                     !.text = Append(doc.text, op.v)]
    BY <2>1 DEF Apply
  <2>3. Append(doc.text, op.v) \in Seq(Nat)
    BY <2>1 DEF Doc
  <2> QED
    BY <2>1, <2>2, <2>3 DEF Doc
<1>2. CASE op \in CallOp
  <2>1. op.path \in {"call", "args", "args/-"} /\ op \notin TextOp /\ op \notin ResultOp
    BY <1>2 DEF TextOp, CallOp, ResultOp
  <2>2. Apply(doc, op) = [doc EXCEPT !.root = "dict", !.calls = WithCall(doc.calls, op)]
    BY <2>1 DEF Apply
  <2>3. /\ doc.root # "list"
        /\ op.path = "call" => op.i <= Len(doc.calls) + 1
        /\ op.path = "args" => WithEntry(doc.calls, op.i)[op.i].form # "missing"
    BY <2>1 DEF Applies
  <2>4. doc.calls \in Seq(Entry)
    BY DEF Doc
  <2>5. WithCall(doc.calls, op) \in Seq(Entry)
    BY <1>2, <2>3, <2>4, CallIs
  <2> QED
    BY <2>1, <2>2, <2>3, <2>5 DEF Doc
<1>3. CASE op \in ResultOp
  <2>1. op.i \in 1..MaxCalls /\ op.path \in {"results", "results/-"} /\ op \notin TextOp /\ op \notin CallOp
    BY <1>3 DEF ResultOp, TextOp, CallOp
  <2>2. Apply(doc, op) = [doc EXCEPT !.root = "dict", !.results =
                            IF op.path = "results" THEN <<>> ELSE Append(doc.results, op.i)]
    BY <2>1 DEF Apply
  <2>3. (IF op.path = "results" THEN <<>> ELSE Append(doc.results, op.i)) \in Seq(1..MaxCalls)
    <3>1. doc.results \in Seq(1..MaxCalls) /\ <<>> \in Seq(1..MaxCalls)
      BY DEF Doc
    <3>2. Append(doc.results, op.i) \in Seq(1..MaxCalls)
      BY <2>1, <3>1, AppendProperties
    <3> QED
      BY <3>1, <3>2
  <2>4. doc.root # "list"
    BY <2>1 DEF Applies
  <2> QED
    BY <2>1, <2>2, <2>3, <2>4 DEF Doc
<1> QED
  BY <1>1, <1>2, <1>3 DEF AnyOp

\* A patch takes an outcome to an outcome.
LEMMA AfterTyped ==
  ASSUME NEW acc \in Outcome, NEW op \in AnyOp
  PROVE  After(acc, op) \in Outcome
<1>1. acc.doc \in Doc /\ acc.ok \in BOOLEAN
  BY DEF Outcome
<1>2. Applies(acc.doc, op) => Apply(acc.doc, op) \in Doc
  BY <1>1, ApplyIs
<1> QED
  BY <1>1, <1>2 DEF After, Outcome

(* The patches of a chunk are applied in a sequence of outcomes.            *)
Steps(u, doc, ops) == /\ u[0] = [ok |-> TRUE, doc |-> doc]
                      /\ \A n \in 1..Len(ops) : u[n] = After(u[n - 1], ops[n])

\* Applying patches is applying each of them to the outcome of those before it.
LEMMA ApplyAllSteps ==
  ASSUME NEW doc \in Doc, NEW ops \in Seq(AnyOp)
  PROVE  \E u \in [0..Len(ops) -> Outcome] : Steps(u, doc, ops) /\ ApplyAll(doc, ops) = u[Len(ops)]
<1> DEFINE L == Len(ops)
           begin == [ok |-> TRUE, doc |-> doc]
           Body(f, n) == IF n = 0 THEN [ok |-> TRUE, doc |-> doc]
                         ELSE IF f[n - 1].ok /\ Applies(f[n - 1].doc, ops[n])
                         THEN [ok |-> TRUE, doc |-> Apply(f[n - 1].doc, ops[n])]
                         ELSE [ok |-> FALSE, doc |-> f[n - 1].doc]
           Upto(N, f) == /\ f \in [0..N -> Outcome] /\ f[0] = begin
                         /\ \A n \in 1..N : f[n] = After(f[n - 1], ops[n])
           S == {N \in 0..L : \E f : Upto(N, f)}
<1>1. L \in Nat /\ begin \in Outcome /\ \A n \in 1..L : ops[n] \in AnyOp
  BY DEF Outcome
<1>2. 0 \in S
  <2>1. Upto(0, [n \in 0..0 |-> begin])
    BY <1>1
  <2>2. \E f : Upto(0, f)
    <3> HIDE DEF Upto
    <3> QED
      BY <2>1
  <2> QED
    BY <1>1, <2>2
<1>3. ASSUME NEW N \in 0..(L - 1), N \in S
      PROVE  N + 1 \in S
  <2>1. PICK f : Upto(N, f)
    BY <1>3
  <2>2. f[N] \in Outcome /\ ops[N + 1] \in AnyOp /\ N \in Nat /\ N + 1 \in 0..L
    BY <1>1, <2>1
  <2> DEFINE g == [n \in 0..(N + 1) |-> IF n = N + 1 THEN After(f[N], ops[N + 1]) ELSE f[n]]
  <2>3. After(f[N], ops[N + 1]) \in Outcome
    BY <2>2, AfterTyped
  <2>4. g \in [0..(N + 1) -> Outcome]
    <3>1. \A n \in 0..(N + 1) : n # N + 1 => n \in 0..N
      BY <2>2
    <3>2. \A n \in 0..N : f[n] \in Outcome
      BY <2>1
    <3> HIDE DEF Upto
    <3> QED
      BY <2>3, <3>1, <3>2
  <2>5. g[0] = begin
    <3>1. g[0] = f[0]
      BY <2>2
    <3> QED
      BY <2>1, <3>1
  <2>6. ASSUME NEW n \in 1..(N + 1)
        PROVE  g[n] = After(g[n - 1], ops[n])
    <3>1. CASE n = N + 1
      BY <2>2, <3>1
    <3>2. CASE n # N + 1
      <4>1. n \in 1..N /\ g[n] = f[n] /\ g[n - 1] = f[n - 1]
        BY <2>2, <3>2
      <4> QED
        BY <2>1, <4>1
    <3> QED
      BY <3>1, <3>2
  <2>7. Upto(N + 1, g)
    <3> HIDE DEF g
    <3> QED
      BY <2>4, <2>5, <2>6
  <2>8. \E h : Upto(N + 1, h)
    <3> HIDE DEF Upto
    <3> QED
      BY <2>7
  <2> QED
    BY <2>2, <2>8
<1>4. L \in S
  <2> HIDE DEF S
  <2>1. 0..L \subseteq S
    BY <1>1, <1>2, <1>3, Induct
  <2> QED
    BY <1>1, <2>1
<1>5. PICK f : Upto(L, f)
  BY <1>4
<1>6. f = [n \in 0..L |-> Body(f, n)]
  <2>1. ASSUME NEW n \in 0..L
        PROVE  f[n] = Body(f, n)
    <3>1. CASE n = 0
      BY <1>5, <3>1
    <3>2. CASE n # 0
      <4>1. n \in 1..L
        BY <1>1, <3>2
      <4> QED
        BY <1>5, <3>2, <4>1 DEF After
    <3> QED
      BY <3>1, <3>2
  <2> QED
    BY <1>5, <2>1
<1> DEFINE u == CHOOSE h : h = [n \in 0..L |-> Body(h, n)]
<1>7. u = [n \in 0..L |-> Body(u, n)]
  <2> HIDE DEF Body
  <2> QED
    BY <1>6
<1>8. ApplyAll(doc, ops) = u[L]
  BY DEF ApplyAll
<1> HIDE DEF u
<1>9. Steps(u, doc, ops)
  <2>1. u[0] = begin
    BY <1>1, <1>7
  <2>2. ASSUME NEW n \in 1..L
        PROVE  u[n] = After(u[n - 1], ops[n])
    <3>1. n \in 0..L /\ n # 0
      BY <1>1
    <3>2. u[n] = Body(u, n)
      <4> HIDE DEF Body
      <4> QED
        BY <1>7, <3>1
    <3> QED
      BY <3>1, <3>2 DEF After
  <2> QED
    BY <2>1, <2>2 DEF Steps
<1>10. \A n \in 0..L : u[n] \in Outcome
  <2> DEFINE Q == {n \in 0..L : u[n] \in Outcome}
  <2>1. 0 \in Q
    BY <1>1, <1>9 DEF Steps
  <2>2. ASSUME NEW n \in 0..(L - 1), n \in Q
        PROVE  n + 1 \in Q
    <3>1. n + 1 \in 1..L /\ u[n] \in Outcome /\ ops[n + 1] \in AnyOp /\ n = n + 1 - 1
      BY <1>1, <2>2
    <3>2. u[n + 1] = After(u[n], ops[n + 1])
      BY <1>9, <3>1 DEF Steps
    <3> QED
      BY <1>1, <3>1, <3>2, AfterTyped
  <2>3. 0..L \subseteq Q
    <3> HIDE DEF Q
    <3> QED
      BY <1>1, <2>1, <2>2, Induct
  <2> QED
    BY <2>3
<1>11. u \in [0..L -> Outcome]
  BY <1>7, <1>10
<1> QED
  BY <1>8, <1>9, <1>11
(* Flattening puts the parts one after the other.                           *)
Parts(f, s, M) == /\ f[0] = s[1] /\ \A n \in 1..M : f[n] = f[n - 1] \o s[n + 1]
                  /\ FlattenSeq(s) = f[M]

\* Flattening joins the parts one after the other.
LEMMA FlattenSteps ==
  ASSUME NEW T, NEW s \in Seq(Seq(T)), NEW M \in Nat, Len(s) = M + 1
  PROVE  \E f \in [0..M -> Seq(T)] : Parts(f, s, M)
<1> DEFINE Next0(x, n) == x \o s[n + 1]
           Body(h, i) == IF i = 1 THEN s[i] ELSE h[i - 1] \o s[i]
           Upto(N, f) == /\ f \in [0..N -> Seq(T)] /\ f[0] = s[1]
                         /\ \A n \in 1..N : f[n] = Next0(f[n - 1], n)
           S == {N \in 0..M : \E f : Upto(N, f)}
<1>1. s[1] \in Seq(T) /\ \A i \in 1..(M + 1) : s[i] \in Seq(T)
  OBVIOUS
<1>2. ASSUME NEW x \in Seq(T), NEW n \in 1..M
      PROVE  Next0(x, n) \in Seq(T)
  <2>1. s[n + 1] \in Seq(T)
    BY <1>1
  <2> QED
    BY <2>1, ConcatProperties
<1>3. 0 \in S
  <2>1. Upto(0, [n \in 0..0 |-> s[1]])
    BY <1>1
  <2>2. \E f : Upto(0, f)
    <3> HIDE DEF Upto
    <3> QED
      BY <2>1
  <2> QED
    <3> HIDE DEF Upto
    <3> QED
      BY <2>2
<1> HIDE DEF Next0
<1>4. ASSUME NEW N \in 0..(M - 1), N \in S
      PROVE  N + 1 \in S
  <2>1. PICK f : Upto(N, f)
    BY <1>4
  <2>2. f[N] \in Seq(T) /\ N \in Nat /\ N + 1 \in 1..M /\ N + 1 \in 0..M
    BY <2>1
  <2> DEFINE g == [n \in 0..(N + 1) |-> IF n = N + 1 THEN Next0(f[N], N + 1) ELSE f[n]]
  <2>3. Next0(f[N], N + 1) \in Seq(T)
    BY <1>2, <2>2
  <2>4. g \in [0..(N + 1) -> Seq(T)]
    <3>1. \A n \in 0..(N + 1) : n # N + 1 => n \in 0..N
      BY <2>2
    <3>2. \A n \in 0..N : f[n] \in Seq(T)
      BY <2>1
    <3> HIDE DEF Upto
    <3> QED
      BY <2>3, <3>1, <3>2
  <2>5. g[0] = s[1]
    <3>1. g[0] = f[0]
      BY <2>2
    <3> QED
      BY <2>1, <3>1
  <2>6. ASSUME NEW n \in 1..(N + 1)
        PROVE  g[n] = Next0(g[n - 1], n)
    <3>1. CASE n = N + 1
      BY <2>2, <3>1
    <3>2. CASE n # N + 1
      <4>1. n \in 1..N /\ g[n] = f[n] /\ g[n - 1] = f[n - 1]
        BY <2>2, <3>2
      <4> QED
        BY <2>1, <4>1
    <3> QED
      BY <3>1, <3>2
  <2>7. Upto(N + 1, g)
    <3> HIDE DEF g
    <3> QED
      BY <2>4, <2>5, <2>6
  <2>8. \E h : Upto(N + 1, h)
    <3> HIDE DEF Upto
    <3> QED
      BY <2>7
  <2> QED
    BY <2>2, <2>8
<1>5. PICK f : Upto(M, f)
  <2>1. 0..M \subseteq S
    <3> HIDE DEF S
    <3> QED
      BY <1>3, <1>4, Induct
  <2>2. M \in 0..M
    OBVIOUS
  <2> QED
    <3> HIDE DEF Upto
    <3> QED
      BY <2>1, <2>2
<1> DEFINE F == [i \in 1..(M + 1) |-> f[i - 1]]
<1>6. F = [i \in 1..(M + 1) |-> Body(F, i)]
  <2>1. ASSUME NEW i \in 1..(M + 1)
        PROVE  F[i] = Body(F, i)
    <3>1. CASE i = 1
      BY <1>5, <3>1
    <3>2. CASE i # 1
      <4>1. i - 1 \in 1..M /\ F[i] = f[i - 1] /\ F[i - 1] = f[i - 1 - 1]
        BY <3>2
      <4>2. f[i - 1] = Next0(f[i - 1 - 1], i - 1)
        BY <1>5, <4>1
      <4>3. i - 1 + 1 = i
        OBVIOUS
      <4> QED
        BY <3>2, <4>1, <4>2, <4>3 DEF Next0
    <3> QED
      BY <3>1, <3>2
  <2> QED
    BY <2>1
<1> DEFINE u == CHOOSE h : h = [i \in 1..(M + 1) |-> Body(h, i)]
<1>7. u = [i \in 1..(M + 1) |-> Body(u, i)]
  <2> HIDE DEF Body, F
  <2> QED
    BY <1>6
<1>8. FlattenSeq(s) = u[M + 1]
  <2>1. Len(s) # 0
    OBVIOUS
  <2>2. FlattenSeq(s) = (CHOOSE h : h = [i \in 1..Len(s) |-> Body(h, i)])[Len(s)]
    BY <2>1 DEF FlattenSeq
  <2> QED
    BY <2>2
<1> HIDE DEF u
<1> DEFINE v == [n \in 0..M |-> u[n + 1]]
<1>9. v[0] = s[1] /\ \A n \in 1..M : v[n] = v[n - 1] \o s[n + 1]
  <2>1. u[1] = s[1]
    <3>1. 1 \in 1..(M + 1)
      OBVIOUS
    <3> QED
      BY <1>7, <3>1
  <2>2. ASSUME NEW n \in 1..M
        PROVE  v[n] = v[n - 1] \o s[n + 1]
    <3>1. n + 1 \in 1..(M + 1) /\ n + 1 # 1 /\ n + 1 - 1 = n /\ n - 1 + 1 = n /\ n \in 0..M /\ n - 1 \in 0..M
      OBVIOUS
    <3>2. u[n + 1] = Body(u, n + 1)
      <4> HIDE DEF Body
      <4> QED
        BY <1>7, <3>1
    <3>3. u[n + 1] = u[n] \o s[n + 1]
      <4> DEFINE k == n + 1
      <4>1. k # 1 /\ k - 1 = n /\ u[k] = Body(u, k)
        BY <3>1, <3>2
      <4> HIDE DEF k
      <4>2. u[k] = u[n] \o s[k]
        BY <4>1
      <4>3. k = n + 1
        BY DEF k
      <4> QED
        BY <4>2, <4>3
    <3>4. v[n] = u[n + 1] /\ v[n - 1] = u[n]
      BY <3>1
    <3> HIDE DEF v
    <3> QED
      BY <3>1, <3>3, <3>4
  <2>3. v[0] = s[1]
    <3>1. 0 \in 0..M /\ 0 + 1 = 1
      OBVIOUS
    <3> QED
      BY <2>1, <3>1
  <2> HIDE DEF v
  <2> QED
    BY <2>2, <2>3
<1>10. v[M] = FlattenSeq(s) /\ DOMAIN v = 0..M /\ v = [n \in 0..M |-> v[n]]
  BY <1>8
<1> HIDE DEF v
<1>11. \A n \in 0..M : v[n] \in Seq(T)
  <2> DEFINE Q == {n \in 0..M : v[n] \in Seq(T)}
  <2>1. 0 \in Q
    BY <1>1, <1>9
  <2>2. ASSUME NEW n \in 0..(M - 1), n \in Q
        PROVE  n + 1 \in Q
    <3>1. n + 1 \in 1..M /\ n + 1 \in 0..M /\ n + 1 - 1 = n /\ v[n] \in Seq(T)
      BY <2>2
    <3>2. v[n + 1] = Next0(v[n], n + 1)
      <4>1. \A k \in 1..M : v[k] = Next0(v[k - 1], k)
        BY <1>9 DEF Next0
      <4>2. v[n + 1] = Next0(v[n + 1 - 1], n + 1)
        BY <3>1, <4>1
      <4> QED
        BY <3>1, <4>2
    <3>3. v[n + 1] \in Seq(T)
      BY <1>2, <3>1, <3>2
    <3> QED
      BY <3>1, <3>3
  <2>3. 0..M \subseteq Q
    <3> HIDE DEF Q
    <3> QED
      BY <2>1, <2>2, Induct
  <2> QED
    BY <2>3
<1>12. v \in [0..M -> Seq(T)]
  BY <1>10, <1>11
<1>13. Parts(v, s, M)
  BY <1>9, <1>10 DEF Parts
<1> QED
  BY <1>12, <1>13

(* One part more: after a, where the parts up to the M-th are at off, is b. *)
Laid(F, s, off, N) ==
  /\ \A j \in 1..N : \A q \in 1..Len(s[j]) :
       off[j] + q \in 1..Len(F) /\ F[off[j] + q] = s[j][q]
  /\ \A n \in 1..Len(F) : \E j \in 1..N : n - off[j] \in 1..Len(s[j])
  /\ \A j \in 1..N : off[j] + Len(s[j]) <= Len(F)
  /\ \A i, j \in 1..N : i < j => off[i] + Len(s[i]) <= off[j]

\* If the first parts are laid at their offsets, so they are with one more behind them.
LEMMA LaidNext ==
  ASSUME NEW T, NEW s \in Seq(Seq(T)), NEW N \in Nat, N + 1 <= Len(s),
         NEW off, \A j \in 1..(N + 1) : off[j] \in Nat,
         NEW a \in Seq(T), NEW F, F = a \o s[N + 1],
         Laid(a, s, off, N), off[N + 1] = Len(a)
  PROVE  Laid(F, s, off, N + 1)
<1> DEFINE b == s[N + 1]
<1>1. b \in Seq(T) /\ Len(b) \in Nat /\ Len(a) \in Nat
  BY LenProperties
<1>2. \A j \in 1..(N + 1) : Len(s[j]) \in Nat /\ (j # N + 1 => j \in 1..N)
  <2>1. \A j \in 1..(N + 1) : s[j] \in Seq(T)
    BY LenProperties
  <2> QED
    BY <2>1, LenProperties
<1>3. F = a \o b /\ \A q : s[N + 1][q] = b[q]
  OBVIOUS
<1>4. Len(s[N + 1]) = Len(b)
  OBVIOUS
<1> HIDE DEF b
<1>5. /\ Len(F) = Len(a) + Len(b)
      /\ \A n \in 1..Len(a) : F[n] = a[n]
      /\ \A n \in 1..Len(b) : F[Len(a) + n] = b[n]
  BY <1>1, <1>3, ConcatProperties
<1>6. ASSUME NEW j \in 1..(N + 1), NEW q \in 1..Len(s[j])
      PROVE  off[j] + q \in 1..Len(F) /\ F[off[j] + q] = s[j][q]
  <2>1. CASE j = N + 1
    <3>1. q \in 1..Len(b) /\ s[j][q] = b[q] /\ off[j] = Len(a)
      BY <1>3, <1>4, <2>1
    <3> QED
      BY <1>1, <1>5, <3>1
  <2>2. CASE j # N + 1
    <3>1. off[j] + q \in 1..Len(a) /\ a[off[j] + q] = s[j][q]
      BY <1>2, <2>2 DEF Laid
    <3> QED
      BY <1>1, <1>5, <3>1
  <2> QED
    BY <2>1, <2>2
<1>7. ASSUME NEW n \in 1..Len(F)
      PROVE  \E j \in 1..(N + 1) : n - off[j] \in 1..Len(s[j])
  <2>1. CASE n <= Len(a)
    <3>1. n \in 1..Len(a)
      BY <1>1, <1>5, <2>1
    <3>2. PICK j \in 1..N : n - off[j] \in 1..Len(s[j])
      BY <3>1 DEF Laid
    <3> QED
      BY <3>2
  <2>2. CASE n > Len(a)
    <3>1. n - off[N + 1] \in 1..Len(b)
      BY <1>1, <1>5, <2>2
    <3>2. N + 1 \in 1..(N + 1)
      OBVIOUS
    <3> QED
      BY <1>4, <3>1, <3>2
  <2> QED
    BY <1>1, <1>5, <2>1, <2>2
<1>8. ASSUME NEW j \in 1..(N + 1)
      PROVE  off[j] + Len(s[j]) <= Len(F)
  <2>1. CASE j = N + 1
    BY <1>1, <1>4, <1>5, <2>1
  <2>2. CASE j # N + 1
    <3>1. off[j] + Len(s[j]) <= Len(a) /\ off[j] \in Nat /\ Len(s[j]) \in Nat
      BY <1>2, <2>2 DEF Laid
    <3>2. Len(a) <= Len(F) /\ Len(F) \in Nat
      BY <1>1, <1>5
    <3> QED
      BY <1>1, <3>1, <3>2
  <2> QED
    BY <2>1, <2>2
<1>9. ASSUME NEW i \in 1..(N + 1), NEW j \in 1..(N + 1), i < j
      PROVE  off[i] + Len(s[i]) <= off[j]
  <2>1. i \in 1..N
    BY <1>9
  <2>2. CASE j = N + 1
    BY <2>1, <2>2 DEF Laid
  <2>3. CASE j # N + 1
    BY <1>2, <1>9, <2>1, <2>3 DEF Laid
  <2> QED
    BY <2>2, <2>3
<1> QED
  BY <1>6, <1>7, <1>8, <1>9 DEF Laid

(* off[j] is where the j-th part begins.                                    *)
LEMMA FlattenIs ==
  ASSUME NEW T, NEW s \in Seq(Seq(T)), s # <<>>
  PROVE  /\ FlattenSeq(s) \in Seq(T)
         /\ \E off \in [1..Len(s) -> Nat] : off[1] = 0 /\ Laid(FlattenSeq(s), s, off, Len(s))
<1>1. PICK M \in Nat : Len(s) = M + 1
  <2>1. Len(s) \in Nat /\ Len(s) # 0
    BY EmptySeq, LenProperties
  <2>2. Len(s) - 1 \in Nat /\ Len(s) = Len(s) - 1 + 1
    BY <2>1
  <2> QED
    BY <2>2
<1>2. PICK f \in [0..M -> Seq(T)] : Parts(f, s, M)
  BY <1>1, FlattenSteps
<1>3. \A n \in 0..M : f[n] \in Seq(T) /\ Len(f[n]) \in Nat
  BY LenProperties
<1> DEFINE off == [j \in 1..(M + 1) |-> IF j = 1 THEN 0 ELSE Len(f[j - 2])]
<1>4. off \in [1..(M + 1) -> Nat] /\ off[1] = 0 /\ \A n \in 1..M : off[n + 1] = Len(f[n - 1])
  <2>1. \A j \in 1..(M + 1) : j # 1 => j - 2 \in 0..M
    OBVIOUS
  <2>2. \A j \in 1..(M + 1) : (IF j = 1 THEN 0 ELSE Len(f[j - 2])) \in Nat
    BY <1>3, <2>1
  <2>3. \A n \in 1..M : n + 1 \in 1..(M + 1) /\ n + 1 # 1 /\ n + 1 - 2 = n - 1
    OBVIOUS
  <2> QED
    BY <2>2, <2>3
<1> HIDE DEF off
<1> DEFINE S == {n \in 0..M : Laid(f[n], s, off, n + 1)}
<1>5. 0 \in S
  <2>1. /\ f[0] = s[1] /\ s[1] \in Seq(T) /\ Len(s[1]) \in Nat /\ off[1] = 0
    BY <1>2, <1>3, <1>4 DEF Parts
  <2>2. Laid(f[0], s, off, 1)
    BY <2>1 DEF Laid
  <2>3. 0 + 1 = 1
    OBVIOUS
  <2> QED
    BY <2>2, <2>3
<1>6. ASSUME NEW n \in 0..(M - 1), n \in S
      PROVE  n + 1 \in S
  <2>1. /\ n + 1 \in Nat /\ n + 1 \in 1..M /\ n + 1 \in 0..M /\ n + 1 - 1 = n
        /\ n + 1 + 1 <= Len(s) /\ n + 1 + 1 \in 1..(M + 1) /\ n \in 0..M
    BY <1>1
  <2>2. /\ f[n + 1] = f[n] \o s[n + 1 + 1] /\ off[n + 1 + 1] = Len(f[n]) /\ f[n] \in Seq(T)
    <3> DEFINE k == n + 1
    <3>1. k \in 1..M /\ k - 1 = n
      BY <2>1
    <3> HIDE DEF k
    <3>2. f[k] = f[n] \o s[k + 1] /\ off[k + 1] = Len(f[n])
      BY <1>2, <1>4, <3>1 DEF Parts
    <3>3. f[n] \in Seq(T)
      BY <1>3, <2>1
    <3> QED
      BY <3>2, <3>3 DEF k
  <2>3. Laid(f[n], s, off, n + 1)
    BY <1>6
  <2>5. \A j \in 1..(n + 1 + 1) : off[j] \in Nat
    <3>1. \A j \in 1..(n + 1 + 1) : j \in 1..(M + 1)
      BY <2>1
    <3> QED
      BY <1>4, <3>1
  <2>4. Laid(f[n + 1], s, off, n + 1 + 1)
    BY <2>1, <2>2, <2>3, <2>5, LaidNext
  <2> QED
    BY <2>1, <2>4
<1>7. Laid(f[M], s, off, M + 1)
  <2>1. 0..M \subseteq S
    <3> HIDE DEF S
    <3> QED
      BY <1>5, <1>6, Induct
  <2>2. M \in 0..M
    OBVIOUS
  <2> QED
    BY <2>1, <2>2
<1>8. FlattenSeq(s) = f[M] /\ f[M] \in Seq(T)
  BY <1>2, <1>3 DEF Parts
<1>9. off \in [1..Len(s) -> Nat] /\ Laid(FlattenSeq(s), s, off, Len(s))
  BY <1>1, <1>4, <1>7, <1>8
<1> QED
  BY <1>4, <1>8, <1>9
-----------------------------------------------------------------------------
(* The inductive invariant.  What a message in the queue is to a subscriber. *)
Statuses == {"processing", "typing", "ready"}
Patches == {ops \in Seq(AnyOp) : ops # <<>> /\ ops[1].path # "results/-"}
Msg == [ev : Events, ops : Patches] \cup [ev : Events, status : Statuses]
What(m) == IF "ops" \in DOMAIN m THEN m.ops[1].path ELSE m.status

Queued(q, j, ev, what) == j \in 1..Len(q) /\ q[j].ev = ev /\ What(q[j]) = what
Seen(seen, k, what) == k \in 1..Len(seen) /\ seen[k].what = what

\* A document is there only as long as something will still be said of its event:
\* that it is ready is queued, behind every chunk that is, or its run is open.
Live(st, ev) == ev[2] = 0 /\ st[ev[1]] = "open"
Emptied(ph, st, d, q) ==
  /\ ph = "done" => \A r \in Runs : st[r] # "open"
  /\ \A ev \in Events : d[ev] # Absent => Live(st, ev) \/ \E h \in 1..Len(q) : Queued(q, h, ev, "ready")
  /\ \A j \in 1..Len(q) : "ops" \in DOMAIN q[j] =>
       Live(st, q[j].ev) \/ \E h \in (j + 1)..Len(q) : Queued(q, h, q[j].ev, "ready")

\* Nothing is said of a run before it starts, and its start is said first.
StartFirst(ev, unborn, typed, q, seen) ==
  /\ unborn => seen = <<>> /\ ~typed /\ \A j \in 1..Len(q) : q[j].ev # ev
  /\ \A j \in 1..Len(q) : Queued(q, j, ev, "processing") =>
       seen = <<>> /\ \A i \in 1..(j - 1) : q[i].ev # ev
  /\ \A k \in 1..Len(seen) : Seen(seen, k, "processing") => k = 1

\* "typing" is said once, and before any text.
TypingFirst(ev, typed, q, seen) ==
  /\ typed <=> \/ \E k \in 1..Len(seen) : Seen(seen, k, "typing")
               \/ \E j \in 1..Len(q) : Queued(q, j, ev, "typing")
  /\ \A j \in 1..Len(q) : Queued(q, j, ev, "typing") =>
       /\ \A k \in 1..Len(seen) : ~Seen(seen, k, "typing")
       /\ \A i \in 1..Len(q) : Queued(q, i, ev, "typing") => i = j
  /\ \A j, k \in 1..Len(seen) : Seen(seen, j, "typing") /\ Seen(seen, k, "typing") => j = k
  /\ \A j \in 1..Len(q) : Queued(q, j, ev, "/-") =>
       \/ \E k \in 1..Len(seen) : Seen(seen, k, "typing")
       \/ \E i \in 1..(j - 1) : Queued(q, i, ev, "typing")
  /\ \A k \in 1..Len(seen) : Seen(seen, k, "/-") => \E t \in 1..(k - 1) : Seen(seen, t, "typing")

Unsaid == \A r \in Runs : stage[r] = "unborn" => script[r] = <<>>

IInv == /\ TypeOK
        /\ queue \in Seq(Msg)
        /\ Unsaid
        /\ Emptied(phase, stage, docs, queue)
        /\ \A r \in Runs :
             LET ev == Message(r)
             IN /\ StartFirst(ev, stage[r] = "unborn", r \in typing, queue, shown[ev])
                /\ TypingFirst(ev, r \in typing, queue, shown[ev])

\* A queued message is a chunk with patches or a status.
LEMMA MsgIs ==
  ASSUME NEW m \in Msg
  PROVE  /\ m.ev \in Events
         /\ "ops" \in DOMAIN m => /\ m.ops \in Seq(AnyOp) /\ m.ops # <<>> /\ m.ops[1] \in AnyOp
                                  /\ What(m) = m.ops[1].path /\ What(m) \notin Statuses
                                  /\ What(m) \in Whats
         /\ "ops" \notin DOMAIN m => m.status \in Statuses /\ What(m) = m.status
<1>1. CASE m \in [ev : Events, ops : Patches]
  <2>1. /\ "ops" \in DOMAIN m /\ m.ev \in Events /\ m.ops \in Seq(AnyOp) /\ m.ops # <<>>
        /\ m.ops[1].path # "results/-"
    BY <1>1 DEF Patches
  <2>2. m.ops[1] \in AnyOp
    BY <2>1, EmptySeq, LenProperties
  <2>3. m.ops[1].path \in {"call", "args", "args/-", "results", "results/-", "/-"}
    BY <2>2 DEF AnyOp, CallOp, ResultOp, TextOp
  <2>4. What(m) = m.ops[1].path
    BY <2>1 DEF What
  <2> DEFINE w == m.ops[1].path
  <2>5. w \notin Statuses /\ w \in Whats
    <3>1. w \in {"call", "args", "args/-", "results", "/-"}
      BY <2>1, <2>3
    <3> HIDE DEF w
    <3> QED
      BY <3>1 DEF Statuses, Whats
  <2> QED
    BY <2>1, <2>2, <2>4, <2>5
<1>2. CASE m \in [ev : Events, status : Statuses]
  <2>1. "ops" \notin DOMAIN m /\ m.ev \in Events /\ m.status \in Statuses
    BY <1>2
  <2> QED
    BY <2>1 DEF What
<1> QED
  BY <1>1, <1>2 DEF Msg

\* A status is one message, of its event.
LEMMA StatusMsgIs ==
  ASSUME NEW ev \in Events, NEW status \in Statuses
  PROVE  /\ StatusMsg(ev, status) \in Seq(Msg) /\ Len(StatusMsg(ev, status)) = 1
         /\ StatusMsg(ev, status)[1].ev = ev /\ What(StatusMsg(ev, status)[1]) = status
         /\ "ops" \notin DOMAIN StatusMsg(ev, status)[1]
<1> DEFINE m == [ev |-> ev, status |-> status]
<1>1. m \in Msg /\ m.ev = ev /\ What(m) = status /\ "ops" \notin DOMAIN m
  BY DEF Msg, What
<1>2. StatusMsg(ev, status) = <<m>>
  BY DEF StatusMsg
<1> HIDE DEF m
<1> QED
  BY <1>1, <1>2

\* A chunk with patches is one message, of its event.
LEMMA ChunkMsgIs ==
  ASSUME NEW ev \in Events, NEW ops \in Patches
  PROVE  /\ ChunkMsg(ev, ops) \in Seq(Msg) /\ Len(ChunkMsg(ev, ops)) = 1
         /\ ChunkMsg(ev, ops)[1].ev = ev /\ ChunkMsg(ev, ops)[1].ops = ops
         /\ What(ChunkMsg(ev, ops)[1]) = ops[1].path
         /\ "ops" \in DOMAIN ChunkMsg(ev, ops)[1]
<1> DEFINE m == [ev |-> ev, ops |-> ops]
<1>1. m \in Msg /\ m.ev = ev /\ What(m) = ops[1].path /\ "ops" \in DOMAIN m /\ m.ops = ops
  BY DEF Msg, What
<1>2. ChunkMsg(ev, ops) = <<m>>
  BY DEF ChunkMsg
<1> HIDE DEF m
<1> QED
  BY <1>1, <1>2
(* What a chunk of the model becomes: at most one "typing", before the text. *)
LEMMA CallOpsIs ==
  ASSUME NEW t \in CallChunk, NEW k \in Nat, t.id \/ t.args # "none"
  PROVE  CallOps(t, k) \in Seq(CallOp) /\ CallOps(t, k) # <<>>
<1>1. t.i \in 1..MaxCalls /\ t.args \in Args /\ t.id \in BOOLEAN
  BY DEF CallChunk
<1>2. /\ Op("call", t.i, k) \in CallOp /\ Op("args", t.i, k) \in CallOp
      /\ Op("args/-", t.i, k) \in CallOp
  BY <1>1 DEF CallOp, Op
<1> DEFINE c == Op("call", t.i, k)
           a == Op("args", t.i, k)
           b == Op("args/-", t.i, k)
<1>3. ArgsOps(t, k) = IF t.args = "none" THEN <<>> ELSE IF t.args = "whole" THEN <<a>> ELSE <<b>>
  BY DEF ArgsOps
<1>4. CallOps(t, k) = (IF t.id THEN <<c>> ELSE <<>>) \o ArgsOps(t, k)
  BY DEF CallOps
<1> HIDE DEF a, b, c
<1>5. ArgsOps(t, k) \in Seq(CallOp) /\ (t.args # "none" => Len(ArgsOps(t, k)) = 1)
  BY <1>2, <1>3 DEF a, b
<1>6. (IF t.id THEN <<c>> ELSE <<>>) \in Seq(CallOp) /\ (t.id => Len(IF t.id THEN <<c>> ELSE <<>>) = 1)
  BY <1>2 DEF c
<1> DEFINE d == IF t.id THEN <<c>> ELSE <<>>
<1>7. d \in Seq(CallOp) /\ (t.id => Len(d) = 1) /\ CallOps(t, k) = d \o ArgsOps(t, k)
  BY <1>4, <1>6
<1> HIDE DEF d
<1>8. /\ CallOps(t, k) \in Seq(CallOp)
      /\ Len(CallOps(t, k)) = Len(d) + Len(ArgsOps(t, k)) /\ Len(d) \in Nat /\ Len(ArgsOps(t, k)) \in Nat
  BY <1>5, <1>7, ConcatProperties, LenProperties
<1>9. Len(CallOps(t, k)) # 0
  <2>1. CASE t.id
    BY <1>7, <1>8, <2>1
  <2>2. CASE t.args # "none"
    BY <1>5, <1>8, <2>2
  <2> QED
    BY <2>1, <2>2
<1> QED
  BY <1>8, <1>9, EmptySeq

\* A chunk that a script may have.
Sayable(c) == c \in Chunk /\ \A t \in ToSet(c.calls) : t.id \/ t.args # "none"

\* Each call of a chunk becomes patches of its own.
LEMMA BlocksAre ==
  ASSUME NEW c, Sayable(c), NEW k \in Nat
  PROVE  /\ [j \in DOMAIN c.calls |-> CallOps(c.calls[j], k)] \in Seq(Seq(CallOp))
         /\ Len([j \in DOMAIN c.calls |-> CallOps(c.calls[j], k)]) = Len(c.calls)
         /\ \A j \in 1..Len(c.calls) : CallOps(c.calls[j], k) # <<>>
<1>1. c.calls \in Seq(CallChunk) /\ DOMAIN c.calls = 1..Len(c.calls) /\ Len(c.calls) \in Nat
  BY LenProperties DEF Sayable, Chunk
<1>2. \A j \in 1..Len(c.calls) : c.calls[j] \in CallChunk /\ (c.calls[j].id \/ c.calls[j].args # "none")
  BY <1>1 DEF Sayable, ToSet
<1>3. \A j \in 1..Len(c.calls) : CallOps(c.calls[j], k) \in Seq(CallOp) /\ CallOps(c.calls[j], k) # <<>>
  BY <1>2, CallOpsIs
<1> DEFINE s == [j \in 1..Len(c.calls) |-> CallOps(c.calls[j], k)]
<1>4. s \in Seq(Seq(CallOp)) /\ Len(s) = Len(c.calls)
  BY <1>1, <1>3, IsASeq
<1> QED
  BY <1>1, <1>3, <1>4

\* The calls of a chunk become messages of the run's message, each about calls.
LEMMA CallMsgs ==
  ASSUME NEW r \in Runs, NEW c, Sayable(c), NEW k \in Nat
  PROVE  LET n == IF ToolCalls(c) # {}
                  THEN ChunkMsg(Message(r), FlattenSeq([j \in DOMAIN c.calls |-> CallOps(c.calls[j], k)]))
                  ELSE FragmentMsgs(r, c, k)
         IN /\ n \in Seq(Msg)
            /\ \A j \in 1..Len(n) : /\ n[j].ev = Message(r) /\ "ops" \in DOMAIN n[j]
                                    /\ n[j].ops \in Seq(CallOp) /\ What(n[j]) \in {"call", "args", "args/-"}
<1>1. c.calls \in Seq(CallChunk) /\ DOMAIN c.calls = 1..Len(c.calls) /\ Len(c.calls) \in Nat
  BY LenProperties DEF Sayable, Chunk
<1>2. Message(r) \in Events
  BY MaxCallsNat DEF Message, Events
<1>3. CASE ToolCalls(c) # {}
  <2> DEFINE s == [j \in DOMAIN c.calls |-> CallOps(c.calls[j], k)]
             F == FlattenSeq(s)
  <2>1. s \in Seq(Seq(CallOp)) /\ Len(s) = Len(c.calls) /\ \A j \in 1..Len(s) : s[j] # <<>>
    BY <1>1, BlocksAre
  <2>2. Len(c.calls) # 0
    BY <1>1, <1>3 DEF ToolCalls, ToSet
  <2> HIDE DEF s
  <2>3. s # <<>> /\ 1 \in 1..Len(s)
    BY <1>1, <2>1, <2>2, EmptySeq
  <2>4. F \in Seq(CallOp)
    BY <2>1, <2>3, FlattenIs
  <2>5. PICK off \in [1..Len(s) -> Nat] : off[1] = 0 /\ Laid(F, s, off, Len(s))
    BY <2>1, <2>3, FlattenIs
  <2>6. 1 \in 1..Len(s[1])
    <3>1. s[1] \in Seq(CallOp) /\ s[1] # <<>>
      BY <2>1, <2>3
    <3> QED
      BY <3>1, EmptySeq, LenProperties
  <2>7. 1 \in 1..Len(F)
    BY <2>3, <2>5, <2>6 DEF Laid
  <2> HIDE DEF F
  <2>8. F # <<>> /\ F[1] \in CallOp
    BY <2>4, <2>7
  <2>9. F \in Seq(AnyOp)
    BY <2>4 DEF AnyOp
  <2>10. F[1].path \in {"call", "args", "args/-"} /\ F \in Patches
    BY <2>8, <2>9 DEF CallOp, Patches
  <2> DEFINE n == ChunkMsg(Message(r), F)
  <2>11. n \in Seq(Msg) /\ Len(n) = 1 /\ n[1].ev = Message(r) /\ n[1].ops = F /\ What(n[1]) = F[1].path /\ "ops" \in DOMAIN n[1]
    BY <1>2, <2>10, ChunkMsgIs
  <2> HIDE DEF n
  <2>12. \A j \in 1..Len(n) : /\ n[j].ev = Message(r) /\ "ops" \in DOMAIN n[j]
                              /\ n[j].ops \in Seq(CallOp) /\ What(n[j]) \in {"call", "args", "args/-"}
    BY <2>4, <2>10, <2>11
  <2> QED
    BY <1>3, <2>11, <2>12 DEF n, F, s
<1>4. CASE ToolCalls(c) = {}
  <2> DEFINE o == Op("args/-", Head(c.calls).i, k)
             m == [ev |-> Message(r), ops |-> <<o>>]
             n == [j \in 1..Len(c.calls) |-> m]
  <2>1. FragmentMsgs(r, c, k) = IF c.kwargs THEN n ELSE <<>>
    BY <1>1 DEF FragmentMsgs
  <2>2. ASSUME NEW j \in 1..Len(c.calls)
        PROVE  m \in Msg /\ o \in CallOp
    <3>1. c.calls # <<>>
      BY <1>1
    <3>2. Head(c.calls) \in CallChunk
      BY <1>1, <3>1
    <3>3. o \in CallOp /\ o \in AnyOp /\ o.path # "results/-"
      BY <3>2 DEF CallChunk, CallOp, Op, AnyOp
    <3> HIDE DEF o
    <3>4. <<o>> \in Patches
      BY <3>3 DEF Patches
    <3> QED
      BY <1>2, <3>3, <3>4 DEF Msg
  <2>3. What(m) = "args/-" /\ m.ev = Message(r) /\ "ops" \in DOMAIN m /\ m.ops = <<o>>
    BY DEF What, Op
  <2> HIDE DEF o, m
  <2>4. n \in Seq(Msg) /\ Len(n) = Len(c.calls)
    BY <1>1, <2>2, IsASeq
  <2>5. \A j \in 1..Len(n) : /\ n[j].ev = Message(r) /\ "ops" \in DOMAIN n[j]
                             /\ n[j].ops \in Seq(CallOp) /\ What(n[j]) \in {"call", "args", "args/-"}
    <3>1. ASSUME NEW j \in 1..Len(c.calls)
          PROVE  n[j] = m /\ <<o>> \in Seq(CallOp)
      BY <2>2
    <3> HIDE DEF n
    <3> QED
      BY <2>3, <2>4, <3>1
  <2> HIDE DEF n
  <2>6. CASE c.kwargs
    BY <1>4, <2>1, <2>4, <2>5, <2>6
  <2>7. CASE ~c.kwargs
    <3> DEFINE e == <<>>
    <3>1. FragmentMsgs(r, c, k) = e /\ e \in Seq(Msg) /\ Len(e) = 0
      BY <2>1, <2>7
    <3> HIDE DEF e
    <3> QED
      BY <1>4, <3>1
  <2> QED
    BY <2>6, <2>7
<1> QED
  BY <1>3, <1>4

\* The text of a chunk is announced if it is the first, and then one patch.
LEMMA TextMsgsIs ==
  ASSUME NEW r \in Runs, NEW k \in Nat
  PROVE  /\ TextMsgs(r, k) \in Seq(Msg)
         /\ Len(TextMsgs(r, k)) = IF r \in typing THEN 1 ELSE 2
         /\ \A j \in 1..Len(TextMsgs(r, k)) :
              /\ TextMsgs(r, k)[j].ev = Message(r)
              /\ What(TextMsgs(r, k)[j]) = IF r \notin typing /\ j = 1 THEN "typing" ELSE "/-"
              /\ "ops" \in DOMAIN TextMsgs(r, k)[j] => TextMsgs(r, k)[j].ops = <<Op("/-", 0, k)>>
<1> DEFINE a == StatusMsg(Message(r), "typing")
           o == Op("/-", 0, k)
           b == ChunkMsg(Message(r), <<o>>)
<1>1. Message(r) \in Events
  BY MaxCallsNat DEF Message, Events
<1>2. o \in AnyOp /\ o.path = "/-"
  BY DEF Op, AnyOp, TextOp
<1>3. TextMsgs(r, k) = (IF r \in typing THEN <<>> ELSE a) \o b
  BY DEF TextMsgs
<1> HIDE DEF o
<1>4. <<o>> \in Patches /\ <<o>>[1] = o
  BY <1>2 DEF Patches
<1>5. /\ b \in Seq(Msg) /\ Len(b) = 1 /\ b[1].ev = Message(r) /\ What(b[1]) = "/-"
      /\ b[1].ops = <<o>>
  BY <1>1, <1>2, <1>4, ChunkMsgIs
<1>6. /\ a \in Seq(Msg) /\ Len(a) = 1 /\ a[1].ev = Message(r) /\ What(a[1]) = "typing"
      /\ "ops" \notin DOMAIN a[1]
  <2>1. "typing" \in Statuses
    BY DEF Statuses
  <2> QED
    BY <1>1, <2>1, StatusMsgIs
<1> HIDE DEF a, b
<1> DEFINE x == TextMsgs(r, k)
<1>7. CASE r \in typing
  <2>1. x = b
    BY <1>3, <1>5, <1>7
  <2> HIDE DEF x
  <2>2. x \in Seq(Msg) /\ Len(x) = 1
    BY <1>5, <2>1
  <2>3. \A j \in 1..Len(x) : x[j].ev = Message(r) /\ What(x[j]) = "/-" /\ x[j].ops = <<o>>
    BY <1>5, <2>1
  <2> QED
    BY <1>7, <2>2, <2>3 DEF o, x
<1>8. CASE r \notin typing
  <2>1. x = a \o b
    BY <1>3, <1>8
  <2> HIDE DEF x
  <2>2. /\ x \in Seq(Msg) /\ Len(x) = 2 /\ x[1] = a[1] /\ x[2] = b[1]
    BY <1>5, <1>6, <2>1, ConcatProperties
  <2>3. \A j \in 1..Len(x) : /\ x[j].ev = Message(r) /\ What(x[j]) = IF j = 1 THEN "typing" ELSE "/-"
                             /\ "ops" \in DOMAIN x[j] => x[j].ops = <<o>>
    <3>1. \A j \in 1..Len(x) : j = 1 \/ j = 2
      BY <2>2
    <3> QED
      BY <1>5, <1>6, <2>2, <3>1
  <2> QED
    BY <1>8, <2>2, <2>3 DEF o, x
<1> QED
  BY <1>7, <1>8

\* What a chunk of the model emits, and that its text comes behind the typing.
LEMMA EmittedIs ==
  ASSUME NEW r \in Runs, NEW c, Sayable(c), NEW k \in Nat
  PROVE  /\ Emitted(r, c, k) \in Seq(Msg)
         /\ \A j \in 1..Len(Emitted(r, c, k)) :
              LET m == Emitted(r, c, k)[j]
              IN /\ m.ev = Message(r)
                 /\ What(m) \in {"typing", "/-", "call", "args", "args/-"}
                 /\ What(m) = "typing" => j = 1 /\ r \notin typing /\ c.text
                 /\ What(m) = "/-" => c.text /\ (r \in typing \/ j > 1)
         /\ c.text /\ r \notin typing => /\ 1 \in 1..Len(Emitted(r, c, k))
                                         /\ What(Emitted(r, c, k)[1]) = "typing"
<1> DEFINE a == IF c.text THEN TextMsgs(r, k) ELSE <<>>
           n == IF ToolCalls(c) # {}
                THEN ChunkMsg(Message(r), FlattenSeq([j \in DOMAIN c.calls |-> CallOps(c.calls[j], k)]))
                ELSE FragmentMsgs(r, c, k)
           F == Emitted(r, c, k)
<1>1. F = a \o n
  BY DEF Emitted
<1>2. /\ n \in Seq(Msg)
      /\ \A j \in 1..Len(n) : n[j].ev = Message(r) /\ What(n[j]) \in {"call", "args", "args/-"}
  BY CallMsgs
<1> HIDE DEF n
<1>3. /\ a \in Seq(Msg)
      /\ \A j \in 1..Len(a) : /\ a[j].ev = Message(r) /\ c.text
                              /\ What(a[j]) = IF r \notin typing /\ j = 1 THEN "typing" ELSE "/-"
      /\ c.text => Len(a) = IF r \in typing THEN 1 ELSE 2
  <2>1. CASE c.text
    BY <2>1, TextMsgsIs
  <2>2. CASE ~c.text
    <3>1. a = <<>>
      BY <2>2
    <3> QED
      BY <2>2, <3>1
  <2> QED
    BY <2>1, <2>2
<1> HIDE DEF a
<1>4. Len(a) \in Nat /\ Len(n) \in Nat
  BY <1>2, <1>3, LenProperties
<1>5. /\ F \in Seq(Msg) /\ Len(F) = Len(a) + Len(n)
      /\ \A j \in 1..(Len(a) + Len(n)) : F[j] = IF j <= Len(a) THEN a[j] ELSE n[j - Len(a)]
  BY <1>1, <1>2, <1>3, ConcatProperties
<1> HIDE DEF F
<1>6. ASSUME NEW j \in 1..Len(F)
      PROVE  /\ F[j].ev = Message(r)
             /\ What(F[j]) \in {"typing", "/-", "call", "args", "args/-"}
             /\ What(F[j]) = "typing" => j = 1 /\ r \notin typing /\ c.text
             /\ What(F[j]) = "/-" => c.text /\ (r \in typing \/ j > 1)
  <2>1. CASE j <= Len(a)
    <3>1. j \in 1..Len(a) /\ F[j] = a[j]
      BY <1>4, <1>5, <2>1
    <3> QED
      BY <1>3, <3>1
  <2>2. CASE j > Len(a)
    <3>1. j - Len(a) \in 1..Len(n) /\ F[j] = n[j - Len(a)]
      BY <1>4, <1>5, <2>2
    <3> QED
      BY <1>2, <3>1
  <2> QED
    BY <1>4, <2>1, <2>2
<1>7. c.text /\ r \notin typing => 1 \in 1..Len(F) /\ What(F[1]) = "typing"
  <2> SUFFICES ASSUME c.text, r \notin typing
               PROVE  1 \in 1..Len(F) /\ What(F[1]) = "typing"
    OBVIOUS
  <2>1. Len(a) = 2 /\ 1 \in 1..Len(a) /\ What(a[1]) = "typing"
    BY <1>3
  <2>2. 1 \in 1..Len(F) /\ F[1] = a[1]
    BY <1>4, <1>5, <2>1
  <2> QED
    BY <2>1, <2>2
<1> QED
  BY <1>5, <1>6, <1>7 DEF F
-----------------------------------------------------------------------------
(* Putting on the queue, and taking off it.                                 *)
Put(q, new, F) ==
  /\ F \in Seq(Msg) /\ Len(F) = Len(q) + Len(new) /\ Len(q) \in Nat /\ Len(new) \in Nat
  /\ \A j \in 1..Len(q) : j \in 1..Len(F) /\ F[j] = q[j]
  /\ \A j \in 1..Len(new) : Len(q) + j \in 1..Len(F) /\ F[Len(q) + j] = new[j]
  /\ \A j \in 1..Len(F) : j > Len(q) => j - Len(q) \in 1..Len(new) /\ F[j] = new[j - Len(q)]

\* Appending leaves what is queued and puts the new behind it.
LEMMA Puts ==
  ASSUME NEW q \in Seq(Msg), NEW new \in Seq(Msg)
  PROVE  Put(q, new, q \o new)
<1>1. Len(q) \in Nat /\ Len(new) \in Nat
  BY LenProperties
<1>2. /\ q \o new \in Seq(Msg) /\ Len(q \o new) = Len(q) + Len(new)
      /\ \A j \in 1..(Len(q) + Len(new)) :
           (q \o new)[j] = IF j <= Len(q) THEN q[j] ELSE new[j - Len(q)]
  BY ConcatProperties
<1> QED
  BY <1>1, <1>2 DEF Put

\* What is queued was queued or is new.
LEMMA QueuedPut ==
  ASSUME NEW q, NEW new, NEW F, Put(q, new, F), NEW ev, NEW what
  PROVE  /\ \A j \in 1..Len(q) : Queued(F, j, ev, what) <=> Queued(q, j, ev, what)
         /\ \A j \in 1..Len(new) : Queued(F, Len(q) + j, ev, what) <=> Queued(new, j, ev, what)
         /\ \A j \in 1..Len(F) : Queued(F, j, ev, what) => \/ j \in 1..Len(q) /\ Queued(q, j, ev, what)
                                                         \/ /\ j > Len(q) /\ j - Len(q) \in 1..Len(new)
                                                            /\ Queued(new, j - Len(q), ev, what)
<1>1. \A j \in 1..Len(q) : Queued(F, j, ev, what) <=> Queued(q, j, ev, what)
  BY DEF Put, Queued
<1>2. \A j \in 1..Len(new) : Queued(F, Len(q) + j, ev, what) <=> Queued(new, j, ev, what)
  BY DEF Put, Queued
<1>3. ASSUME NEW j \in 1..Len(F), Queued(F, j, ev, what)
      PROVE  \/ j \in 1..Len(q) /\ Queued(q, j, ev, what)
             \/ j > Len(q) /\ j - Len(q) \in 1..Len(new) /\ Queued(new, j - Len(q), ev, what)
  <2>1. CASE j <= Len(q)
    <3>1. j \in 1..Len(q)
      BY <2>1 DEF Put
    <3> QED
      BY <1>1, <1>3, <3>1
  <2>2. CASE j > Len(q)
    <3>1. j - Len(q) \in 1..Len(new) /\ F[j] = new[j - Len(q)]
      BY <2>2 DEF Put
    <3> QED
      BY <1>3, <2>2, <3>1 DEF Queued
  <2> QED
    BY <2>1, <2>2 DEF Put
<1> QED
  BY <1>1, <1>2, <1>3

\* Messages put last keep every document on its way out of the store.
LEMMA PutEmptied ==
  ASSUME NEW q \in Seq(Msg), NEW new \in Seq(Msg), NEW ph, NEW st, NEW d, Emptied(ph, st, d, q),
         NEW ph2, NEW st2, ph2 = "done" => \A r \in Runs : st2[r] # "open",
         \A ev \in Events : Live(st, ev) =>
           Live(st2, ev) \/ \E h \in 1..Len(new) : Queued(new, h, ev, "ready"),
         \A j \in 1..Len(new) : "ops" \in DOMAIN new[j] =>
           Live(st2, new[j].ev) \/ \E h \in (j + 1)..Len(new) : Queued(new, h, new[j].ev, "ready")
  PROVE  Emptied(ph2, st2, d, q \o new)
<1> DEFINE F == q \o new
<1>1. Put(q, new, F)
  BY Puts
<1>2. /\ Len(q) \in Nat /\ Len(new) \in Nat /\ Len(F) = Len(q) + Len(new)
      /\ \A j \in 1..Len(q) : F[j] = q[j]
      /\ \A j \in 1..Len(F) : j > Len(q) => j - Len(q) \in 1..Len(new) /\ F[j] = new[j - Len(q)]
  BY <1>1 DEF Put
<1> HIDE DEF F
<1>3. ASSUME NEW ev \in Events, NEW h \in 1..Len(new), Queued(new, h, ev, "ready")
      PROVE  Queued(F, Len(q) + h, ev, "ready")
  BY <1>1, <1>3, QueuedPut
<1>4. ASSUME NEW ev \in Events, NEW h \in 1..Len(q), Queued(q, h, ev, "ready")
      PROVE  Queued(F, h, ev, "ready")
  BY <1>1, <1>4, QueuedPut
<1>5. ASSUME NEW ev \in Events, NEW j \in Nat, j <= Len(q),
             Live(st, ev) \/ \E h \in (j + 1)..Len(q) : Queued(q, h, ev, "ready")
      PROVE  Live(st2, ev) \/ \E h \in (j + 1)..Len(F) : Queued(F, h, ev, "ready")
  <2>1. CASE \E h \in 1..Len(new) : Queued(new, h, ev, "ready")
    <3>1. PICK h \in 1..Len(new) : Queued(new, h, ev, "ready")
      BY <2>1
    <3>2. Len(q) + h \in (j + 1)..Len(F) /\ Queued(F, Len(q) + h, ev, "ready")
      BY <1>2, <1>3, <1>5, <3>1
    <3> QED
      BY <3>2
  <2>2. CASE \E h \in (j + 1)..Len(q) : Queued(q, h, ev, "ready")
    <3>1. PICK h \in (j + 1)..Len(q) : Queued(q, h, ev, "ready")
      BY <2>2
    <3>2. h \in 1..Len(q) /\ h \in (j + 1)..Len(F)
      BY <1>2, <1>5
    <3>3. Queued(F, h, ev, "ready")
      BY <1>4, <3>1, <3>2
    <3> QED
      BY <3>2, <3>3
  <2> QED
    BY <1>5, <2>1, <2>2
<1>6. ASSUME NEW ev \in Events, d[ev] # Absent
      PROVE  Live(st2, ev) \/ \E h \in 1..Len(F) : Queued(F, h, ev, "ready")
  <2>1. Live(st, ev) \/ \E h \in 1..Len(q) : Queued(q, h, ev, "ready")
    BY <1>6 DEF Emptied
  <2>2. 0 \in Nat /\ 0 + 1 = 1 /\ 0 <= Len(q)
    BY <1>2
  <2> QED
    BY <1>5, <2>1, <2>2
<1>7. ASSUME NEW j \in 1..Len(F), "ops" \in DOMAIN F[j]
      PROVE  Live(st2, F[j].ev) \/ \E h \in (j + 1)..Len(F) : Queued(F, h, F[j].ev, "ready")
  <2>1. CASE j <= Len(q)
    <3>1. j \in 1..Len(q) /\ F[j] = q[j] /\ j \in Nat
      BY <1>2, <2>1
    <3>2. q[j].ev \in Events
      BY <3>1, MsgIs
    <3>3. Live(st, q[j].ev) \/ \E h \in (j + 1)..Len(q) : Queued(q, h, q[j].ev, "ready")
      BY <1>7, <3>1 DEF Emptied
    <3> QED
      BY <1>5, <2>1, <3>1, <3>2, <3>3
  <2>2. CASE j > Len(q)
    <3> DEFINE i == j - Len(q)
    <3>1. i \in 1..Len(new) /\ F[j] = new[i] /\ j = Len(q) + i
      BY <1>2, <2>2
    <3> HIDE DEF i
    <3>2. Live(st2, new[i].ev) \/ \E h \in (i + 1)..Len(new) : Queued(new, h, new[i].ev, "ready")
      BY <1>7, <3>1
    <3>3. CASE \E h \in (i + 1)..Len(new) : Queued(new, h, new[i].ev, "ready")
      <4>1. PICK h \in (i + 1)..Len(new) : Queued(new, h, new[i].ev, "ready")
        BY <3>3
      <4>2. h \in 1..Len(new) /\ Len(q) + h \in (j + 1)..Len(F)
        BY <1>2, <3>1
      <4>3. new[i].ev \in Events
        BY <3>1, MsgIs
      <4>4. Queued(F, Len(q) + h, new[i].ev, "ready")
        BY <1>3, <4>1, <4>2, <4>3
      <4> QED
        BY <3>1, <4>2, <4>4
    <3> QED
      BY <3>1, <3>2, <3>3
  <2> QED
    BY <1>2, <2>1, <2>2
<1>8. Emptied(ph2, st2, d, F)
  BY <1>6, <1>7 DEF Emptied
<1> QED
  BY <1>8 DEF F

\* Messages put last keep processing first.
LEMMA PutStart ==
  ASSUME NEW q \in Seq(Msg), NEW new \in Seq(Msg), NEW ev, NEW seen,
         NEW unborn, NEW unborn2, NEW typed, NEW typed2,
         StartFirst(ev, unborn, typed, q, seen), unborn2 => unborn /\ (typed2 => typed),
         \A j \in 1..Len(new) : new[j].ev = ev =>
           ~unborn2 /\ (What(new[j]) = "processing" => unborn /\ j = 1)
  PROVE  StartFirst(ev, unborn2, typed2, q \o new, seen)
<1> DEFINE F == q \o new
<1>1. Put(q, new, F)
  BY Puts
<1> HIDE DEF F
<1>2. ASSUME unborn2
      PROVE  seen = <<>> /\ ~typed2 /\ \A j \in 1..Len(F) : F[j].ev # ev
  <2>1. seen = <<>> /\ ~typed /\ \A j \in 1..Len(q) : q[j].ev # ev
    BY <1>2 DEF StartFirst
  <2>2. \A j \in 1..Len(new) : new[j].ev # ev
    BY <1>2
  <2>3. ASSUME NEW j \in 1..Len(F)
        PROVE  F[j].ev # ev
    <3>1. CASE j \in 1..Len(q)
      BY <1>1, <2>1, <3>1 DEF Put
    <3>2. CASE j > Len(q)
      <4>1. j - Len(q) \in 1..Len(new) /\ F[j] = new[j - Len(q)]
        BY <1>1, <3>2 DEF Put
      <4> QED
        BY <2>2, <4>1
    <3> QED
      BY <1>1, <3>1, <3>2 DEF Put
  <2> QED
    BY <1>2, <2>1, <2>3
<1>3. ASSUME NEW j \in 1..Len(F), Queued(F, j, ev, "processing")
      PROVE  seen = <<>> /\ \A i \in 1..(j - 1) : F[i].ev # ev
  <2>1. CASE j \in 1..Len(q) /\ Queued(q, j, ev, "processing")
    <3>1. seen = <<>> /\ \A i \in 1..(j - 1) : q[i].ev # ev
      BY <2>1 DEF StartFirst
    <3>2. \A i \in 1..(j - 1) : F[i] = q[i]
      BY <1>1, <2>1 DEF Put
    <3> QED
      BY <3>1, <3>2
  <2>2. CASE j > Len(q) /\ j - Len(q) \in 1..Len(new) /\ Queued(new, j - Len(q), ev, "processing")
    <3>1. unborn /\ j - Len(q) = 1
      BY <2>2 DEF Queued
    <3>2. seen = <<>> /\ \A i \in 1..Len(q) : q[i].ev # ev
      BY <3>1 DEF StartFirst
    <3>3. \A i \in 1..(j - 1) : i \in 1..Len(q) /\ F[i] = q[i]
      BY <1>1, <3>1 DEF Put
    <3> QED
      BY <3>2, <3>3
  <2> QED
    BY <1>1, <1>3, <2>1, <2>2, QueuedPut
<1>4. StartFirst(ev, unborn2, typed2, F, seen)
  BY <1>2, <1>3 DEF StartFirst
<1> QED
  BY <1>4 DEF F

\* Messages put last keep typing once and before the text.
LEMMA PutTyping ==
  ASSUME NEW q \in Seq(Msg), NEW new \in Seq(Msg), NEW ev, NEW seen,
         NEW typed \in BOOLEAN, NEW typed2 \in BOOLEAN, TypingFirst(ev, typed, q, seen), typed => typed2,
         typed2 /\ ~typed => 1 \in 1..Len(new) /\ Queued(new, 1, ev, "typing"),
         \A j \in 1..Len(new) : /\ Queued(new, j, ev, "typing") => j = 1 /\ ~typed /\ typed2
                                /\ Queued(new, j, ev, "/-") => typed \/ (j > 1 /\ typed2)
  PROVE  TypingFirst(ev, typed2, q \o new, seen)
<1> DEFINE F == q \o new
<1>1. Put(q, new, F)
  BY Puts
<1> HIDE DEF F
<1>2. Len(q) \in Nat /\ Len(new) \in Nat /\ Len(F) = Len(q) + Len(new)
  BY <1>1 DEF Put
<1>3. typed <=> \/ \E k \in 1..Len(seen) : Seen(seen, k, "typing")
                \/ \E j \in 1..Len(q) : Queued(q, j, ev, "typing")
  BY DEF TypingFirst
<1>4. \A j \in 1..Len(q) : Queued(q, j, ev, "typing") => j \in 1..Len(F) /\ Queued(F, j, ev, "typing")
  BY <1>1, <1>2, QueuedPut
<1>5. \A j \in 1..Len(new) : Queued(new, j, ev, "typing") =>
        Len(q) + j \in 1..Len(F) /\ Queued(F, Len(q) + j, ev, "typing")
  BY <1>1, <1>2, QueuedPut
<1>6. ASSUME NEW j \in 1..Len(F), Queued(F, j, ev, "typing")
      PROVE  \/ j \in 1..Len(q) /\ Queued(q, j, ev, "typing")
             \/ j = Len(q) + 1 /\ ~typed /\ typed2
  <2>1. CASE j - Len(q) \in 1..Len(new) /\ Queued(new, j - Len(q), ev, "typing")
    <3>1. j - Len(q) = 1 /\ ~typed /\ typed2
      BY <2>1
    <3> QED
      BY <1>2, <3>1
  <2> QED
    BY <1>1, <1>6, <2>1, QueuedPut
<1>7. typed2 <=> \/ \E k \in 1..Len(seen) : Seen(seen, k, "typing")
                 \/ \E j \in 1..Len(F) : Queued(F, j, ev, "typing")
  <2>1. CASE typed
    BY <1>3, <1>4, <2>1
  <2>2. CASE ~typed
    <3>1. \A k \in 1..Len(seen) : ~Seen(seen, k, "typing")
      BY <1>3, <2>2
    <3>2. typed2 => \E j \in 1..Len(F) : Queued(F, j, ev, "typing")
      BY <1>5, <2>2
    <3>3. \A j \in 1..Len(F) : Queued(F, j, ev, "typing") => typed2
      BY <1>3, <1>6, <2>2
    <3> QED
      BY <3>1, <3>2, <3>3
  <2> QED
    BY <2>1, <2>2
<1>8. ASSUME NEW j \in 1..Len(F), Queued(F, j, ev, "typing")
      PROVE  /\ \A k \in 1..Len(seen) : ~Seen(seen, k, "typing")
             /\ \A i \in 1..Len(F) : Queued(F, i, ev, "typing") => i = j
  <2>1. CASE j \in 1..Len(q) /\ Queued(q, j, ev, "typing")
    <3>1. typed
      BY <1>3, <2>1
    <3>2. /\ \A k \in 1..Len(seen) : ~Seen(seen, k, "typing")
          /\ \A i \in 1..Len(q) : Queued(q, i, ev, "typing") => i = j
      BY <2>1 DEF TypingFirst
    <3> QED
      BY <1>6, <3>1, <3>2
  <2>2. CASE j = Len(q) + 1 /\ ~typed /\ typed2
    <3>1. /\ \A k \in 1..Len(seen) : ~Seen(seen, k, "typing")
          /\ \A i \in 1..Len(q) : ~Queued(q, i, ev, "typing")
      BY <1>3, <2>2
    <3> QED
      BY <1>6, <2>2, <3>1
  <2> QED
    BY <1>6, <1>8, <2>1, <2>2
<1>9. ASSUME NEW j \in 1..Len(F), Queued(F, j, ev, "/-")
      PROVE  \/ \E k \in 1..Len(seen) : Seen(seen, k, "typing")
             \/ \E i \in 1..(j - 1) : Queued(F, i, ev, "typing")
  <2>1. CASE j \in 1..Len(q) /\ Queued(q, j, ev, "/-")
    <3>1. \/ \E k \in 1..Len(seen) : Seen(seen, k, "typing")
          \/ \E i \in 1..(j - 1) : Queued(q, i, ev, "typing")
      BY <2>1 DEF TypingFirst
    <3>2. \A i \in 1..(j - 1) : i \in 1..Len(q)
      BY <1>2, <2>1
    <3> QED
      BY <1>4, <3>1, <3>2
  <2>2. CASE j > Len(q) /\ j - Len(q) \in 1..Len(new) /\ Queued(new, j - Len(q), ev, "/-")
    <3>1. CASE typed
      <4>1. \A i \in 1..Len(q) : i \in 1..(j - 1)
        BY <1>2, <2>2
      <4> QED
        BY <1>3, <1>4, <3>1, <4>1
    <3>2. CASE ~typed
      <4>1. j - Len(q) > 1 /\ typed2
        BY <2>2, <3>2
      <4>2. 1 \in 1..Len(new) /\ Queued(new, 1, ev, "typing")
        BY <3>2, <4>1
      <4>3. Queued(F, Len(q) + 1, ev, "typing") /\ Len(q) + 1 \in 1..(j - 1)
        BY <1>2, <1>5, <4>1, <4>2
      <4> QED
        BY <4>3
    <3> QED
      BY <3>1, <3>2
  <2> QED
    BY <1>1, <1>9, <2>1, <2>2, QueuedPut
<1>10. TypingFirst(ev, typed2, F, seen)
  <2>1. /\ \A j, k \in 1..Len(seen) : Seen(seen, j, "typing") /\ Seen(seen, k, "typing") => j = k
        /\ \A k \in 1..Len(seen) : Seen(seen, k, "/-") => \E t \in 1..(k - 1) : Seen(seen, t, "typing")
    BY DEF TypingFirst
  <2> QED
    BY <1>7, <1>8, <1>9, <2>1 DEF TypingFirst
<1> QED
  BY <1>10 DEF F
Taken(q, F) ==
  /\ F \in Seq(Msg) /\ q # <<>> /\ 1 \in 1..Len(q) /\ Head(q) = q[1] /\ q[1] \in Msg
  /\ Len(q) \in Nat /\ Len(F) \in Nat /\ Len(q) = Len(F) + 1
  /\ \A j \in 1..Len(F) : j + 1 \in 1..Len(q) /\ F[j] = q[j + 1]

\* Taking the head leaves what was behind it.
LEMMA Takes ==
  ASSUME NEW q \in Seq(Msg), q # <<>>
  PROVE  Taken(q, Tail(q))
<1>1. /\ Tail(q) \in Seq(Msg) /\ Len(Tail(q)) = Len(q) - 1 /\ Head(q) = q[1]
      /\ \A j \in 1..(Len(q) - 1) : Tail(q)[j] = q[j + 1]
  BY HeadTailProperties
<1>2. Len(q) \in Nat /\ Len(q) # 0
  BY EmptySeq, LenProperties
<1> QED
  BY <1>1, <1>2 DEF Taken

\* What is queued is what was queued behind the head.
LEMMA QueuedTake ==
  ASSUME NEW q, NEW F, Taken(q, F), NEW ev, NEW what
  PROVE  /\ \A j \in 1..Len(F) : Queued(F, j, ev, what) <=> Queued(q, j + 1, ev, what)
         /\ \A j \in 1..Len(q) : Queued(q, j, ev, what) =>
              \/ j = 1 /\ q[1].ev = ev /\ What(q[1]) = what
              \/ j - 1 \in 1..Len(F) /\ Queued(F, j - 1, ev, what)
<1>1. \A j \in 1..Len(F) : Queued(F, j, ev, what) <=> Queued(q, j + 1, ev, what)
  BY DEF Taken, Queued
<1>2. ASSUME NEW j \in 1..Len(q), Queued(q, j, ev, what)
      PROVE  \/ j = 1 /\ q[1].ev = ev /\ What(q[1]) = what
             \/ j - 1 \in 1..Len(F) /\ Queued(F, j - 1, ev, what)
  <2>1. CASE j = 1
    BY <1>2, <2>1 DEF Queued
  <2>2. CASE j # 1
    <3>1. j - 1 \in 1..Len(F) /\ j - 1 + 1 = j
      BY <2>2 DEF Taken
    <3>2. F[j - 1] = q[j]
      <4>1. F[j - 1] = q[j - 1 + 1]
        BY <3>1 DEF Taken
      <4> QED
        BY <3>1, <4>1
    <3> QED
      BY <1>2, <3>1, <3>2 DEF Queued
  <2> QED
    BY <2>1, <2>2
<1> QED
  BY <1>1, <1>2

\* Handling the head keeps every document on its way out of the store.
LEMMA TakeEmptied ==
  ASSUME NEW q \in Seq(Msg), q # <<>>, NEW ph, NEW st, NEW d, NEW d2, Emptied(ph, st, d, q),
         \A ev \in Events : d2[ev] # Absent =>
           \/ q[1].ev # ev /\ d[ev] # Absent
           \/ q[1].ev = ev /\ What(q[1]) # "ready" /\ (d[ev] # Absent \/ "ops" \in DOMAIN q[1])
  PROVE  Emptied(ph, st, d2, Tail(q))
<1> DEFINE F == Tail(q)
<1>1. Taken(q, F)
  BY Takes
<1> HIDE DEF F
<1>2. ASSUME NEW ev \in Events, d2[ev] # Absent
      PROVE  Live(st, ev) \/ \E h \in 1..Len(F) : Queued(F, h, ev, "ready")
  <2>1. Live(st, ev) \/ \E h \in 1..Len(q) : Queued(q, h, ev, "ready")
    <3>1. CASE d[ev] # Absent
      BY <3>1 DEF Emptied
    <3>2. CASE q[1].ev = ev /\ "ops" \in DOMAIN q[1]
      <4>1. Live(st, ev) \/ \E h \in (1 + 1)..Len(q) : Queued(q, h, ev, "ready")
        BY <1>1, <3>2 DEF Emptied, Taken
      <4>2. \A h \in (1 + 1)..Len(q) : h \in 1..Len(q)
        BY <1>1 DEF Taken
      <4> QED
        BY <4>1, <4>2
    <3> QED
      BY <1>2, <3>1, <3>2
  <2>2. CASE \E h \in 1..Len(q) : Queued(q, h, ev, "ready")
    <3>1. PICK h \in 1..Len(q) : Queued(q, h, ev, "ready")
      BY <2>2
    <3>2. ~(q[1].ev = ev /\ What(q[1]) = "ready")
      BY <1>2
    <3>3. h - 1 \in 1..Len(F) /\ Queued(F, h - 1, ev, "ready")
      BY <1>1, <3>1, <3>2, QueuedTake
    <3> QED
      BY <3>3
  <2> QED
    BY <2>1, <2>2
<1>3. ASSUME NEW j \in 1..Len(F), "ops" \in DOMAIN F[j]
      PROVE  Live(st, F[j].ev) \/ \E h \in (j + 1)..Len(F) : Queued(F, h, F[j].ev, "ready")
  <2> DEFINE i == j + 1
             ev == F[j].ev
  <2>1. i \in 1..Len(q) /\ F[j] = q[i]
    BY <1>1 DEF Taken
  <2>2. Live(st, ev) \/ \E h \in (i + 1)..Len(q) : Queued(q, h, ev, "ready")
    <3> HIDE DEF i
    <3> QED
      BY <1>3, <2>1 DEF Emptied
  <2> HIDE DEF ev
  <2>3. CASE \E h \in (i + 1)..Len(q) : Queued(q, h, ev, "ready")
    <3>1. PICK h \in (i + 1)..Len(q) : Queued(q, h, ev, "ready")
      BY <2>3
    <3>2. h \in 1..Len(q) /\ h # 1 /\ h - 1 \in (j + 1)..Len(F)
      BY <1>1, <3>1 DEF Taken
    <3>3. Queued(F, h - 1, ev, "ready")
      BY <1>1, <3>1, <3>2, QueuedTake
    <3> QED
      BY <3>2, <3>3 DEF ev
  <2> QED
    BY <2>2, <2>3 DEF ev
<1>4. Emptied(ph, st, d2, F)
  BY <1>2, <1>3 DEF Emptied
<1> QED
  BY <1>4 DEF F

\* What becoming of the message m of an event ev shows.
Notes == [what : Whats] \cup [what : {"final"}, content : Contents]
Shows(m, ev, seen, seen2) ==
  \/ seen2 = seen /\ (m.ev = ev => What(m) \notin {"processing", "typing"})
  \/ /\ m.ev = ev
     /\ \E x \in Notes : seen2 = Append(seen, x) /\ x.what = IF What(m) = "ready" THEN "final" ELSE What(m)

\* What was seen before a notification, and what it adds.
LEMMA SeenAppend ==
  ASSUME NEW seen \in Seq(Notes), NEW x \in Notes, NEW what
  PROVE  /\ Append(seen, x) \in Seq(Notes) /\ Len(seen) \in Nat /\ Len(Append(seen, x)) = Len(seen) + 1
         /\ \A k \in 1..Len(seen) : /\ k \in 1..Len(Append(seen, x))
                                    /\ Seen(Append(seen, x), k, what) <=> Seen(seen, k, what)
         /\ Seen(Append(seen, x), Len(seen) + 1, what) <=> x.what = what
         /\ \A k \in 1..Len(Append(seen, x)) : k \in 1..Len(seen) \/ k = Len(seen) + 1
<1> DEFINE s == Append(seen, x)
<1>1. /\ s \in Seq(Notes) /\ Len(seen) \in Nat /\ Len(s) = Len(seen) + 1
      /\ \A k \in 1..Len(seen) : s[k] = seen[k]
      /\ s[Len(seen) + 1] = x
  BY AppendProperties, LenProperties
<1> HIDE DEF s
<1>2. \A k \in 1..Len(seen) : k \in 1..Len(s) /\ (Seen(s, k, what) <=> Seen(seen, k, what))
  BY <1>1 DEF Seen
<1>3. Seen(s, Len(seen) + 1, what) <=> x.what = what
  BY <1>1 DEF Seen
<1>4. \A k \in 1..Len(s) : k \in 1..Len(seen) \/ k = Len(seen) + 1
  BY <1>1
<1> QED
  BY <1>1, <1>2, <1>3, <1>4 DEF s

\* Handling the head keeps processing first.
LEMMA TakeStart ==
  ASSUME NEW q \in Seq(Msg), q # <<>>, NEW ev, NEW seen \in Seq(Notes), NEW seen2,
         NEW unborn, NEW typed, StartFirst(ev, unborn, typed, q, seen), Shows(q[1], ev, seen, seen2)
  PROVE  StartFirst(ev, unborn, typed, Tail(q), seen2)
<1> DEFINE F == Tail(q)
<1>1. Taken(q, F)
  BY Takes
<1> HIDE DEF F
<1>2. ASSUME unborn
      PROVE  seen2 = <<>> /\ ~typed /\ \A j \in 1..Len(F) : F[j].ev # ev
  <2>1. seen = <<>> /\ ~typed /\ \A j \in 1..Len(q) : q[j].ev # ev
    BY <1>2 DEF StartFirst
  <2>2. seen2 = seen
    BY <1>1, <2>1 DEF Shows, Taken
  <2>3. \A j \in 1..Len(F) : F[j].ev # ev
    BY <1>1, <2>1 DEF Taken
  <2> QED
    BY <2>1, <2>2, <2>3
<1>3. ASSUME NEW j \in 1..Len(F), Queued(F, j, ev, "processing")
      PROVE  seen2 = <<>> /\ \A i \in 1..(j - 1) : F[i].ev # ev
  <2>1. Queued(q, j + 1, ev, "processing") /\ j + 1 \in 1..Len(q)
    BY <1>1, <1>3, QueuedTake DEF Taken
  <2> DEFINE n == j + 1
  <2>2. seen = <<>> /\ \A i \in 1..j : q[i].ev # ev
    <3>1. n \in 1..Len(q) /\ Queued(q, n, ev, "processing")
      BY <2>1
    <3> HIDE DEF n
    <3>2. seen = <<>> /\ \A i \in 1..(n - 1) : q[i].ev # ev
      BY <3>1 DEF StartFirst
    <3>3. n - 1 = j
      BY DEF n
    <3> QED
      BY <3>2, <3>3
  <2>3. q[1].ev # ev
    BY <2>2
  <2>4. seen2 = seen
    BY <2>3 DEF Shows
  <2>5. \A i \in 1..(j - 1) : i + 1 \in 1..j /\ F[i] = q[i + 1]
    BY <1>1 DEF Taken
  <2> QED
    BY <2>2, <2>4, <2>5
<1>4. ASSUME NEW k \in 1..Len(seen2), Seen(seen2, k, "processing")
      PROVE  k = 1
  <2>1. CASE seen2 = seen
    BY <1>4, <2>1 DEF StartFirst
  <2>2. CASE q[1].ev = ev /\ \E x \in Notes : /\ seen2 = Append(seen, x)
                                              /\ x.what = IF What(q[1]) = "ready" THEN "final" ELSE What(q[1])
    <3>1. PICK x \in Notes : /\ seen2 = Append(seen, x)
                             /\ x.what = IF What(q[1]) = "ready" THEN "final" ELSE What(q[1])
      BY <2>2
    <3>2. CASE k \in 1..Len(seen)
      <4>1. Seen(seen, k, "processing")
        BY <1>4, <3>1, <3>2, SeenAppend
      <4> QED
        BY <3>2, <4>1 DEF StartFirst
    <3>3. CASE k = Len(seen) + 1
      <4>1. x.what = "processing"
        BY <1>4, <3>1, <3>3, SeenAppend
      <4>2. Queued(q, 1, ev, "processing") /\ 1 \in 1..Len(q)
        BY <1>1, <2>2, <3>1, <4>1 DEF Queued, Taken
      <4>3. seen = <<>>
        BY <4>2 DEF StartFirst
      <4> QED
        BY <3>3, <4>3
    <3> QED
      BY <1>4, <3>1, <3>2, <3>3, SeenAppend
  <2> QED
    BY <2>1, <2>2 DEF Shows
<1>5. StartFirst(ev, unborn, typed, F, seen2)
  BY <1>2, <1>3, <1>4 DEF StartFirst
<1> QED
  BY <1>5 DEF F

\* Of what is seen, all but the last was seen before the head was handled.
LEMMA ShowsIs ==
  ASSUME NEW q \in Seq(Msg), 1 \in 1..Len(q), NEW ev, NEW seen \in Seq(Notes), NEW seen2,
         Shows(q[1], ev, seen, seen2), NEW what \in {"typing", "/-"}
  PROVE  /\ Len(seen) \in Nat
         /\ \A k \in 1..Len(seen) : k \in 1..Len(seen2) /\ (Seen(seen2, k, what) <=> Seen(seen, k, what))
         /\ \A k \in 1..Len(seen2) : Seen(seen2, k, what) =>
              \/ k \in 1..Len(seen) /\ Seen(seen, k, what)
              \/ k = Len(seen) + 1 /\ Queued(q, 1, ev, what)
         /\ Queued(q, 1, ev, "typing") =>
              Len(seen) + 1 \in 1..Len(seen2) /\ Seen(seen2, Len(seen) + 1, "typing")
<1>1. Len(seen) \in Nat
  BY LenProperties
<1>2. CASE seen2 = seen /\ (q[1].ev = ev => What(q[1]) \notin {"processing", "typing"})
  BY <1>1, <1>2 DEF Queued
<1>3. CASE q[1].ev = ev /\ \E x \in Notes : /\ seen2 = Append(seen, x)
                                            /\ x.what = IF What(q[1]) = "ready" THEN "final" ELSE What(q[1])
  <2>1. PICK x \in Notes : /\ seen2 = Append(seen, x)
                           /\ x.what = IF What(q[1]) = "ready" THEN "final" ELSE What(q[1])
    BY <1>3
  <2>2. \A w : x.what = w /\ w # "final" => Queued(q, 1, ev, w)
    BY <1>3, <2>1 DEF Queued
  <2>3. Queued(q, 1, ev, "typing") => x.what = "typing"
    BY <2>1 DEF Queued
  <2>4. ASSUME NEW k \in 1..Len(seen2), Seen(seen2, k, what)
        PROVE  \/ k \in 1..Len(seen) /\ Seen(seen, k, what)
               \/ k = Len(seen) + 1 /\ Queued(q, 1, ev, what)
    <3>1. CASE k \in 1..Len(seen)
      BY <2>1, <2>4, <3>1, SeenAppend
    <3>2. CASE k = Len(seen) + 1
      <4>1. x.what = what
        BY <2>1, <2>4, <3>2, SeenAppend
      <4> QED
        BY <2>2, <3>2, <4>1
    <3> QED
      BY <2>1, <2>4, <3>1, <3>2, SeenAppend
  <2>5. \A k \in 1..Len(seen) : k \in 1..Len(seen2) /\ (Seen(seen2, k, what) <=> Seen(seen, k, what))
    BY <2>1, SeenAppend
  <2>6. Queued(q, 1, ev, "typing") =>
          Len(seen) + 1 \in 1..Len(seen2) /\ Seen(seen2, Len(seen) + 1, "typing")
    <3>1. Len(seen2) = Len(seen) + 1
      BY <2>1, SeenAppend
    <3>2. x.what = "typing" => Seen(seen2, Len(seen) + 1, "typing")
      BY <2>1, SeenAppend
    <3> QED
      BY <1>1, <2>3, <3>1, <3>2
  <2> QED
    BY <1>1, <2>4, <2>5, <2>6
<1> QED
  BY <1>2, <1>3 DEF Shows

\* Handling the head keeps typing once and before the text.
LEMMA TakeTyping ==
  ASSUME NEW q \in Seq(Msg), q # <<>>, NEW ev, NEW seen \in Seq(Notes), NEW seen2,
         NEW typed, TypingFirst(ev, typed, q, seen), Shows(q[1], ev, seen, seen2)
  PROVE  TypingFirst(ev, typed, Tail(q), seen2)
<1> DEFINE F == Tail(q)
<1>1. Taken(q, F)
  BY Takes
<1> HIDE DEF F
<1>2. /\ 1 \in 1..Len(q) /\ Len(q) \in Nat /\ Len(F) \in Nat /\ Len(q) = Len(F) + 1
      /\ \A j \in 1..Len(F) : j + 1 \in 1..Len(q)
  BY <1>1 DEF Taken
<1>3. /\ Len(seen) \in Nat
      /\ \A k \in 1..Len(seen) : k \in 1..Len(seen2) /\ (Seen(seen2, k, "typing") <=> Seen(seen, k, "typing"))
      /\ \A k \in 1..Len(seen2) : Seen(seen2, k, "typing") =>
           \/ k \in 1..Len(seen) /\ Seen(seen, k, "typing")
           \/ k = Len(seen) + 1 /\ Queued(q, 1, ev, "typing")
      /\ Queued(q, 1, ev, "typing") =>
           Len(seen) + 1 \in 1..Len(seen2) /\ Seen(seen2, Len(seen) + 1, "typing")
  BY <1>2, ShowsIs
<1>4. \A k \in 1..Len(seen2) : Seen(seen2, k, "/-") =>
        \/ k \in 1..Len(seen) /\ Seen(seen, k, "/-")
        \/ k = Len(seen) + 1 /\ Queued(q, 1, ev, "/-")
  BY <1>2, ShowsIs
<1>5. /\ typed <=> \/ \E k \in 1..Len(seen) : Seen(seen, k, "typing")
                   \/ \E j \in 1..Len(q) : Queued(q, j, ev, "typing")
      /\ \A j \in 1..Len(q) : Queued(q, j, ev, "typing") =>
           /\ \A k \in 1..Len(seen) : ~Seen(seen, k, "typing")
           /\ \A i \in 1..Len(q) : Queued(q, i, ev, "typing") => i = j
      /\ \A j, k \in 1..Len(seen) : Seen(seen, j, "typing") /\ Seen(seen, k, "typing") => j = k
      /\ \A j \in 1..Len(q) : Queued(q, j, ev, "/-") =>
           \/ \E k \in 1..Len(seen) : Seen(seen, k, "typing")
           \/ \E i \in 1..(j - 1) : Queued(q, i, ev, "typing")
      /\ \A k \in 1..Len(seen) : Seen(seen, k, "/-") => \E t \in 1..(k - 1) : Seen(seen, t, "typing")
  BY DEF TypingFirst
<1>6. \A j \in 1..Len(F) : Queued(F, j, ev, "typing") <=> Queued(q, j + 1, ev, "typing")
  BY <1>1, QueuedTake
<1>7. ASSUME NEW j \in 1..Len(q), Queued(q, j, ev, "typing")
      PROVE  j = 1 \/ (j - 1 \in 1..Len(F) /\ Queued(F, j - 1, ev, "typing"))
  BY <1>1, <1>7, QueuedTake
<1>8. typed <=> \/ \E k \in 1..Len(seen2) : Seen(seen2, k, "typing")
                \/ \E j \in 1..Len(F) : Queued(F, j, ev, "typing")
  <2>1. typed => \/ \E k \in 1..Len(seen2) : Seen(seen2, k, "typing")
                 \/ \E j \in 1..Len(F) : Queued(F, j, ev, "typing")
    <3>1. CASE \E k \in 1..Len(seen) : Seen(seen, k, "typing")
      BY <1>3, <3>1
    <3>2. CASE \E j \in 1..Len(q) : Queued(q, j, ev, "typing")
      <4>1. PICK j \in 1..Len(q) : Queued(q, j, ev, "typing")
        BY <3>2
      <4>2. CASE j = 1
        BY <1>3, <4>1, <4>2
      <4>3. CASE j - 1 \in 1..Len(F) /\ Queued(F, j - 1, ev, "typing")
        BY <4>3
      <4> QED
        BY <1>7, <4>1, <4>2, <4>3
    <3> QED
      BY <1>5, <3>1, <3>2
  <2>2. ASSUME NEW k \in 1..Len(seen2), Seen(seen2, k, "typing")
        PROVE  typed
    BY <1>2, <1>3, <1>5, <2>2
  <2>3. ASSUME NEW j \in 1..Len(F), Queued(F, j, ev, "typing")
        PROVE  typed
    BY <1>2, <1>5, <1>6, <2>3
  <2> QED
    BY <2>1, <2>2, <2>3 DEF TypingFirst
<1>9. ASSUME NEW j \in 1..Len(F), Queued(F, j, ev, "typing")
      PROVE  /\ \A k \in 1..Len(seen2) : ~Seen(seen2, k, "typing")
             /\ \A i \in 1..Len(F) : Queued(F, i, ev, "typing") => i = j
  <2>1. Queued(q, j + 1, ev, "typing") /\ j + 1 \in 1..Len(q) /\ j + 1 # 1
    BY <1>2, <1>6, <1>9
  <2>2. /\ \A k \in 1..Len(seen) : ~Seen(seen, k, "typing")
        /\ \A i \in 1..Len(q) : Queued(q, i, ev, "typing") => i = j + 1
    BY <1>5, <2>1
  <2>3. \A k \in 1..Len(seen2) : ~Seen(seen2, k, "typing")
    BY <1>2, <1>3, <2>1, <2>2
  <2>4. ASSUME NEW i \in 1..Len(F), Queued(F, i, ev, "typing")
        PROVE  i = j
    <3>1. Queued(q, i + 1, ev, "typing") /\ i + 1 \in 1..Len(q)
      BY <1>2, <1>6, <2>4
    <3>2. i + 1 = j + 1
      BY <2>2, <3>1
    <3> QED
      BY <3>2
  <2> QED
    BY <2>3, <2>4
<1>10. ASSUME NEW j \in 1..Len(seen2), NEW k \in 1..Len(seen2), Seen(seen2, j, "typing"), Seen(seen2, k, "typing")
       PROVE  j = k
  <2>1. CASE Queued(q, 1, ev, "typing")
    <3>1. \A i \in 1..Len(seen) : ~Seen(seen, i, "typing")
      BY <1>2, <1>5, <2>1
    <3> QED
      BY <1>3, <1>10, <3>1
  <2>2. CASE ~Queued(q, 1, ev, "typing")
    BY <1>3, <1>5, <1>10, <2>2
  <2> QED
    BY <2>1, <2>2
<1>11. ASSUME NEW j \in 1..Len(F), Queued(F, j, ev, "/-")
       PROVE  \/ \E k \in 1..Len(seen2) : Seen(seen2, k, "typing")
              \/ \E i \in 1..(j - 1) : Queued(F, i, ev, "typing")
  <2>1. Queued(q, j + 1, ev, "/-") /\ j + 1 \in 1..Len(q)
    BY <1>1, <1>2, <1>11, QueuedTake
  <2> DEFINE n == j + 1
  <2>2. \/ \E k \in 1..Len(seen) : Seen(seen, k, "typing")
        \/ \E i \in 1..(n - 1) : Queued(q, i, ev, "typing")
    <3>1. n \in 1..Len(q) /\ Queued(q, n, ev, "/-")
      BY <2>1
    <3> HIDE DEF n
    <3> QED
      BY <1>5, <3>1
  <2>3. CASE \E k \in 1..Len(seen) : Seen(seen, k, "typing")
    BY <1>3, <2>3
  <2>4. CASE \E i \in 1..(n - 1) : Queued(q, i, ev, "typing")
    <3>1. PICK i \in 1..(n - 1) : Queued(q, i, ev, "typing")
      BY <2>4
    <3>2. i \in 1..Len(q) /\ i \in 1..j
      BY <1>2, <2>1
    <3>3. CASE i = 1
      BY <1>3, <3>1, <3>3
    <3>4. CASE i - 1 \in 1..Len(F) /\ Queued(F, i - 1, ev, "typing")
      <4>1. i - 1 \in 1..(j - 1)
        BY <3>2, <3>4
      <4> QED
        BY <3>4, <4>1
    <3> QED
      BY <1>7, <3>1, <3>2, <3>3, <3>4
  <2> QED
    BY <2>2, <2>3, <2>4
<1>12. ASSUME NEW k \in 1..Len(seen2), Seen(seen2, k, "/-")
       PROVE  \E t \in 1..(k - 1) : Seen(seen2, t, "typing")
  <2>1. CASE k \in 1..Len(seen) /\ Seen(seen, k, "/-")
    <3>1. PICK t \in 1..(k - 1) : Seen(seen, t, "typing")
      BY <1>5, <2>1
    <3>2. t \in 1..Len(seen)
      BY <1>3, <2>1
    <3> QED
      BY <1>3, <3>1, <3>2
  <2>2. CASE k = Len(seen) + 1 /\ Queued(q, 1, ev, "/-")
    <3>1. \/ \E t \in 1..Len(seen) : Seen(seen, t, "typing")
          \/ \E i \in 1..(1 - 1) : Queued(q, i, ev, "typing")
      BY <1>2, <1>5, <2>2
    <3>2. PICK t \in 1..Len(seen) : Seen(seen, t, "typing")
      BY <3>1
    <3>3. t \in 1..(k - 1) /\ Seen(seen2, t, "typing")
      BY <1>3, <2>2, <3>2
    <3> QED
      BY <3>3
  <2> QED
    BY <1>4, <1>12, <2>1, <2>2
<1>13. TypingFirst(ev, typed, F, seen2)
  BY <1>8, <1>9, <1>10, <1>11, <1>12 DEF TypingFirst
<1> QED
  BY <1>13 DEF F
-----------------------------------------------------------------------------
(* What the worker does with the first message of the queue.                *)
LEMMA ApplyAllTyped ==
  ASSUME NEW doc \in Doc, NEW ops \in Seq(AnyOp)
  PROVE  ApplyAll(doc, ops) \in Outcome
<1>1. PICK u \in [0..Len(ops) -> Outcome] : Steps(u, doc, ops) /\ ApplyAll(doc, ops) = u[Len(ops)]
  BY ApplyAllSteps
<1> QED
  BY <1>1, LenProperties

\* A new document is a document.
LEMMA NewDocTyped == NewDoc \in Doc
BY DEF NewDoc, Doc

\* What a document is finalized as can be notified.
LEMMA FinalTyped ==
  ASSUME NEW doc \in Doc
  PROVE  [what |-> "final", content |-> Final(doc)] \in Notes
<1>1. /\ doc.text \in Seq(Nat) /\ doc.calls \in Seq(Entry) /\ doc.results \in Seq(1..MaxCalls)
      /\ DOMAIN doc.calls = 1..Len(doc.calls) /\ Len(doc.calls) \in Nat
  BY LenProperties DEF Doc
<1>2. \A i \in 1..Len(doc.calls) : doc.calls[i].args \in Seq(Nat)
  <2>1. \A i \in 1..Len(doc.calls) : doc.calls[i] \in Entry
    BY <1>1
  <2> QED
    BY <2>1 DEF Entry
<1>3. [i \in 1..Len(doc.calls) |-> doc.calls[i].args] \in Seq(Seq(Nat))
  BY <1>1, <1>2, IsASeq
<1>4. [i \in DOMAIN doc.calls |-> doc.calls[i].args] \in Seq(Seq(Nat))
  BY <1>1, <1>3
<1>5. CASE doc.root = "list"
  <2>1. Final(doc) = [text |-> doc.text]
    BY <1>5 DEF Final
  <2> QED
    BY <1>1, <2>1 DEF Contents, Notes
<1>6. CASE doc.root # "list" /\ doc.calls # <<>>
  <2>1. Final(doc) = [calls |-> [i \in DOMAIN doc.calls |-> doc.calls[i].args]]
    BY <1>6 DEF Final
  <2> QED
    BY <1>4, <2>1 DEF Contents, Notes
<1>7. CASE doc.root # "list" /\ doc.calls = <<>>
  <2>1. Final(doc) = [results |-> doc.results]
    BY <1>7 DEF Final
  <2> QED
    BY <1>1, <2>1 DEF Contents, Notes
<1> QED
  BY <1>5, <1>6, <1>7

\* What the worker's step does with the document and the subscribers of an event.
Handled(m) ==
  /\ docs' \in [Events -> Doc \cup {Absent}] /\ shown' \in [Events -> Seq(Notes)]
  /\ \A ev \in Events : docs'[ev] # Absent =>
       \/ m.ev # ev /\ docs[ev] # Absent
       \/ m.ev = ev /\ What(m) # "ready" /\ (docs[ev] # Absent \/ "ops" \in DOMAIN m)
  /\ \A ev \in Events : Shows(m, ev, shown[ev], shown'[ev])

\* A notification is seen last, and of its own event.
LEMMA ShownIs ==
  ASSUME shown \in [Events -> Seq(Notes)], NEW m \in Msg, NEW x \in Notes,
         x.what = IF What(m) = "ready" THEN "final" ELSE What(m)
  PROVE  /\ Shown(m.ev, x) \in [Events -> Seq(Notes)]
         /\ \A ev \in Events : Shows(m, ev, shown[ev], Shown(m.ev, x)[ev])
<1> DEFINE new == Shown(m.ev, x)
<1>1. m.ev \in Events
  BY MsgIs
<1>2. \A ev \in Events : new[ev] = IF ev = m.ev THEN Append(shown[ev], x) ELSE shown[ev]
  BY <1>1 DEF Shown
<1>3. Append(shown[m.ev], x) \in Seq(Notes)
  BY <1>1, AppendProperties
<1>4. new \in [Events -> Seq(Notes)]
  BY <1>1, <1>3 DEF Shown
<1> HIDE DEF new
<1>5. \A ev \in Events : Shows(m, ev, shown[ev], new[ev])
  BY <1>1, <1>2 DEF Shows
<1> QED
  BY <1>4, <1>5 DEF new

\* A chunk touches the document and the subscribers of its own event.
LEMMA ChunkHandled ==
  ASSUME docs \in [Events -> Doc \cup {Absent}], shown \in [Events -> Seq(Notes)],
         NEW m \in Msg, "ops" \in DOMAIN m, ProcessChunk(m)
  PROVE  Handled(m)
<1> DEFINE doc == IF docs[m.ev] = Absent THEN NewDoc ELSE docs[m.ev]
           res == ApplyAll(doc, m.ops)
           x == [what |-> m.ops[1].path]
           next == [res.doc EXCEPT !.begun = doc.begun \/ res.ok]
<1>1. /\ m.ev \in Events /\ m.ops \in Seq(AnyOp) /\ What(m) = m.ops[1].path
      /\ What(m) \notin Statuses /\ What(m) \in Whats
  BY MsgIs
<1>2. doc \in Doc
  BY <1>1, NewDocTyped
<1>3. res \in Outcome
  <2> HIDE DEF doc
  <2> QED
    BY <1>1, <1>2, ApplyAllTyped
<1>4. next \in Doc
  <2>1. res.doc \in Doc /\ res.ok \in BOOLEAN /\ doc.begun \in BOOLEAN
    <3> HIDE DEF res, doc
    <3> QED
      BY <1>2, <1>3 DEF Outcome, Doc
  <2> HIDE DEF res, doc
  <2> QED
    BY <2>1 DEF Doc
<1>5. \/ docs' = [docs EXCEPT ![m.ev] = doc] /\ shown' = shown
      \/ /\ docs' = [docs EXCEPT ![m.ev] = next]
         /\ shown' = Shown(m.ev, x) \/ shown' = shown
  BY DEF ProcessChunk
<1> HIDE DEF next, res, doc
<1>6. What(m) \notin {"processing", "typing", "ready"}
  BY <1>1 DEF Statuses
<1>7. x \in Notes /\ x.what = IF What(m) = "ready" THEN "final" ELSE What(m)
  BY <1>1, <1>6 DEF Notes
<1> HIDE DEF x
<1>8. \E e \in Doc : docs' = [docs EXCEPT ![m.ev] = e]
  BY <1>2, <1>4, <1>5
<1>9. shown' = shown \/ shown' = Shown(m.ev, x)
  BY <1>5
<1>10. /\ docs' \in [Events -> Doc \cup {Absent}]
       /\ \A ev \in Events : docs'[ev] # Absent =>
            \/ m.ev # ev /\ docs[ev] # Absent
            \/ m.ev = ev /\ What(m) # "ready" /\ (docs[ev] # Absent \/ "ops" \in DOMAIN m)
  BY <1>1, <1>6, <1>8
<1>11. shown' \in [Events -> Seq(Notes)] /\ \A ev \in Events : Shows(m, ev, shown[ev], shown'[ev])
  <2>1. CASE shown' = shown
    BY <1>6, <2>1 DEF Shows
  <2>2. CASE shown' = Shown(m.ev, x)
    BY <1>7, <2>2, ShownIs
  <2> QED
    BY <1>9, <2>1, <2>2
<1> QED
  BY <1>10, <1>11 DEF Handled

\* So does a status.
LEMMA StatusHandled ==
  ASSUME docs \in [Events -> Doc \cup {Absent}], shown \in [Events -> Seq(Notes)],
         NEW m \in Msg, "ops" \notin DOMAIN m, ProcessStatus(m)
  PROVE  Handled(m)
<1>1. m.ev \in Events /\ m.status \in Statuses /\ What(m) = m.status
  BY MsgIs
<1>2. CASE m.status = "ready"
  <2> DEFINE x == [what |-> "final", content |-> Final(docs[m.ev])]
  <2>1. docs' = [docs EXCEPT ![m.ev] = Absent]
    BY <1>2 DEF ProcessStatus
  <2>2. shown' = shown \/ (docs[m.ev] # Absent /\ shown' = Shown(m.ev, x))
    BY <1>2 DEF ProcessStatus, Builds
  <2>3. /\ docs' \in [Events -> Doc \cup {Absent}]
        /\ \A ev \in Events : docs'[ev] # Absent => m.ev # ev /\ docs[ev] # Absent
    BY <1>1, <2>1
  <2>4. shown' \in [Events -> Seq(Notes)] /\ \A ev \in Events : Shows(m, ev, shown[ev], shown'[ev])
    <3>1. CASE shown' = shown
      BY <1>1, <1>2, <3>1 DEF Shows
    <3>2. CASE docs[m.ev] # Absent /\ shown' = Shown(m.ev, x)
      <4>1. x \in Notes /\ x.what = "final"
        BY <1>1, <3>2, FinalTyped
      <4> HIDE DEF x
      <4>2. x.what = IF What(m) = "ready" THEN "final" ELSE What(m)
        BY <1>1, <1>2, <4>1
      <4> QED
        BY <3>2, <4>1, <4>2, ShownIs
    <3> QED
      BY <2>2, <3>1, <3>2
  <2> QED
    BY <2>3, <2>4 DEF Handled
<1>3. CASE m.status # "ready"
  <2> DEFINE x == [what |-> m.status]
  <2>1. docs' = docs /\ shown' = Shown(m.ev, x)
    BY <1>3 DEF ProcessStatus
  <2>2. x \in Notes /\ x.what = IF What(m) = "ready" THEN "final" ELSE What(m)
    BY <1>1, <1>3 DEF Notes, Whats, Statuses
  <2> HIDE DEF x
  <2>3. shown' \in [Events -> Seq(Notes)] /\ \A ev \in Events : Shows(m, ev, shown[ev], shown'[ev])
    BY <2>1, <2>2, ShownIs
  <2> QED
    BY <1>1, <1>3, <2>1, <2>3 DEF Handled
<1> QED
  BY <1>2, <1>3
-----------------------------------------------------------------------------
(* The initial state and the steps.                                         *)
LEMMA EventsAre ==
  /\ \A r \in Runs : Message(r) \in Events /\ Message(r)[1] = r /\ Message(r)[2] = 0
  /\ \A r \in Runs, i \in 1..MaxCalls :
       /\ Result(r, i) \in Events /\ Result(r, i)[2] # 0
       /\ \A h \in Runs : Message(h) # Result(r, i)
  /\ \A ev \in Events : ev[1] \in Runs /\ (ev[2] = 0 => ev = Message(ev[1]))
BY MaxCallsNat DEF Message, Result, Events

\* What a run says is one of its scripts, and each of their chunks can be said.
LEMMA ScriptSayable ==
  ASSUME TypeOK, NEW r \in Runs, NEW k \in 1..Len(script[r])
  PROVE  Sayable(script[r][k])
<1>1. script[r] \in (UNION {Scripts[h] : h \in Runs}) \cup {<<>>}
  BY DEF TypeOK
<1>2. script[r] # <<>>
  OBVIOUS
<1>3. PICK h \in Runs : script[r] \in Scripts[h]
  BY <1>1, <1>2
<1>4. /\ script[r] \in Seq(Chunk)
      /\ \A i \in DOMAIN script[r] : \A t \in ToSet(script[r][i].calls) :
           t.id \/ t.args # "none"
  BY <1>3, ScriptsAreStreams
<1>5. k \in DOMAIN script[r] /\ script[r][k] \in Chunk
  BY <1>4
<1> QED
  BY <1>4, <1>5 DEF Sayable

\* The invariant holds at first.
LEMMA IInvInit ==
  ASSUME Init
  PROVE  IInv
<1>1. queue = <<>> /\ Len(queue) = 0 /\ queue \in Seq(Msg)
  BY DEF Init
<1>2. \A r \in Runs : script[r] = <<>> /\ Len(script[r]) = 0
  BY DEF Init
<1>3. TypeOK
  <2>1. /\ phase \in {"running", "done", "failed", "cancelled"}
        /\ stage \in [Runs -> {"unborn", "open", "ended"}]
        /\ tools \subseteq Events /\ typing \subseteq Runs
        /\ docs \in [Events -> Doc \cup {Absent}]
    BY DEF Init
  <2>2. script \in [Runs -> (UNION {Scripts[r] : r \in Runs}) \cup {<<>>}]
    BY DEF Init
  <2>3. said \in [Runs -> Nat] /\ \A r \in Runs : said[r] \in 0..Len(script[r])
    BY <1>2 DEF Init
  <2>4. shown \in [Events -> Seq(Notes)]
    BY DEF Init
  <2>5. \A j \in DOMAIN queue : queue[j].ev \in Events
    BY <1>1
  <2> QED
    BY <2>1, <2>2, <2>3, <2>4, <2>5 DEF TypeOK, Notes
<1>4. Emptied(phase, stage, docs, queue)
  BY <1>1 DEF Init, Emptied
<1>5. ASSUME NEW r \in Runs
      PROVE  /\ shown[Message(r)] = <<>> /\ Len(shown[Message(r)]) = 0 /\ r \notin typing
  BY EventsAre DEF Init
<1>6. ASSUME NEW r \in Runs
      PROVE  /\ StartFirst(Message(r), stage[r] = "unborn", r \in typing, queue, shown[Message(r)])
             /\ TypingFirst(Message(r), r \in typing, queue, shown[Message(r)])
  BY <1>1, <1>5 DEF StartFirst, TypingFirst
<1>7. Unsaid
  BY DEF Init, Unsaid
<1> QED
  BY <1>1, <1>3, <1>4, <1>6, <1>7 DEF IInv

\* A step of the agent that puts the messages new on the queue, of the event ev.
LEMMA AgentStep ==
  ASSUME IInv, TypeOK', Unsaid', UNCHANGED <<docs, shown>>,
         NEW new \in Seq(Msg), queue' = queue \o new,
         phase' = "done" => \A r \in Runs : stage'[r] # "open",
         \A ev \in Events : Live(stage, ev) =>
           Live(stage', ev) \/ \E h \in 1..Len(new) : Queued(new, h, ev, "ready"),
         \A j \in 1..Len(new) : "ops" \in DOMAIN new[j] =>
           Live(stage', new[j].ev) \/ \E h \in (j + 1)..Len(new) : Queued(new, h, new[j].ev, "ready"),
         \A r \in Runs :
           /\ stage'[r] = "unborn" => stage[r] = "unborn" /\ (r \in typing' => r \in typing)
           /\ r \in typing => r \in typing'
           /\ r \in typing' /\ r \notin typing =>
                1 \in 1..Len(new) /\ Queued(new, 1, Message(r), "typing")
           /\ \A j \in 1..Len(new) : new[j].ev = Message(r) =>
                /\ stage'[r] # "unborn"
                /\ What(new[j]) = "processing" => stage[r] = "unborn" /\ j = 1
                /\ What(new[j]) = "typing" => j = 1 /\ r \notin typing /\ r \in typing'
                /\ What(new[j]) = "/-" => r \in typing \/ (j > 1 /\ r \in typing')
  PROVE  IInv'
<1>1. queue \in Seq(Msg) /\ Emptied(phase, stage, docs, queue)
  BY DEF IInv
<1>2. queue' \in Seq(Msg)
  BY <1>1, Puts DEF Put
<1>3. Emptied(phase', stage', docs', queue')
  BY <1>1, PutEmptied
<1>4. ASSUME NEW r \in Runs
      PROVE  /\ StartFirst(Message(r), stage'[r] = "unborn", r \in typing', queue', shown'[Message(r)])
             /\ TypingFirst(Message(r), r \in typing', queue', shown'[Message(r)])
  <2> DEFINE ev == Message(r)
             seen == shown[ev]
             unborn == stage[r] = "unborn"
             unborn2 == stage'[r] = "unborn"
             typed == r \in typing
             typed2 == r \in typing'
  <2>1. StartFirst(ev, unborn, typed, queue, seen) /\ TypingFirst(ev, typed, queue, seen)
    BY DEF IInv
  <2>2. unborn2 => unborn /\ (typed2 => typed)
    OBVIOUS
  <2>3. \A j \in 1..Len(new) : new[j].ev = ev =>
          ~unborn2 /\ (What(new[j]) = "processing" => unborn /\ j = 1)
    OBVIOUS
  <2>4. typed \in BOOLEAN /\ typed2 \in BOOLEAN /\ (typed => typed2)
    OBVIOUS
  <2>5. typed2 /\ ~typed => 1 \in 1..Len(new) /\ Queued(new, 1, ev, "typing")
    OBVIOUS
  <2>6. \A j \in 1..Len(new) : /\ Queued(new, j, ev, "typing") => j = 1 /\ ~typed /\ typed2
                               /\ Queued(new, j, ev, "/-") => typed \/ (j > 1 /\ typed2)
    BY DEF Queued
  <2> HIDE DEF unborn, unborn2, typed, typed2, ev, seen
  <2>7. StartFirst(ev, unborn2, typed2, queue \o new, seen)
    BY <1>1, <2>1, <2>2, <2>3, PutStart
  <2>8. TypingFirst(ev, typed2, queue \o new, seen)
    BY <1>1, <2>1, <2>4, <2>5, <2>6, PutTyping
  <2> QED
    BY <2>7, <2>8 DEF ev, seen, unborn2, typed2
<1> QED
  BY <1>2, <1>3, <1>4 DEF IInv

\* What is queued is about an event.
LEMMA QueueTyped ==
  ASSUME NEW q \in Seq(Msg)
  PROVE  \A j \in DOMAIN q : q[j].ev \in Events
BY MsgIs

\* The start of a run keeps the invariant.
LEMMA StartIInv ==
  ASSUME IInv, NEW r \in Runs, NEW s \in Scripts[r], Start(r, s)
  PROVE  IInv'
<1> DEFINE new == StatusMsg(Message(r), "processing")
<1>1. /\ phase = "running" /\ stage[r] = "unborn" /\ stage' = [stage EXCEPT ![r] = "open"]
      /\ script' = [script EXCEPT ![r] = s] /\ queue' = queue \o new
      /\ UNCHANGED <<phase, said, tools, typing, docs, shown>>
  BY DEF Start
<1>2. Message(r) \in Events /\ "processing" \in Statuses
  BY EventsAre DEF Statuses
<1>3. /\ new \in Seq(Msg) /\ Len(new) = 1 /\ new[1].ev = Message(r) /\ What(new[1]) = "processing"
      /\ "ops" \notin DOMAIN new[1]
  BY <1>2, StatusMsgIs
<1> HIDE DEF new
<1>4. queue \in Seq(Msg) /\ TypeOK
  BY DEF IInv
<1>5. queue' \in Seq(Msg)
  BY <1>1, <1>3, <1>4, Puts DEF Put
<1>6. TypeOK'
  <2>1. stage' \in [Runs -> {"unborn", "open", "ended"}]
    BY <1>1, <1>4 DEF TypeOK
  <2>2. script' \in [Runs -> (UNION {Scripts[h] : h \in Runs}) \cup {<<>>}]
    <3>1. s \in UNION {Scripts[h] : h \in Runs}
      OBVIOUS
    <3> QED
      BY <1>1, <1>4, <3>1 DEF TypeOK
  <2>3. \A h \in Runs : said'[h] \in 0..Len(script'[h])
    <3>1. said[r] = 0
      <4>1. script[r] = <<>> /\ Len(script[r]) = 0
        BY <1>1 DEF IInv, Unsaid
      <4> QED
        BY <1>4, <4>1 DEF TypeOK
    <3>2. Len(s) \in Nat
      BY ScriptsAreStreams, LenProperties
    <3> QED
      BY <1>1, <1>4, <3>1, <3>2 DEF TypeOK
  <2>4. \A j \in DOMAIN queue' : queue'[j].ev \in Events
    BY <1>5, QueueTyped
  <2> QED
    BY <1>1, <1>4, <2>1, <2>2, <2>3, <2>4 DEF TypeOK
<1>7. \A h \in Runs : Message(h) = Message(r) => h = r
  BY DEF Message
<1>8. \A h \in Runs : stage'[h] = IF h = r THEN "open" ELSE stage[h]
  BY <1>1, <1>4 DEF TypeOK
<1>9. \A ev \in Events : Live(stage, ev) => Live(stage', ev)
  BY <1>1, <1>8, EventsAre DEF Live
<1>10. \A j \in 1..Len(new) : j = 1 /\ "ops" \notin DOMAIN new[j]
  BY <1>3
<1>11. ASSUME NEW h \in Runs, NEW j \in 1..Len(new), new[j].ev = Message(h)
       PROVE  /\ stage'[h] # "unborn"
              /\ What(new[j]) = "processing" => stage[h] = "unborn" /\ j = 1
              /\ What(new[j]) # "typing" /\ What(new[j]) # "/-"
  <2>1. h = r /\ j = 1
    BY <1>3, <1>7, <1>10, <1>11
  <2> QED
    BY <1>1, <1>3, <1>8, <2>1
<1>12. phase' # "done"
  BY <1>1
<1>13. \A h \in Runs : stage'[h] = "unborn" => stage[h] = "unborn"
  BY <1>8
<1>14. Unsaid'
  BY <1>1, <1>4, <1>8 DEF IInv, Unsaid, TypeOK
<1> QED
  BY <1>1, <1>3, <1>6, <1>9, <1>10, <1>11, <1>12, <1>13, <1>14, AgentStep

\* A chunk of the model keeps the invariant.
LEMMA StreamIInv ==
  ASSUME IInv, NEW r \in Runs, Stream(r)
  PROVE  IInv'
<1> DEFINE k == said[r] + 1
           c == script[r][k]
           new == IF c.valid THEN Emitted(r, c, k) ELSE <<>>
<1>1. /\ phase = "running" /\ stage[r] = "open" /\ said[r] < Len(script[r])
      /\ queue' = (IF c.valid THEN queue \o Emitted(r, c, k) ELSE queue)
      /\ typing' = (IF c.valid /\ c.text THEN typing \cup {r} ELSE typing)
      /\ phase' \in {"running", "failed"}
      /\ said' = [said EXCEPT ![r] = k]
      /\ UNCHANGED <<stage, script, tools, docs, shown>>
  BY DEF Stream, Typed
<1>2. queue \in Seq(Msg) /\ TypeOK
  BY DEF IInv
<1>3. k \in 1..Len(script[r]) /\ k \in Nat
  <2>1. said[r] \in 0..Len(script[r])
    BY <1>2 DEF TypeOK
  <2>2. Len(script[r]) \in Nat
    BY <1>1, <2>1
  <2> QED
    BY <1>1, <2>1, <2>2
<1>4. Sayable(c)
  BY <1>2, <1>3, ScriptSayable
<1>5. c.text \in BOOLEAN /\ c.valid \in BOOLEAN
  BY <1>4 DEF Sayable, Chunk
<1> HIDE DEF c, k
<1>6. /\ Emitted(r, c, k) \in Seq(Msg)
      /\ \A j \in 1..Len(Emitted(r, c, k)) :
           LET m == Emitted(r, c, k)[j]
           IN /\ m.ev = Message(r)
              /\ What(m) \in {"typing", "/-", "call", "args", "args/-"}
              /\ What(m) = "typing" => j = 1 /\ r \notin typing /\ c.text
              /\ What(m) = "/-" => c.text /\ (r \in typing \/ j > 1)
      /\ c.text /\ r \notin typing => /\ 1 \in 1..Len(Emitted(r, c, k))
                                      /\ What(Emitted(r, c, k)[1]) = "typing"
  BY <1>3, <1>4, EmittedIs
<1>7. new \in Seq(Msg) /\ queue' = queue \o new
  <2>1. CASE c.valid
    BY <1>1, <1>6, <2>1
  <2>2. CASE ~c.valid
    BY <1>1, <1>2, <2>2, ConcatEmptySeq
  <2> QED
    BY <2>1, <2>2
<1>8. \A j \in 1..Len(new) :
        /\ c.valid /\ new[j].ev = Message(r)
        /\ What(new[j]) \in {"typing", "/-", "call", "args", "args/-"}
        /\ What(new[j]) = "typing" => j = 1 /\ r \notin typing /\ c.text
        /\ What(new[j]) = "/-" => c.text /\ (r \in typing \/ j > 1)
  <2>1. CASE c.valid
    BY <1>6, <2>1
  <2>2. CASE ~c.valid
    <3>1. new = <<>>
      BY <2>2
    <3> QED
      BY <3>1
  <2> QED
    BY <2>1, <2>2
<1>9. c.valid /\ c.text /\ r \notin typing => 1 \in 1..Len(new) /\ What(new[1]) = "typing"
  <2> SUFFICES ASSUME c.valid, c.text, r \notin typing
               PROVE  1 \in 1..Len(new) /\ What(new[1]) = "typing"
    OBVIOUS
  <2>1. new = Emitted(r, c, k)
    OBVIOUS
  <2> QED
    BY <1>6, <2>1
<1> HIDE DEF new
<1>10. queue' \in Seq(Msg)
  BY <1>2, <1>7, Puts DEF Put
<1>11. TypeOK'
  <2>1. said' \in [Runs -> Nat] /\ \A h \in Runs : said'[h] \in 0..Len(script'[h])
    <3>1. k \in 0..Len(script[r])
      BY <1>3
    <3>2. said \in [Runs -> Nat]
      BY <1>2 DEF TypeOK
    <3>3. said' \in [Runs -> Nat]
      BY <1>1, <1>3, <3>2
    <3>4. said'[r] = k /\ \A h \in Runs : h # r => said'[h] = said[h]
      BY <1>1, <3>2
    <3> QED
      BY <1>1, <1>2, <3>1, <3>3, <3>4 DEF TypeOK
  <2>2. typing' \subseteq Runs
    BY <1>1, <1>2 DEF TypeOK
  <2>3. \A j \in DOMAIN queue' : queue'[j].ev \in Events
    BY <1>10, QueueTyped
  <2> QED
    BY <1>1, <1>2, <2>1, <2>2, <2>3 DEF TypeOK
<1>12. Unsaid'
  BY <1>1 DEF IInv, Unsaid
<1>13. phase' # "done"
  BY <1>1
<1>14. \A ev \in Events : Live(stage, ev) => Live(stage', ev)
  BY <1>1
<1>15. Live(stage', Message(r))
  BY <1>1, EventsAre DEF Live
<1>16. \A j \in 1..Len(new) : Live(stage', new[j].ev)
  BY <1>8, <1>15
<1>17. \A h \in Runs : Message(h) = Message(r) => h = r
  BY DEF Message
<1>18. ASSUME NEW h \in Runs
       PROVE  /\ stage'[h] = "unborn" => stage[h] = "unborn" /\ (h \in typing' => h \in typing)
              /\ h \in typing => h \in typing'
              /\ h \in typing' /\ h \notin typing =>
                   1 \in 1..Len(new) /\ Queued(new, 1, Message(h), "typing")
  <2>1. CASE h = r
    <3>1. stage'[h] # "unborn" /\ (h \in typing => h \in typing')
      BY <1>1, <2>1
    <3>2. ASSUME h \in typing', h \notin typing
          PROVE  1 \in 1..Len(new) /\ Queued(new, 1, Message(h), "typing")
      <4>1. c.valid /\ c.text /\ r \notin typing
        BY <1>1, <2>1, <3>2
      <4>2. 1 \in 1..Len(new) /\ What(new[1]) = "typing"
        BY <1>9, <4>1
      <4> QED
        BY <1>8, <2>1, <4>2 DEF Queued
    <3> QED
      BY <3>1, <3>2
  <2>2. CASE h # r
    BY <1>1, <2>2
  <2> QED
    BY <2>1, <2>2
<1>19. ASSUME NEW h \in Runs, NEW j \in 1..Len(new), new[j].ev = Message(h)
       PROVE  /\ stage'[h] # "unborn"
              /\ What(new[j]) = "processing" => stage[h] = "unborn" /\ j = 1
              /\ What(new[j]) = "typing" => j = 1 /\ h \notin typing /\ h \in typing'
              /\ What(new[j]) = "/-" => h \in typing \/ (j > 1 /\ h \in typing')
  <2>1. h = r
    BY <1>8, <1>17, <1>19
  <2>2. stage'[h] # "unborn" /\ What(new[j]) # "processing"
    BY <1>1, <1>8, <2>1
  <2>3. What(new[j]) = "typing" => j = 1 /\ h \notin typing /\ h \in typing'
    BY <1>1, <1>8, <2>1
  <2>4. What(new[j]) = "/-" => h \in typing \/ (j > 1 /\ h \in typing')
    <3> SUFFICES ASSUME What(new[j]) = "/-", h \notin typing
                 PROVE  j > 1 /\ h \in typing'
      OBVIOUS
    <3>1. j > 1
      BY <1>8, <2>1
    <3>2. c.text
      BY <1>8, <2>1
    <3> QED
      BY <1>1, <1>8, <2>1, <3>1, <3>2
  <2> QED
    BY <2>2, <2>3, <2>4
<1> QED
  BY <1>7, <1>1, <1>11, <1>12, <1>13, <1>14, <1>16, <1>18, <1>19, AgentStep

\* The end of a run keeps the invariant.
LEMMA EndIInv ==
  ASSUME IInv, NEW r \in Runs, End(r)
  PROVE  IInv'
<1> DEFINE new == StatusMsg(Message(r), "ready")
<1>1. /\ phase = "running" /\ stage[r] = "open" /\ stage' = [stage EXCEPT ![r] = "ended"]
      /\ queue' = queue \o new
      /\ UNCHANGED <<phase, script, said, tools, typing, docs, shown>>
  BY DEF End
<1>2. Message(r) \in Events /\ "ready" \in Statuses
  BY EventsAre DEF Statuses
<1>3. /\ new \in Seq(Msg) /\ Len(new) = 1 /\ new[1].ev = Message(r) /\ What(new[1]) = "ready"
      /\ "ops" \notin DOMAIN new[1]
  BY <1>2, StatusMsgIs
<1> HIDE DEF new
<1>4. queue \in Seq(Msg) /\ TypeOK
  BY DEF IInv
<1>5. queue' \in Seq(Msg)
  BY <1>1, <1>3, <1>4, Puts DEF Put
<1>6. TypeOK'
  <2>1. stage' \in [Runs -> {"unborn", "open", "ended"}]
    BY <1>1, <1>4 DEF TypeOK
  <2>2. \A j \in DOMAIN queue' : queue'[j].ev \in Events
    BY <1>5, QueueTyped
  <2> QED
    BY <1>1, <1>4, <2>1, <2>2 DEF TypeOK
<1>7. \A h \in Runs : stage'[h] = IF h = r THEN "ended" ELSE stage[h]
  BY <1>1, <1>4 DEF TypeOK
<1>8. Queued(new, 1, Message(r), "ready") /\ 1 \in 1..Len(new)
  BY <1>3 DEF Queued
<1>9. ASSUME NEW ev \in Events, Live(stage, ev)
      PROVE  Live(stage', ev) \/ \E h \in 1..Len(new) : Queued(new, h, ev, "ready")
  <2>1. ev[1] \in Runs /\ ev = Message(ev[1]) /\ ev[2] = 0
    BY <1>9, EventsAre DEF Live
  <2>2. CASE ev[1] = r
    BY <1>8, <2>1, <2>2
  <2>3. CASE ev[1] # r
    BY <1>7, <1>9, <2>1, <2>3 DEF Live
  <2> QED
    BY <2>2, <2>3
<1>10. \A j \in 1..Len(new) : "ops" \notin DOMAIN new[j] /\ What(new[j]) = "ready" /\ new[j].ev = Message(r)
  BY <1>3
<1>11. \A h \in Runs : Message(h) = Message(r) => h = r
  BY DEF Message
<1>12. \A h \in Runs : stage'[h] = "unborn" => stage[h] = "unborn"
  BY <1>7
<1>13. \A h \in Runs, j \in 1..Len(new) : new[j].ev = Message(h) => stage'[h] # "unborn"
  BY <1>7, <1>10, <1>11
<1>14. Unsaid' /\ phase' # "done"
  BY <1>1, <1>12 DEF IInv, Unsaid
<1> QED
  BY <1>1, <1>3, <1>6, <1>9, <1>10, <1>12, <1>13, <1>14, AgentStep

\* The result of a tool keeps the invariant.
LEMMA ToolEndIInv ==
  ASSUME IInv, NEW r \in Runs, NEW i \in 1..MaxCalls, ToolEnd(r, i)
  PROVE  IInv'
<1> DEFINE ev == Result(r, i)
           a == ChunkMsg(ev, ResultOps(i))
           b == StatusMsg(ev, "ready")
           new == a \o b
<1>1. /\ phase = "running" /\ tools' = tools \cup {ev}
      /\ queue' = queue \o a \o b
      /\ UNCHANGED <<phase, stage, script, said, typing, docs, shown>>
  BY DEF ToolEnd
<1>2. ev \in Events /\ "ready" \in Statuses /\ \A h \in Runs : Message(h) # ev
  BY EventsAre DEF Statuses
<1>3. ResultOps(i) \in Patches /\ ResultOps(i)[1].path = "results"
  <2> DEFINE o == Op("results", i, 0)
             p == Op("results/-", i, 0)
  <2>1. o \in AnyOp /\ p \in AnyOp /\ o.path = "results" /\ ResultOps(i) = <<o, p>>
    BY DEF ResultOps, Op, AnyOp, ResultOp
  <2> HIDE DEF o, p
  <2> QED
    BY <2>1 DEF Patches
<1> HIDE DEF ev
<1>4. a \in Seq(Msg) /\ Len(a) = 1 /\ a[1].ev = ev /\ What(a[1]) = "results"
  BY <1>2, <1>3, ChunkMsgIs
<1>5. b \in Seq(Msg) /\ Len(b) = 1 /\ b[1].ev = ev /\ What(b[1]) = "ready" /\ "ops" \notin DOMAIN b[1]
  BY <1>2, StatusMsgIs
<1>6. queue \in Seq(Msg) /\ TypeOK
  BY DEF IInv
<1> HIDE DEF a, b
<1>7. new \in Seq(Msg) /\ Len(new) = 2 /\ new[1] = a[1] /\ new[2] = b[1]
  BY <1>4, <1>5, ConcatProperties
<1>8. queue' = queue \o new
  <2>1. queue' = (queue \o a) \o b
    BY <1>1 DEF a, b
  <2>2. (queue \o a) \o b = queue \o (a \o b)
    BY <1>4, <1>5, <1>6, ConcatAssociative
  <2> QED
    BY <2>1, <2>2
<1> HIDE DEF new
<1>9. queue' \in Seq(Msg)
  BY <1>6, <1>7, <1>8, Puts DEF Put
<1>10. TypeOK'
  <2>1. tools' \subseteq Events
    BY <1>1, <1>2, <1>6 DEF TypeOK
  <2>2. \A j \in DOMAIN queue' : queue'[j].ev \in Events
    BY <1>9, QueueTyped
  <2> QED
    BY <1>1, <1>6, <2>1, <2>2 DEF TypeOK
<1>11. \A j \in 1..Len(new) : j = 1 \/ j = 2
  BY <1>7
<1>12. \A j \in 1..Len(new) : \A h \in Runs : new[j].ev # Message(h)
  BY <1>2, <1>4, <1>5, <1>7, <1>11
<1>13. ASSUME NEW j \in 1..Len(new), "ops" \in DOMAIN new[j]
       PROVE  \E h \in (j + 1)..Len(new) : Queued(new, h, new[j].ev, "ready")
  <2>1. j = 1
    BY <1>5, <1>7, <1>11, <1>13
  <2>2. Queued(new, 2, new[j].ev, "ready") /\ 2 \in (j + 1)..Len(new)
    BY <1>4, <1>5, <1>7, <2>1 DEF Queued
  <2> QED
    BY <2>2
<1>14. Unsaid' /\ phase' # "done" /\ \A e \in Events : Live(stage, e) => Live(stage', e)
  BY <1>1 DEF IInv, Unsaid
<1> QED
  BY <1>1, <1>7, <1>8, <1>10, <1>12, <1>13, <1>14, AgentStep

\* The agent's end puts nothing on the queue.
LEMMA OverIInv ==
  ASSUME IInv, Done \/ Cancelled
  PROVE  IInv'
<1>1. /\ UNCHANGED <<stage, script, said, tools, typing, queue, docs, shown>>
      /\ phase' \in {"done", "cancelled"}
      /\ phase' = "done" => \A r \in Runs : stage[r] # "open"
  BY DEF Done, Cancelled
<1>2. TypeOK' /\ Unsaid'
  BY <1>1 DEF IInv, TypeOK, Unsaid
<1>3. Emptied(phase', stage', docs', queue')
  BY <1>1 DEF IInv, Emptied
<1> QED
  BY <1>1, <1>2, <1>3 DEF IInv

\* A step of the worker keeps the invariant.
LEMMA WorkerIInv ==
  ASSUME IInv, WorkerStep
  PROVE  IInv'
<1> DEFINE m == Head(queue)
<1>1. /\ queue # <<>> /\ queue' = Tail(queue) /\ UNCHANGED <<phase, stage, script, said, tools, typing>>
      /\ IF "ops" \in DOMAIN m THEN ProcessChunk(m) ELSE ProcessStatus(m)
  BY DEF WorkerStep, agent
<1>2. queue \in Seq(Msg) /\ TypeOK /\ Emptied(phase, stage, docs, queue)
  BY DEF IInv
<1>3. m \in Msg /\ m = queue[1] /\ 1 \in 1..Len(queue) /\ queue' \in Seq(Msg)
  BY <1>1, <1>2, Takes DEF Taken
<1> HIDE DEF m
<1>4. docs \in [Events -> Doc \cup {Absent}] /\ shown \in [Events -> Seq(Notes)]
  BY <1>2 DEF TypeOK, Notes
<1>5. Handled(m)
  BY <1>1, <1>3, <1>4, ChunkHandled, StatusHandled
<1>6. TypeOK'
  <2>1. \A j \in DOMAIN queue' : queue'[j].ev \in Events
    BY <1>3, QueueTyped
  <2>2. docs' \in [Events -> Doc \cup {Absent}] /\ shown' \in [Events -> Seq(Notes)]
    BY <1>5 DEF Handled
  <2> QED
    BY <1>1, <1>2, <2>1, <2>2 DEF TypeOK, Notes
<1>7. Unsaid'
  BY <1>1 DEF IInv, Unsaid
<1>8. Emptied(phase', stage', docs', queue')
  <2>1. \A ev \in Events : docs'[ev] # Absent =>
          \/ queue[1].ev # ev /\ docs[ev] # Absent
          \/ queue[1].ev = ev /\ What(queue[1]) # "ready" /\ (docs[ev] # Absent \/ "ops" \in DOMAIN queue[1])
    BY <1>3, <1>5 DEF Handled
  <2> QED
    BY <1>1, <1>2, <2>1, TakeEmptied
<1>9. ASSUME NEW r \in Runs
      PROVE  /\ StartFirst(Message(r), stage'[r] = "unborn", r \in typing', queue', shown'[Message(r)])
             /\ TypingFirst(Message(r), r \in typing', queue', shown'[Message(r)])
  <2> DEFINE ev == Message(r)
             seen == shown[ev]
             seen2 == shown'[ev]
             unborn == stage[r] = "unborn"
             typed == r \in typing
  <2>1. StartFirst(ev, unborn, typed, queue, seen) /\ TypingFirst(ev, typed, queue, seen)
    BY DEF IInv
  <2>2. Shows(queue[1], ev, seen, seen2) /\ seen \in Seq(Notes)
    BY <1>3, <1>4, <1>5, EventsAre DEF Handled
  <2>3. unborn = (stage'[r] = "unborn") /\ typed = (r \in typing')
    BY <1>1
  <2> HIDE DEF unborn, typed, ev, seen, seen2
  <2>4. StartFirst(ev, unborn, typed, queue', seen2)
    BY <1>1, <1>2, <2>1, <2>2, TakeStart
  <2>5. TypingFirst(ev, typed, queue', seen2)
    BY <1>1, <1>2, <2>1, <2>2, TakeTyping
  <2> QED
    BY <2>3, <2>4, <2>5 DEF ev, seen2
<1> QED
  BY <1>3, <1>6, <1>7, <1>8, <1>9 DEF IInv

\* Every step keeps the invariant.
LEMMA IInvStep ==
  ASSUME IInv, [Next]_vars
  PROVE  IInv'
<1>1. ASSUME NEW r \in Runs, Stream(r)
      PROVE  IInv'
  BY <1>1, StreamIInv
<1>2. ASSUME NEW r \in Runs, End(r)
      PROVE  IInv'
  BY <1>2, EndIInv
<1>3. ASSUME NEW r \in Runs, NEW s \in Scripts[r], Start(r, s)
      PROVE  IInv'
  BY <1>3, StartIInv
<1>4. ASSUME NEW r \in Runs, NEW i \in 1..MaxCalls, ToolEnd(r, i)
      PROVE  IInv'
  BY <1>4, ToolEndIInv
<1>5. CASE Done \/ Cancelled
  BY <1>5, OverIInv
<1>6. CASE WorkerStep
  BY <1>6, WorkerIInv
<1>7. CASE UNCHANGED vars
  BY <1>7 DEF vars, agent, IInv, TypeOK, Unsaid
<1> QED
  BY <1>1, <1>2, <1>3, <1>4, <1>5, <1>6, <1>7 DEF Next

\* The invariant says what the run checks.
LEMMA IInvInv ==
  ASSUME IInv
  PROVE  Inv
<1>1. StatusOrder
  <2> SUFFICES ASSUME NEW r \in Runs, NEW j \in DOMAIN shown[Message(r)], NEW k \in DOMAIN shown[Message(r)]
               PROVE  LET seen == shown[Message(r)]
                      IN /\ seen[k].what = "processing" => j >= k
                         /\ seen[j].what = "typing" /\ seen[k].what = "typing" => j = k
                         /\ seen[k].what = "/-" => \E t \in 1..(k - 1) : seen[t].what = "typing"
    BY DEF StatusOrder
  <2> DEFINE seen == shown[Message(r)]
  <2>1. seen \in Seq(Notes)
    BY EventsAre DEF IInv, TypeOK, Notes
  <2>2. DOMAIN seen = 1..Len(seen) /\ Len(seen) \in Nat
    BY <2>1, LenProperties
  <2>3. /\ StartFirst(Message(r), stage[r] = "unborn", r \in typing, queue, seen)
        /\ TypingFirst(Message(r), r \in typing, queue, seen)
    BY DEF IInv
  <2> HIDE DEF seen
  <2>4. j \in 1..Len(seen) /\ k \in 1..Len(seen)
    BY <2>2 DEF seen
  <2>5. seen[k].what = "processing" => k = 1
    BY <2>3, <2>4 DEF StartFirst, Seen
  <2>6. seen[j].what = "typing" /\ seen[k].what = "typing" => j = k
    BY <2>3, <2>4 DEF TypingFirst, Seen
  <2>7. seen[k].what = "/-" => \E t \in 1..(k - 1) : seen[t].what = "typing"
    BY <2>3, <2>4 DEF TypingFirst, Seen
  <2> QED
    BY <2>2, <2>4, <2>5, <2>6, <2>7 DEF seen
<1>2. NothingLeft
  <2> SUFFICES ASSUME phase = "done", queue = <<>>, NEW ev \in Events, docs[ev] # Absent
               PROVE  FALSE
    BY DEF NothingLeft
  <2>1. Live(stage, ev)
    BY DEF IInv, Emptied
  <2> QED
    BY <2>1, EventsAre DEF IInv, Emptied, Live
<1> QED
  BY <1>1, <1>2 DEF IInv, Inv

(* For any runs, scripts and number of calls: state and messages of the     *)
(* adapter, the queue and the store are well formed; of each event,         *)
(* subscribers see "processing" first, and "typing" at most once and before *)
(* any of its text; and when the agent came to the end of its events and    *)
(* the queue is empty, no document is left in the store.                    *)
THEOREM ShownInOrder == Spec => []Inv
<1>1. Init => IInv
  BY IInvInit
<1>2. IInv /\ [Next]_vars => IInv'
  BY IInvStep
<1>3. IInv => Inv
  BY IInvInv
<1> QED
  BY <1>1, <1>2, <1>3, PTL DEF Spec
-----------------------------------------------------------------------------
(* What is kept of a message is what was said.  The invariant follows each   *)
(* chunk of a script from the queue into the document.                       *)

\* Of a script: the chunks with arguments of a call, those of them that are to be kept, the
\* calls whose opening is emitted, and those the patches carry without fault.
SaysArgs(s, k, i) == k \in DOMAIN s /\ \E t \in ToSet(s[k].calls) : t.i = i /\ t.args # "none"
ObjectAt(s, k, i) == \E t \in ToSet(s[k].calls) : t.i = i /\ ~t.id /\ t.args = "whole"
Owed(s, k, i) == SaysArgs(s, k, i) /\ ~ObjectAt(s, k, i)
AloneIn(s, i) ==
  \A p \in Places(s) : CallAt(s, p).i = i /\ ~CallAt(s, p).id => Len(s[p[1]].calls) = 1
Openable(s, i) ==
  \E p \in Places(s) : CallAt(s, p).i = i /\ CallAt(s, p).id /\ ToolCalls(s[p[1]]) # {}
Good(s, i) == AloneIn(s, i) /\ Openable(s, i)
Heard(c) == c.valid /\ (c.calls = <<>> \/ ToolCalls(c) # {} \/ c.kwargs)

\* Patches that open the i-th call, and those with arguments for it.
CallOf(op, i) == op.i = i /\ op.path = "call"
ArgOf(op, i) == op.i = i /\ op.path \in {"args", "args/-"}
HasArg(ops, i) == \E a \in 1..Len(ops) : ArgOf(ops[a], i)

\* Of the i-th call a chunk has arguments once, alone or right behind its opening.
Single(s, k, ops, i) ==
  \A a \in 1..Len(ops) : ArgOf(ops[a], i) =>
    /\ \A b \in 1..Len(ops) : ArgOf(ops[b], i) => b = a
    /\ \/ Len(ops) = 1 /\ (ops[1].path = "args" => ObjectAt(s, k, i))
       \/ a > 1 /\ CallOf(ops[a - 1], i)

\* The patches a chunk's text becomes, and those its calls become: what each of them is
\* about, and that a call is opened after all before it.
TextPart(s, k, ops) == s[k].text /\ ops = <<Op("/-", 0, k)>>
From(t, op) == /\ t.i = op.i
               /\ op.path = "call" => t.id
               /\ op.path = "args" => t.args = "whole"
               /\ op.path = "args/-" => t.args \in {"open", "mid"}
CallsPart(s, k, ops) ==
  /\ ops \in Seq(CallOp)
  /\ \A n \in 1..Len(ops) :
       /\ ops[n].v = k
       /\ \E h \in DOMAIN s[k].calls : From(s[k].calls[h], ops[n])
       /\ ops[n].path = "call" => ToolCalls(s[k]) # {} /\ \A m \in 1..(n - 1) : ops[m].i < ops[n].i
  /\ \A i \in 1..MaxCalls : Good(s, i) => Single(s, k, ops, i)

\* The first calls that are said are opened one after the other, or are a fragment of one.
OpenedBy(ops, n, i) == \E m \in 1..n : CallOf(ops[m], i)
First(ops) ==
  \/ Len(ops) = 1 /\ ops[1].path \in {"/-", "args/-"}
  \/ /\ ops # <<>>
     /\ \A n \in 1..Len(ops) :
          IF ops[n].path = "call" THEN \A i \in 1..(ops[n].i - 1) : OpenedBy(ops, n - 1, i)
          ELSE OpenedBy(ops, n - 1, ops[n].i)

Mentioned(s, n) == {CallAt(s, p).i : p \in {p \in Places(s) : p[1] <= n}}

\* What the assumptions say of a script.
LEMMA PlacesAre ==
  ASSUME NEW s
  PROVE  /\ \A k \in DOMAIN s : \A h \in DOMAIN s[k].calls :
              <<k, h>> \in Places(s) /\ CallAt(s, <<k, h>>) = s[k].calls[h]
         /\ \A p \in Places(s) : /\ p[1] \in DOMAIN s /\ p[2] \in DOMAIN s[p[1]].calls
                                 /\ p = <<p[1], p[2]>> /\ CallAt(s, p) = s[p[1]].calls[p[2]]
<1>1. ASSUME NEW k \in DOMAIN s, NEW h \in DOMAIN s[k].calls
      PROVE  <<k, h>> \in Places(s) /\ CallAt(s, <<k, h>>) = s[k].calls[h]
  <2>1. <<k, h>> \in {k} \X DOMAIN s[k].calls
    OBVIOUS
  <2> QED
    BY <2>1 DEF Places, CallAt
<1>2. ASSUME NEW p \in Places(s)
      PROVE  /\ p[1] \in DOMAIN s /\ p[2] \in DOMAIN s[p[1]].calls
             /\ p = <<p[1], p[2]>> /\ CallAt(s, p) = s[p[1]].calls[p[2]]
  <2>1. PICK k \in DOMAIN s : p \in {k} \X DOMAIN s[k].calls
    BY DEF Places
  <2>2. p[1] = k /\ p[2] \in DOMAIN s[k].calls /\ p = <<p[1], p[2]>>
    BY <2>1
  <2> QED
    BY <2>2 DEF CallAt
<1> QED
  BY <1>1, <1>2

IsScript(s) == \E r \in Runs : s \in Scripts[r]

\* The chunks of a script and their calls, typed.
LEMMA ScriptIs ==
  ASSUME NEW s, IsScript(s)
  PROVE  /\ s \in Seq(Chunk) /\ DOMAIN s = 1..Len(s) /\ Len(s) \in Nat
         /\ \A k \in 1..Len(s) :
              /\ Sayable(s[k]) /\ s[k].text \in BOOLEAN /\ s[k].valid \in BOOLEAN /\ s[k].kwargs \in BOOLEAN
              /\ s[k].calls \in Seq(CallChunk) /\ DOMAIN s[k].calls = 1..Len(s[k].calls)
              /\ Len(s[k].calls) \in Nat
              /\ \A h \in 1..Len(s[k].calls) :
                   /\ s[k].calls[h] \in CallChunk /\ s[k].calls[h].i \in 1..MaxCalls
                   /\ s[k].calls[h].id \in BOOLEAN /\ s[k].calls[h].args \in Args
                   /\ s[k].calls[h].id \/ s[k].calls[h].args # "none"
<1>1. PICK r \in Runs : s \in Scripts[r]
  BY DEF IsScript
<1>2. /\ s \in Seq(Chunk) /\ DOMAIN s = 1..Len(s) /\ Len(s) \in Nat
      /\ \A k \in DOMAIN s : \A t \in ToSet(s[k].calls) : t.id \/ t.args # "none"
  BY <1>1, ScriptsAreStreams, LenProperties
<1>3. ASSUME NEW k \in 1..Len(s)
      PROVE  /\ Sayable(s[k]) /\ s[k].text \in BOOLEAN /\ s[k].valid \in BOOLEAN /\ s[k].kwargs \in BOOLEAN
             /\ s[k].calls \in Seq(CallChunk) /\ DOMAIN s[k].calls = 1..Len(s[k].calls)
             /\ Len(s[k].calls) \in Nat
             /\ \A h \in 1..Len(s[k].calls) :
                  /\ s[k].calls[h] \in CallChunk /\ s[k].calls[h].i \in 1..MaxCalls
                  /\ s[k].calls[h].id \in BOOLEAN /\ s[k].calls[h].args \in Args
                  /\ s[k].calls[h].id \/ s[k].calls[h].args # "none"
  <2>1. s[k] \in Chunk /\ Sayable(s[k])
    BY <1>2 DEF Sayable
  <2>2. /\ s[k].text \in BOOLEAN /\ s[k].valid \in BOOLEAN /\ s[k].kwargs \in BOOLEAN
        /\ s[k].calls \in Seq(CallChunk)
        /\ DOMAIN s[k].calls = 1..Len(s[k].calls) /\ Len(s[k].calls) \in Nat
    BY <2>1, LenProperties DEF Chunk
  <2>3. ASSUME NEW h \in 1..Len(s[k].calls)
        PROVE  /\ s[k].calls[h] \in CallChunk /\ s[k].calls[h].i \in 1..MaxCalls
               /\ s[k].calls[h].id \in BOOLEAN /\ s[k].calls[h].args \in Args
               /\ s[k].calls[h].id \/ s[k].calls[h].args # "none"
    <3>1. s[k].calls[h] \in CallChunk /\ s[k].calls[h] \in ToSet(s[k].calls)
      BY <2>2 DEF ToSet
    <3> QED
      BY <1>2, <3>1 DEF CallChunk
  <2> QED
    BY <2>1, <2>2, <2>3
<1> QED
  BY <1>2, <1>3

\* A call is opened with the next number, after those before it.
LEMMA OpensNext ==
  ASSUME NEW s, IsScript(s), NEW p \in Places(s)
  PROVE  LET before == {CallAt(s, q).i : q \in {x \in Places(s) : Earlier(x, p)}}
         IN /\ CallAt(s, p).id => before = 1..(CallAt(s, p).i - 1)
            /\ ~CallAt(s, p).id => CallAt(s, p).i \in before
BY CallsAreStreams DEF IsScript

\* A call is opened with a number above those before it.
LEMMA OpensNew ==
  ASSUME NEW s, IsScript(s), NEW p \in Places(s), CallAt(s, p).id, NEW q \in Places(s), Earlier(q, p)
  PROVE  CallAt(s, q).i < CallAt(s, p).i
<1>1. CallAt(s, q).i \in 1..(CallAt(s, p).i - 1)
  BY OpensNext
<1>2. CallAt(s, p).i \in 1..MaxCalls
  <2>1. p[1] \in DOMAIN s /\ p[2] \in DOMAIN s[p[1]].calls /\ CallAt(s, p) = s[p[1]].calls[p[2]]
    BY PlacesAre
  <2>2. p[1] \in 1..Len(s) /\ p[2] \in 1..Len(s[p[1]].calls)
    BY <2>1, ScriptIs
  <2> QED
    BY <2>1, <2>2, ScriptIs
<1> QED
  BY <1>1, <1>2, MaxCallsNat

\* Only one of a chunk's calls is the i-th, if the patches carry it.
LEMMA OneCall ==
  ASSUME NEW s, IsScript(s), NEW i \in 1..MaxCalls, AloneIn(s, i), NEW k \in 1..Len(s),
         NEW g \in 1..Len(s[k].calls), NEW h \in 1..Len(s[k].calls), s[k].calls[g].i = i, s[k].calls[h].i = i
  PROVE  g = h /\ (s[k].calls[h].id \/ Len(s[k].calls) = 1)
<1>1. DOMAIN s = 1..Len(s) /\ DOMAIN s[k].calls = 1..Len(s[k].calls) /\ Len(s[k].calls) \in Nat
  BY ScriptIs
<1>2. /\ <<k, g>> \in Places(s) /\ CallAt(s, <<k, g>>) = s[k].calls[g]
      /\ <<k, h>> \in Places(s) /\ CallAt(s, <<k, h>>) = s[k].calls[h]
  BY <1>1, PlacesAre
<1>3. <<k, g>>[1] = k /\ <<k, h>>[1] = k
  OBVIOUS
<1>4. /\ s[k].calls[g].id \/ Len(s[k].calls) = 1
      /\ s[k].calls[h].id \/ Len(s[k].calls) = 1
  BY <1>2, <1>3 DEF AloneIn
<1>5. CASE Len(s[k].calls) = 1
  BY <1>5
<1>6. CASE s[k].calls[g].id /\ s[k].calls[h].id
  <2>1. ASSUME g < h
        PROVE  FALSE
    <3>1. Earlier(<<k, g>>, <<k, h>>)
      BY <2>1 DEF Earlier
    <3>2. s[k].calls[g].i < s[k].calls[h].i
      BY <1>2, <1>6, <3>1, OpensNew
    <3> QED
      BY <3>2, MaxCallsNat
  <2>2. ASSUME h < g
        PROVE  FALSE
    <3>1. Earlier(<<k, h>>, <<k, g>>)
      BY <2>2 DEF Earlier
    <3>2. s[k].calls[h].i < s[k].calls[g].i
      BY <1>2, <1>6, <3>1, OpensNew
    <3> QED
      BY <3>2, MaxCallsNat
  <2> QED
    BY <1>1, <1>6, <2>1, <2>2
<1> QED
  BY <1>4, <1>5, <1>6

\* In a chunk that opens none, it is a fragment, the chunk's only one.
LEMMA FragmentAlone ==
  ASSUME NEW s, IsScript(s), NEW i \in 1..MaxCalls, Good(s, i), NEW k \in 1..Len(s), ToolCalls(s[k]) = {},
         NEW h \in 1..Len(s[k].calls), s[k].calls[h].i = i
  PROVE  Len(s[k].calls) = 1 /\ h = 1
<1>1. DOMAIN s = 1..Len(s) /\ DOMAIN s[k].calls = 1..Len(s[k].calls) /\ Len(s[k].calls) \in Nat
  BY ScriptIs
<1>2. <<k, h>> \in Places(s) /\ CallAt(s, <<k, h>>) = s[k].calls[h] /\ <<k, h>>[1] = k
  BY <1>1, PlacesAre
<1>3. ASSUME s[k].calls[h].id
      PROVE  FALSE
  <2>1. PICK p \in Places(s) : CallAt(s, p).i = i /\ CallAt(s, p).id /\ ToolCalls(s[p[1]]) # {}
    BY DEF Good, Openable
  <2>2. p[1] # k /\ p[1] \in 1..Len(s)
    BY <1>1, <2>1, PlacesAre
  <2>3. CASE p[1] < k
    <3>1. Earlier(p, <<k, h>>)
      BY <1>2, <2>3 DEF Earlier
    <3>2. CallAt(s, p).i < CallAt(s, <<k, h>>).i
      BY <1>2, <1>3, <2>1, <3>1, OpensNew
    <3> QED
      BY <1>2, <2>1, <3>2, MaxCallsNat
  <2>4. CASE k < p[1]
    <3>1. Earlier(<<k, h>>, p)
      BY <1>2, <2>4 DEF Earlier
    <3>2. CallAt(s, <<k, h>>).i < CallAt(s, p).i
      BY <1>2, <2>1, <3>1, OpensNew
    <3> QED
      BY <1>2, <2>1, <3>2, MaxCallsNat
  <2> QED
    BY <2>2, <2>3, <2>4
<1>4. Len(s[k].calls) = 1
  BY <1>2, <1>3 DEF Good, AloneIn
<1> QED
  BY <1>4

\* The first chunk with calls opens each of them before it says more of it, from 1 on.
LEMMA FirstOpens ==
  ASSUME NEW s, IsScript(s), NEW k \in 1..Len(s), Mentioned(s, k - 1) = {}, NEW h \in 1..Len(s[k].calls)
  PROVE  /\ \E g \in 1..h : s[k].calls[g].id /\ s[k].calls[g].i = s[k].calls[h].i
         /\ s[k].calls[h].id => \A i \in 1..(s[k].calls[h].i - 1) :
              \E g \in 1..(h - 1) : s[k].calls[g].id /\ s[k].calls[g].i = i
<1> DEFINE L == Len(s[k].calls)
<1>1. DOMAIN s = 1..Len(s) /\ Len(s) \in Nat /\ L \in Nat /\ DOMAIN s[k].calls = 1..L
  BY ScriptIs
<1>2. \A q \in Places(s) : q[1] >= k
  <2>1. ASSUME NEW q \in Places(s), q[1] <= k - 1
        PROVE  FALSE
    BY <2>1 DEF Mentioned
  <2>2. \A q \in Places(s) : q[1] \in 1..Len(s)
    BY <1>1, PlacesAre
  <2> QED
    BY <1>1, <2>1, <2>2
<1>3. ASSUME NEW g \in 1..L, NEW q \in Places(s), Earlier(q, <<k, g>>)
      PROVE  q[2] \in 1..(g - 1) /\ CallAt(s, q) = s[k].calls[q[2]]
  <2>1. q[1] >= k /\ q[1] \in 1..Len(s) /\ q[2] \in DOMAIN s[q[1]].calls /\ CallAt(s, q) = s[q[1]].calls[q[2]]
    BY <1>1, <1>2, PlacesAre
  <2>2. q[1] = k /\ q[2] < g
    BY <1>3, <2>1 DEF Earlier
  <2> QED
    BY <1>1, <2>1, <2>2
<1>4. ASSUME NEW g \in 1..L
      PROVE  \E f \in 1..g : s[k].calls[f].id /\ s[k].calls[f].i = s[k].calls[g].i
  <2> DEFINE S == {f \in 1..g : s[k].calls[f].i = s[k].calls[g].i}
  <2>1. S \in SUBSET (1..g) /\ S # {} /\ g \in Nat
    <3>1. g \in S
      OBVIOUS
    <3> QED
      BY <3>1
  <2>2. PICK f \in S : \A e \in S : f <= e
    <3> HIDE DEF S
    <3> QED
      BY <2>1, Least
  <2>3. f \in 1..L /\ s[k].calls[f].id \in BOOLEAN
    <3>1. f \in 1..L
      BY <1>1, <2>2
    <3> QED
      BY <3>1, ScriptIs
  <2>4. <<k, f>> \in Places(s) /\ CallAt(s, <<k, f>>) = s[k].calls[f]
    BY <1>1, <2>3, PlacesAre
  <2>5. ASSUME ~s[k].calls[f].id
        PROVE  FALSE
    <3>1. PICK q \in Places(s) : Earlier(q, <<k, f>>) /\ CallAt(s, q).i = s[k].calls[f].i
      BY <2>4, <2>5, OpensNext
    <3>2. q[2] \in 1..(f - 1) /\ CallAt(s, q) = s[k].calls[q[2]]
      BY <1>3, <2>3, <3>1
    <3>3. q[2] \in S /\ q[2] < f
      BY <2>2, <3>1, <3>2
    <3> QED
      BY <2>2, <3>3
  <2> QED
    BY <2>2, <2>3, <2>5
<1>5. ASSUME s[k].calls[h].id, NEW i \in 1..(s[k].calls[h].i - 1)
      PROVE  \E g \in 1..(h - 1) : s[k].calls[g].id /\ s[k].calls[g].i = i
  <2>1. <<k, h>> \in Places(s) /\ CallAt(s, <<k, h>>) = s[k].calls[h]
    BY <1>1, PlacesAre
  <2>2. PICK q \in Places(s) : Earlier(q, <<k, h>>) /\ CallAt(s, q).i = i
    BY <1>5, <2>1, OpensNext
  <2>3. q[2] \in 1..(h - 1) /\ CallAt(s, q) = s[k].calls[q[2]]
    BY <1>3, <2>2
  <2>4. q[2] \in 1..L
    BY <1>1, <2>3
  <2>5. PICK f \in 1..q[2] : s[k].calls[f].id /\ s[k].calls[f].i = s[k].calls[q[2]].i
    BY <1>4, <2>4
  <2>6. f \in 1..(h - 1)
    BY <2>3, <2>5
  <2> QED
    BY <2>2, <2>3, <2>5, <2>6
<1> QED
  BY <1>4, <1>5
-----------------------------------------------------------------------------
\* The patches of one call of a chunk: that it is opened comes first.
LEMMA CallOpsAre ==
  ASSUME NEW t \in CallChunk, NEW k \in Nat, t.id \/ t.args # "none"
  PROVE  /\ CallOps(t, k) \in Seq(CallOp) /\ Len(CallOps(t, k)) \in 1..2
         /\ \A q \in 1..Len(CallOps(t, k)) :
              /\ CallOps(t, k)[q].v = k /\ From(t, CallOps(t, k)[q])
              /\ CallOps(t, k)[q].path = "call" <=> q = 1 /\ t.id
         /\ ~t.id => Len(CallOps(t, k)) = 1
         /\ t.args # "none" => CallOps(t, k)[Len(CallOps(t, k))].path # "call"
<1> DEFINE c == Op("call", t.i, k)
           o == Op(IF t.args = "whole" THEN "args" ELSE "args/-", t.i, k)
           d == IF t.id THEN <<c>> ELSE <<>>
           e == IF t.args = "none" THEN <<>> ELSE <<o>>
           F == CallOps(t, k)
<1>1. t.i \in 1..MaxCalls /\ t.args \in {"none", "open", "mid", "whole"} /\ t.id \in BOOLEAN
  BY DEF CallChunk, Args
<1>2. c \in CallOp /\ c.v = k /\ c.path = "call" /\ (t.id => From(t, c))
  BY <1>1 DEF CallOp, Op, From
<1>3. o \in CallOp /\ o.v = k /\ o.path # "call" /\ (t.args # "none" => From(t, o))
  BY <1>1 DEF CallOp, Op, From
<1>4. F = d \o e
  <2>1. ArgsOps(t, k) = e
    BY <1>1 DEF ArgsOps
  <2> QED
    BY <2>1 DEF CallOps
<1> HIDE DEF c, o, F
<1>5. /\ d \in Seq(CallOp) /\ e \in Seq(CallOp)
      /\ Len(d) = IF t.id THEN 1 ELSE 0
      /\ Len(e) = IF t.args = "none" THEN 0 ELSE 1
      /\ t.id => d[1] = c
      /\ t.args # "none" => e[1] = o
  BY <1>2, <1>3
<1> HIDE DEF d, e
<1>6. /\ F \in Seq(CallOp) /\ Len(F) = Len(d) + Len(e)
      /\ \A q \in 1..(Len(d) + Len(e)) : F[q] = IF q <= Len(d) THEN d[q] ELSE e[q - Len(d)]
  BY <1>4, <1>5, ConcatProperties
<1>7. CASE t.id
  <2>1. Len(d) = 1 /\ F[1] = c /\ Len(F) \in 1..2
    BY <1>5, <1>6, <1>7
  <2>2. Len(F) = 2 => t.args # "none" /\ F[2] = o
    BY <1>5, <1>6, <1>7, <2>1
  <2>3. \A q \in 1..Len(F) : q = 1 \/ (q = 2 /\ Len(F) = 2)
    BY <2>1
  <2>4. t.args # "none" => Len(F) = 2 /\ F[2].path # "call"
    BY <1>3, <1>5, <1>6, <2>1, <2>2
  <2> QED
    BY <1>2, <1>3, <1>6, <1>7, <2>1, <2>2, <2>3, <2>4 DEF F
<1>8. CASE ~t.id
  <2>1. Len(F) = 1 /\ F[1] = o /\ t.args # "none"
    BY <1>5, <1>6, <1>8
  <2>2. \A q \in 1..Len(F) : /\ F[q].v = k /\ From(t, F[q])
                             /\ F[q].path = "call" <=> q = 1 /\ t.id
    <3>1. \A q \in 1..Len(F) : q = 1
      BY <2>1
    <3>2. F[1].v = k /\ From(t, F[1]) /\ F[1].path # "call"
      BY <1>3, <2>1
    <3> QED
      BY <1>8, <3>1, <3>2
  <2>3. Len(F) \in 1..2
    BY <2>1
  <2>4. F \in Seq(CallOp)
    BY <1>6
  <2>5. F[Len(F)].path # "call"
    BY <1>3, <2>1
  <2> QED
    BY <2>1, <2>2, <2>3, <2>4, <2>5 DEF F
<1> QED
  BY <1>1, <1>7, <1>8

\* All patches of a chunk's calls, laid out as the calls are: those of the h-th begin
\* behind those of the calls before it.
Flat(s, k, F, off) ==
  /\ F \in Seq(CallOp)
  /\ \A n \in 1..Len(F) : \E h \in 1..Len(s[k].calls) :
       n - off[h] \in 1..Len(CallOps(s[k].calls[h], k)) /\ F[n] = CallOps(s[k].calls[h], k)[n - off[h]]
  /\ \A h \in 1..Len(s[k].calls) :
       /\ off[h] \in Nat
       /\ \A q \in 1..Len(CallOps(s[k].calls[h], k)) :
            off[h] + q \in 1..Len(F) /\ F[off[h] + q] = CallOps(s[k].calls[h], k)[q]
       /\ \A g \in 1..Len(s[k].calls) : g < h => off[g] + Len(CallOps(s[k].calls[g], k)) <= off[h]
  /\ off[1] = 0

\* The patches of a chunk are those of its calls, one after the other.
LEMMA FlatIs ==
  ASSUME NEW s, IsScript(s), NEW k \in 1..Len(s), s[k].calls # <<>>
  PROVE  \E off : Flat(s, k, FlattenSeq([j \in DOMAIN s[k].calls |-> CallOps(s[k].calls[j], k)]), off)
<1> DEFINE c == s[k]
           b == [j \in DOMAIN c.calls |-> CallOps(c.calls[j], k)]
           F == FlattenSeq(b)
<1>1. /\ Sayable(c) /\ k \in Nat /\ Len(c.calls) \in Nat /\ DOMAIN c.calls = 1..Len(c.calls)
      /\ c.calls \in Seq(CallChunk)
  BY ScriptIs
<1>2. b \in Seq(Seq(CallOp)) /\ Len(b) = Len(c.calls)
  BY <1>1, BlocksAre
<1>3. \A j \in 1..Len(c.calls) : b[j] = CallOps(c.calls[j], k)
  BY <1>1
<1>4. b # <<>>
  <2>1. Len(c.calls) # 0
    BY <1>1, EmptySeq
  <2> HIDE DEF b
  <2> QED
    BY <1>2, <2>1, EmptySeq
<1> HIDE DEF b
<1>5. F \in Seq(CallOp)
  BY <1>2, <1>4, FlattenIs
<1>6. PICK off \in [1..Len(b) -> Nat] : off[1] = 0 /\ Laid(F, b, off, Len(b))
  BY <1>2, <1>4, FlattenIs
<1> HIDE DEF F, c
<1> USE DEF c
<1>7. ASSUME NEW n \in 1..Len(F)
      PROVE  \E h \in 1..Len(c.calls) :
               n - off[h] \in 1..Len(CallOps(c.calls[h], k)) /\ F[n] = CallOps(c.calls[h], k)[n - off[h]]
  <2>1. PICK h \in 1..Len(b) : n - off[h] \in 1..Len(b[h])
    BY <1>6 DEF Laid
  <2>2. h \in 1..Len(c.calls) /\ b[h] = CallOps(c.calls[h], k) /\ off[h] \in Nat
    BY <1>2, <1>3, <1>6, <2>1
  <2> DEFINE q == n - off[h]
  <2>3. q \in 1..Len(b[h]) /\ off[h] + q = n
    BY <2>1, <2>2
  <2> HIDE DEF q
  <2>4. F[off[h] + q] = b[h][q]
    BY <1>6, <2>3 DEF Laid
  <2> QED
    BY <2>2, <2>3, <2>4 DEF q
<1>8. ASSUME NEW h \in 1..Len(c.calls)
      PROVE  /\ off[h] \in Nat
             /\ \A q \in 1..Len(CallOps(c.calls[h], k)) :
                  off[h] + q \in 1..Len(F) /\ F[off[h] + q] = CallOps(c.calls[h], k)[q]
             /\ \A g \in 1..Len(c.calls) : g < h => off[g] + Len(CallOps(c.calls[g], k)) <= off[h]
  <2>1. h \in 1..Len(b) /\ b[h] = CallOps(c.calls[h], k) /\ off[h] \in Nat
    BY <1>2, <1>3, <1>6
  <2>2. \A q \in 1..Len(b[h]) : off[h] + q \in 1..Len(F) /\ F[off[h] + q] = b[h][q]
    BY <1>6, <2>1 DEF Laid
  <2>3. ASSUME NEW g \in 1..Len(c.calls), g < h
        PROVE  off[g] + Len(CallOps(c.calls[g], k)) <= off[h]
    <3>1. g \in 1..Len(b) /\ b[g] = CallOps(c.calls[g], k)
      BY <1>2, <1>3
    <3>2. off[g] + Len(b[g]) <= off[h]
      BY <1>6, <2>1, <2>3, <3>1 DEF Laid
    <3> QED
      BY <3>1, <3>2
  <2> QED
    BY <2>1, <2>2, <2>3
<1>9. Flat(s, k, F, off)
  BY <1>5, <1>6, <1>7, <1>8 DEF Flat
<1> QED
  BY <1>9 DEF F, b
-----------------------------------------------------------------------------
\* A call becomes at most its opening and, behind it, its arguments.
LEMMA CallOpsOf ==
  ASSUME NEW s, IsScript(s), NEW k \in 1..Len(s), NEW h \in 1..Len(s[k].calls)
  PROVE  /\ Len(CallOps(s[k].calls[h], k)) \in 1..2
         /\ \A q \in 1..Len(CallOps(s[k].calls[h], k)) :
              /\ CallOps(s[k].calls[h], k)[q].v = k /\ From(s[k].calls[h], CallOps(s[k].calls[h], k)[q])
              /\ CallOps(s[k].calls[h], k)[q].path = "call" <=> q = 1 /\ s[k].calls[h].id
         /\ ~s[k].calls[h].id => Len(CallOps(s[k].calls[h], k)) = 1
         /\ s[k].calls[h].args # "none" =>
              CallOps(s[k].calls[h], k)[Len(CallOps(s[k].calls[h], k))].path # "call"
<1>1. k \in Nat /\ s[k].calls[h] \in CallChunk /\ (s[k].calls[h].id \/ s[k].calls[h].args # "none")
  BY ScriptIs
<1> QED
  BY <1>1, CallOpsAre

\* The patch at n is of a call behind that of the patch at m, if n is where its patches begin.
LEMMA FlatEarlier ==
  ASSUME NEW s, IsScript(s), NEW k \in 1..Len(s), NEW F, NEW off, Flat(s, k, F, off),
         NEW g \in 1..Len(s[k].calls), NEW h \in 1..Len(s[k].calls), NEW m \in Nat, m <= off[h],
         m - off[g] \in 1..Len(CallOps(s[k].calls[g], k))
  PROVE  g < h
<1>1. off[g] \in Nat /\ off[h] \in Nat /\ g \in Nat /\ h \in Nat
  BY DEF Flat
<1>2. \A q \in 1..Len(s[k].calls) : Len(CallOps(s[k].calls[q], k)) \in 1..2
  BY CallOpsOf
<1>3. ASSUME h < g
      PROVE  FALSE
  <2>1. off[h] + Len(CallOps(s[k].calls[h], k)) <= off[g]
    BY <1>3 DEF Flat
  <2> QED
    BY <1>1, <1>2, <2>1
<1> QED
  BY <1>1, <1>2, <1>3

\* The n-th patch is one of the h-th call.
PatchOf(s, k, F, off, n, h) ==
  /\ n - off[h] \in 1..Len(CallOps(s[k].calls[h], k))
  /\ F[n].v = k /\ From(s[k].calls[h], F[n])
  /\ F[n].path = "call" <=> n - off[h] = 1 /\ s[k].calls[h].id

\* Each patch of a chunk is one of one of its calls.
LEMMA FlatAt ==
  ASSUME NEW s, IsScript(s), NEW k \in 1..Len(s), NEW F, NEW off, Flat(s, k, F, off), NEW n \in 1..Len(F)
  PROVE  \E h \in 1..Len(s[k].calls) : PatchOf(s, k, F, off, n, h)
<1>1. PICK h \in 1..Len(s[k].calls) :
        n - off[h] \in 1..Len(CallOps(s[k].calls[h], k)) /\ F[n] = CallOps(s[k].calls[h], k)[n - off[h]]
  BY DEF Flat
<1> DEFINE q == n - off[h]
           b == CallOps(s[k].calls[h], k)
<1>2. q \in 1..Len(b) /\ F[n] = b[q]
  BY <1>1
<1>3. \A p \in 1..Len(b) : b[p].v = k /\ From(s[k].calls[h], b[p]) /\ (b[p].path = "call" <=> p = 1 /\ s[k].calls[h].id)
  BY CallOpsOf
<1> HIDE DEF q, b
<1>4. F[n].v = k /\ From(s[k].calls[h], F[n]) /\ (F[n].path = "call" <=> q = 1 /\ s[k].calls[h].id)
  BY <1>2, <1>3
<1> QED
  BY <1>1, <1>4 DEF q, PatchOf

\* The patches of a chunk say what its calls say, in their order.
LEMMA FlatCalls ==
  ASSUME NEW s, IsScript(s), NEW k \in 1..Len(s), NEW F, NEW off, Flat(s, k, F, off),
         ToolCalls(s[k]) # {}
  PROVE  CallsPart(s, k, F)
<1> DEFINE t(h) == s[k].calls[h]
           b(h) == CallOps(t(h), k)
           H == 1..Len(s[k].calls)
<1>1. F \in Seq(CallOp) /\ Len(F) \in Nat /\ DOMAIN s[k].calls = H /\ Len(s[k].calls) \in Nat
  BY ScriptIs, LenProperties DEF Flat
<1>2. \A h \in H : /\ off[h] \in Nat /\ Len(b(h)) \in 1..2
                   /\ ~t(h).id => Len(b(h)) = 1
  BY CallOpsOf DEF Flat
<1>3. ASSUME NEW n \in 1..Len(F)
      PROVE  /\ F[n].v = k
             /\ \E h \in DOMAIN s[k].calls : From(t(h), F[n])
             /\ F[n].path = "call" => \A m \in 1..(n - 1) : F[m].i < F[n].i
  <2>1. PICK h \in H : PatchOf(s, k, F, off, n, h)
    BY FlatAt
  <2>2. /\ n - off[h] \in 1..Len(b(h)) /\ F[n].v = k /\ From(t(h), F[n])
        /\ F[n].path = "call" <=> n - off[h] = 1 /\ t(h).id
    BY <2>1 DEF PatchOf
  <2>4. ASSUME F[n].path = "call", NEW m \in 1..(n - 1)
        PROVE  F[m].i < F[n].i
    <3>1. n - off[h] = 1 /\ t(h).id /\ m \in 1..Len(F) /\ m \in Nat
      BY <1>1, <2>2, <2>4
    <3>8. PICK g \in H : PatchOf(s, k, F, off, m, g)
      BY <3>1, FlatAt
    <3>2. m - off[g] \in 1..Len(b(g)) /\ From(t(g), F[m])
      BY <3>8 DEF PatchOf
    <3>3. m <= off[h]
      BY <1>2, <2>4, <3>1
    <3>4. g < h
      BY <3>1, <3>2, <3>3, FlatEarlier
    <3>5. F[m].i = t(g).i /\ F[n].i = t(h).i
      BY <2>2, <3>2 DEF From
    <3>6. /\ <<k, g>> \in Places(s) /\ CallAt(s, <<k, g>>) = t(g)
          /\ <<k, h>> \in Places(s) /\ CallAt(s, <<k, h>>) = t(h)
      BY <1>1, ScriptIs, PlacesAre
    <3>7. Earlier(<<k, g>>, <<k, h>>)
      BY <3>4 DEF Earlier
    <3> QED
      BY <3>1, <3>5, <3>6, <3>7, OpensNew
  <2> QED
    BY <1>1, <2>2, <2>4
<1>4. ASSUME NEW i \in 1..MaxCalls, Good(s, i), NEW a \in 1..Len(F), ArgOf(F[a], i)
      PROVE  /\ \A c \in 1..Len(F) : ArgOf(F[c], i) => c = a
             /\ \/ Len(F) = 1 /\ (F[1].path = "args" => ObjectAt(s, k, i))
                \/ a > 1 /\ CallOf(F[a - 1], i)
  <2>1. PICK h \in H : PatchOf(s, k, F, off, a, h)
    BY FlatAt
  <2>2. /\ a - off[h] \in 1..Len(b(h)) /\ From(t(h), F[a]) /\ t(h).i = i
        /\ ~(a - off[h] = 1 /\ t(h).id)
    BY <1>4, <2>1 DEF PatchOf, ArgOf, From
  <2>3. off[h] \in Nat /\ Len(b(h)) \in 1..2 /\ (~t(h).id => Len(b(h)) = 1) /\ t(h).id \in BOOLEAN
    BY <1>2, ScriptIs
  <2>4. a - off[h] = IF t(h).id THEN 2 ELSE 1
    <3> DEFINE x == off[h]
               y == Len(b(h))
               z == t(h).id
    <3>1. /\ a \in Nat /\ x \in Nat /\ y \in 1..2 /\ z \in BOOLEAN /\ (~z => y = 1)
          /\ a - x \in 1..y /\ ~(a - x = 1 /\ z)
      BY <1>1, <2>2, <2>3
    <3> HIDE DEF x, y, z
    <3>2. a - x = IF z THEN 2 ELSE 1
      BY <3>1
    <3> QED
      BY <3>2 DEF x, z
  <2>5. ASSUME NEW c \in 1..Len(F), ArgOf(F[c], i)
        PROVE  c = a
    <3>1. PICK g \in H : PatchOf(s, k, F, off, c, g)
      BY FlatAt
    <3>2. /\ c - off[g] \in 1..Len(b(g)) /\ t(g).i = i
          /\ ~(c - off[g] = 1 /\ t(g).id)
      BY <2>5, <3>1 DEF PatchOf, ArgOf, From
    <3>3. g = h
      BY <1>4, <2>2, <3>2, OneCall DEF Good
    <3> DEFINE x == off[h]
               y == Len(b(h))
               z == t(h).id
    <3>4. /\ a \in Nat /\ c \in Nat /\ x \in Nat /\ y \in 1..2 /\ z \in BOOLEAN /\ (~z => y = 1)
          /\ c - x \in 1..y /\ ~(c - x = 1 /\ z) /\ a - x = IF z THEN 2 ELSE 1
      BY <1>1, <2>3, <2>4, <3>2, <3>3
    <3> HIDE DEF x, y, z
    <3> QED
      BY <3>4
  <2>6. CASE t(h).id
    <3>1. 1 \in 1..Len(b(h)) /\ off[h] + 1 = a - 1 /\ a > 1
      <4> DEFINE x == off[h]
                 y == Len(b(h))
      <4>1. a \in Nat /\ x \in Nat /\ y \in 1..2 /\ a - x = 2
        BY <1>1, <2>3, <2>4, <2>6
      <4> HIDE DEF x, y
      <4>2. 1 \in 1..y /\ x + 1 = a - 1 /\ a > 1
        BY <4>1
      <4> QED
        BY <4>2 DEF x, y
    <3>2. F[off[h] + 1] = b(h)[1]
      BY <3>1 DEF Flat
    <3>3. From(t(h), b(h)[1]) /\ b(h)[1].path = "call"
      BY <2>6, <3>1, CallOpsOf
    <3>4. CallOf(F[a - 1], i)
      BY <2>2, <3>1, <3>2, <3>3 DEF From, CallOf
    <3> QED
      BY <2>5, <3>1, <3>4
  <2>7. CASE ~t(h).id
    <3>1. Len(s[k].calls) = 1 /\ Len(b(h)) = 1 /\ h = 1 /\ off[1] = 0
      <4>1. Len(s[k].calls) = 1
        BY <1>4, <2>2, <2>7, OneCall DEF Good
      <4> QED
        BY <2>3, <2>7, <4>1 DEF Flat
    <3>2. \A m \in 1..Len(F) : m - off[1] \in 1..Len(b(1))
      <4>1. ASSUME NEW m \in 1..Len(F)
            PROVE  m - off[1] \in 1..Len(b(1))
        <5>1. PICK g \in H : PatchOf(s, k, F, off, m, g)
          BY FlatAt
        <5>2. g = 1
          BY <3>1
        <5> QED
          BY <5>1, <5>2 DEF PatchOf
      <4> QED
        BY <4>1
    <3>3. Len(F) \in 1..Len(F)
      BY <1>1
    <3>4. Len(F) - 0 \in 1..1
      BY <3>1, <3>2, <3>3
    <3>5. Len(F) = 1 /\ a = 1
      <4> DEFINE x == Len(F)
      <4>1. x \in Nat /\ a \in 1..x /\ x - 0 \in 1..1
        BY <1>1, <3>4
      <4> HIDE DEF x
      <4>2. x = 1 /\ a = 1
        BY <4>1
      <4> QED
        BY <4>2 DEF x
    <3>6. F[1].path = "args" => ObjectAt(s, k, i)
      <4>1. t(h) \in ToSet(s[k].calls)
        BY <1>1 DEF ToSet
      <4> QED
        BY <2>2, <2>7, <3>5, <4>1 DEF From, ObjectAt
    <3> QED
      BY <2>5, <3>5, <3>6
  <2> QED
    BY <2>6, <2>7
<1>5. \A i \in 1..MaxCalls : Good(s, i) => Single(s, k, F, i)
  BY <1>4 DEF Single
<1> QED
  BY <1>1, <1>3, <1>5 DEF CallsPart

\* If no call was said before the chunk, its patches open one after the other.
LEMMA FlatFirst ==
  ASSUME NEW s, IsScript(s), NEW k \in 1..Len(s), Mentioned(s, k - 1) = {},
         NEW F, NEW off, Flat(s, k, F, off), F # <<>>
  PROVE  First(F)
<1> DEFINE t(h) == s[k].calls[h]
           b(h) == CallOps(t(h), k)
           H == 1..Len(s[k].calls)
<1>1. F \in Seq(CallOp) /\ Len(F) \in Nat /\ DOMAIN s[k].calls = H /\ Len(s[k].calls) \in Nat /\ Len(F) # 0
  BY ScriptIs, LenProperties, EmptySeq DEF Flat
<1>2. \A h \in H : off[h] \in Nat /\ Len(b(h)) \in 1..2
  BY CallOpsOf DEF Flat
<1>3. ASSUME NEW g \in H, t(g).id
      PROVE  off[g] + 1 \in 1..Len(F) /\ CallOf(F[off[g] + 1], t(g).i)
  <2>1. 1 \in 1..Len(b(g))
    <3> DEFINE x == Len(b(g))
    <3>1. x \in 1..2
      BY <1>2
    <3> HIDE DEF x
    <3>2. 1 \in 1..x
      BY <3>1
    <3> QED
      BY <3>2 DEF x
  <2>2. off[g] + 1 \in 1..Len(F) /\ F[off[g] + 1] = b(g)[1]
    BY <2>1 DEF Flat
  <2>3. From(t(g), b(g)[1]) /\ b(g)[1].path = "call"
    BY <1>3, <2>1, CallOpsOf
  <2> QED
    BY <2>2, <2>3 DEF From, CallOf
<1>4. ASSUME NEW g \in H, NEW h \in H, g < h
      PROVE  off[g] + 1 <= off[h]
  <2>1. off[g] + Len(b(g)) <= off[h]
    BY <1>4 DEF Flat
  <2> DEFINE x == off[g]
             y == Len(b(g))
             z == off[h]
  <2>2. x \in Nat /\ y \in 1..2 /\ z \in Nat /\ x + y <= z
    BY <1>2, <2>1
  <2> HIDE DEF x, y, z
  <2>3. x + 1 <= z
    BY <2>2
  <2> QED
    BY <2>3 DEF x, z
<1>5. ASSUME NEW n \in 1..Len(F)
      PROVE  IF F[n].path = "call" THEN \A i \in 1..(F[n].i - 1) : OpenedBy(F, n - 1, i)
             ELSE OpenedBy(F, n - 1, F[n].i)
  <2>1. PICK h \in H : PatchOf(s, k, F, off, n, h)
    BY FlatAt
  <2>2. /\ n - off[h] \in 1..Len(b(h)) /\ F[n].i = t(h).i
        /\ F[n].path = "call" <=> n - off[h] = 1 /\ t(h).id
    BY <2>1 DEF PatchOf, From
  <2>3. n \in Nat /\ off[h] \in Nat /\ off[h] < n
    <3> DEFINE x == off[h]
               y == Len(b(h))
    <3>1. n \in Nat /\ x \in Nat /\ y \in 1..2 /\ n - x \in 1..y
      BY <1>1, <1>2, <2>2
    <3> HIDE DEF x, y
    <3>2. x < n
      BY <3>1
    <3> QED
      BY <3>1, <3>2 DEF x
  <2>4. ASSUME NEW g \in H, t(g).id, off[g] + 1 < n
        PROVE  OpenedBy(F, n - 1, t(g).i)
    <3>1. off[g] + 1 \in 1..(n - 1)
      BY <1>1, <1>3, <2>3, <2>4
    <3> QED
      BY <1>3, <2>4, <3>1 DEF OpenedBy
  <2>5. CASE F[n].path = "call"
    <3>1. ASSUME NEW i \in 1..(F[n].i - 1)
          PROVE  OpenedBy(F, n - 1, i)
      <4>5. t(h).id /\ i \in 1..(t(h).i - 1) /\ h \in 1..Len(s[k].calls)
        BY <2>2, <2>5, <3>1
      <4>6. \A j \in 1..(s[k].calls[h].i - 1) :
              \E g \in 1..(h - 1) : s[k].calls[g].id /\ s[k].calls[g].i = j
        BY <4>5, FirstOpens
      <4>1. PICK g \in 1..(h - 1) : t(g).id /\ t(g).i = i
        BY <4>5, <4>6
      <4>2. g \in H /\ g < h
        BY <1>1
      <4>3. off[g] + 1 <= off[h]
        BY <1>4, <4>2
      <4>4. off[g] + 1 < n
        BY <1>2, <2>3, <4>2, <4>3
      <4> QED
        BY <2>4, <4>1, <4>2, <4>4
    <3> QED
      BY <2>5, <3>1
  <2>6. CASE F[n].path # "call"
    <3>1. PICK g \in 1..h : t(g).id /\ t(g).i = t(h).i
      BY FirstOpens
    <3>2. g \in H /\ (g = h \/ g < h)
      BY <1>1
    <3>3. CASE g = h
      <4> DEFINE x == off[h]
                 y == Len(b(h))
      <4>1. n \in Nat /\ x \in Nat /\ y \in 1..2 /\ n - x \in 1..y /\ n - x # 1
        BY <1>1, <1>2, <2>2, <2>6, <3>1, <3>3
      <4> HIDE DEF x, y
      <4>2. x + 1 < n
        BY <4>1
      <4>3. off[g] + 1 < n
        BY <3>3, <4>2 DEF x
      <4> QED
        BY <2>2, <2>4, <2>6, <3>1, <3>2, <4>3
    <3>4. CASE g < h
      <4>1. off[g] + 1 <= off[h]
        BY <1>4, <3>2, <3>4
      <4>2. off[g] + 1 < n
        BY <1>2, <2>3, <3>2, <4>1
      <4> QED
        BY <2>2, <2>4, <2>6, <3>1, <3>2, <4>2
    <3> QED
      BY <3>2, <3>3, <3>4
  <2> QED
    BY <2>5, <2>6
<1> QED
  BY <1>5 DEF First
-----------------------------------------------------------------------------
CallMsgsOf(r, c, k) ==
  IF ToolCalls(c) # {}
  THEN ChunkMsg(Message(r), FlattenSeq([j \in DOMAIN c.calls |-> CallOps(c.calls[j], k)]))
  ELSE FragmentMsgs(r, c, k)

\* Only one message opens calls, and if the patches carry a call one only has its arguments.
CallsSay(s, k, n) ==
  /\ \A j \in 1..Len(n) : /\ "ops" \in DOMAIN n[j] /\ CallsPart(s, k, n[j].ops)
                          /\ Mentioned(s, k - 1) = {} => First(n[j].ops)
                          /\ j > 1 => \A a \in 1..Len(n[j].ops) : n[j].ops[a].path # "call"
  /\ s[k].calls # <<>> /\ Heard(s[k]) => 1 \in 1..Len(n)
  /\ \A i \in 1..MaxCalls : Good(s, i) =>
       /\ \A j, l \in 1..Len(n) : HasArg(n[j].ops, i) /\ HasArg(n[l].ops, i) => j = l
       /\ SaysArgs(s, k, i) /\ Heard(s[k]) => \E j \in 1..Len(n) : HasArg(n[j].ops, i)

\* So does the patch of a fragment alone.
LEMMA FragmentSays ==
  ASSUME NEW s, IsScript(s), NEW k \in 1..Len(s), NEW h \in 1..Len(s[k].calls), s[k].calls[h].args = "mid"
  PROVE  LET ops == <<Op("args/-", s[k].calls[h].i, k)>>
         IN CallsPart(s, k, ops) /\ First(ops) /\ Len(ops) = 1 /\ ops[1].path # "call"
<1> DEFINE o == Op("args/-", s[k].calls[h].i, k)
           ops == <<o>>
<1>1. s[k].calls[h].i \in 1..MaxCalls /\ k \in Nat /\ DOMAIN s[k].calls = 1..Len(s[k].calls)
  BY ScriptIs
<1>2. o \in CallOp /\ o.path = "args/-" /\ o.v = k /\ From(s[k].calls[h], o)
  BY <1>1 DEF Op, CallOp, From
<1> HIDE DEF o
<1>3. ops \in Seq(CallOp) /\ Len(ops) = 1 /\ ops[1] = o
  BY <1>2
<1> HIDE DEF ops
<1>4. CallsPart(s, k, ops)
  <2>1. \A n \in 1..Len(ops) : n = 1
    BY <1>3
  <2>2. /\ ops[1].v = k
        /\ \E g \in DOMAIN s[k].calls : From(s[k].calls[g], ops[1])
        /\ ops[1].path = "args/-"
    BY <1>1, <1>2, <1>3
  <2>3. \A i \in 1..MaxCalls : Single(s, k, ops, i)
    BY <1>3, <2>1, <2>2 DEF Single
  <2> QED
    BY <1>3, <2>1, <2>2, <2>3 DEF CallsPart
<1>5. First(ops) /\ ops[1].path # "call"
  BY <1>2, <1>3 DEF First
<1> QED
  BY <1>3, <1>4, <1>5 DEF ops, o

\* What is emitted of a chunk's calls says what they say.
LEMMA CallMsgsSay ==
  ASSUME NEW r \in Runs, NEW s, IsScript(s), NEW k \in 1..Len(s)
  PROVE  CallsSay(s, k, CallMsgsOf(r, s[k], k))
<1> DEFINE c == s[k]
           H == 1..Len(c.calls)
<1>1. DOMAIN c.calls = H /\ Len(c.calls) \in Nat /\ c.calls \in Seq(CallChunk)
  BY ScriptIs
<1>2. CASE ToolCalls(c) # {}
  <2> DEFINE F == FlattenSeq([j \in DOMAIN c.calls |-> CallOps(c.calls[j], k)])
             n == ChunkMsg(Message(r), F)
  <2>1. c.calls # <<>>
    BY <1>2 DEF ToolCalls, ToSet
  <2>2. PICK off : Flat(s, k, F, off)
    BY <2>1, FlatIs
  <2> HIDE DEF F
  <2>3. CallsPart(s, k, F)
    BY <1>2, <2>2, FlatCalls
  <2>4. F # <<>>
    <3>1. 1 \in H
      BY <1>1, <2>1, EmptySeq
    <3>2. 1 \in 1..Len(CallOps(c.calls[1], k))
      <4> DEFINE x == Len(CallOps(c.calls[1], k))
      <4>1. x \in 1..2
        BY <3>1, CallOpsOf
      <4> HIDE DEF x
      <4>2. 1 \in 1..x
        BY <4>1
      <4> QED
        BY <4>2 DEF x
    <3>3. off[1] + 1 \in 1..Len(F)
      BY <2>2, <3>1, <3>2 DEF Flat
    <3> QED
      BY <3>3
  <2>5. Mentioned(s, k - 1) = {} => First(F)
    BY <2>2, <2>4, FlatFirst
  <2>6. Len(n) = 1 /\ "ops" \in DOMAIN n[1] /\ n[1].ops = F
    BY DEF ChunkMsg
  <2> HIDE DEF n
  <2>7. \A j \in 1..Len(n) : j = 1
    BY <2>6
  <2>10. ASSUME NEW i \in 1..MaxCalls, SaysArgs(s, k, i)
         PROVE  HasArg(F, i)
    <3>1. PICK h \in H : c.calls[h].i = i /\ c.calls[h].args # "none"
      BY <1>1, <2>10 DEF SaysArgs, ToSet
    <3> DEFINE x == Len(CallOps(c.calls[h], k))
               o == CallOps(c.calls[h], k)[x]
    <3>2. /\ x \in 1..2
          /\ \A q \in 1..x : From(c.calls[h], CallOps(c.calls[h], k)[q])
          /\ o.path # "call"
      BY <3>1, CallOpsOf
    <3>3. x \in 1..x
      <4> HIDE DEF x
      <4> QED
        BY <3>2
    <3>4. off[h] + x \in 1..Len(F) /\ F[off[h] + x] = o
      BY <2>2, <3>3 DEF Flat
    <3>5. From(c.calls[h], o)
      BY <3>2, <3>3
    <3>6. o.i = i /\ o.path # "call"
      BY <3>1, <3>2, <3>5 DEF From
    <3>7. o.path \in {"call", "args", "args/-"}
      <4>1. F \in Seq(CallOp)
        BY <2>3 DEF CallsPart
      <4>2. o \in CallOp
        BY <3>4, <4>1
      <4> QED
        BY <4>2 DEF CallOp
    <3> QED
      BY <3>4, <3>6, <3>7 DEF HasArg, ArgOf
  <2>8. CallsSay(s, k, n)
    <3>1. 1 \in 1..Len(n)
      BY <2>6
    <3> QED
      BY <2>3, <2>5, <2>6, <2>7, <2>10, <3>1 DEF CallsSay
  <2>9. CallMsgsOf(r, c, k) = n
    BY <1>2 DEF CallMsgsOf, n, F
  <2> QED
    BY <2>8, <2>9
<1>3. CASE ToolCalls(c) = {} /\ c.kwargs
  <2> DEFINE ops == <<Op("args/-", c.calls[1].i, k)>>
             m == [ev |-> Message(r), ops |-> ops]
             n == [j \in H |-> m]
  <2>1. CallMsgsOf(r, c, k) = n
    <3>1. CallMsgsOf(r, c, k) = FragmentMsgs(r, c, k)
      BY <1>3 DEF CallMsgsOf
    <3>2. c.calls # <<>> => Head(c.calls) = c.calls[1]
      BY <1>1
    <3>3. CASE c.calls = <<>>
      <4>1. H = {}
        BY <1>1, <3>3
      <4>2. FragmentMsgs(r, c, k) = [j \in {} |-> [ev |-> Message(r), ops |-> <<Op("args/-", Head(c.calls).i, k)>>]]
        BY <1>1, <1>3, <4>1 DEF FragmentMsgs
      <4>3. n = [j \in {} |-> m]
        BY <4>1
      <4> QED
        BY <3>1, <4>2, <4>3
    <3>4. CASE c.calls # <<>>
      BY <1>1, <1>3, <3>1, <3>2, <3>4 DEF FragmentMsgs
    <3> QED
      BY <3>3, <3>4
  <2>2. Len(n) = Len(c.calls)
    BY <1>1
  <2>3. "ops" \in DOMAIN m /\ m.ops = ops
    OBVIOUS
  <2>4. ASSUME NEW j \in H
        PROVE  /\ CallsPart(s, k, ops) /\ First(ops) /\ n[j] = m
               /\ \A a \in 1..Len(ops) : ops[a].path # "call"
    <3>1. 1 \in H
      BY <1>1
    <3>2. c.calls[1].args = "mid"
      <4>1. c.calls[1] \in ToSet(c.calls)
        BY <1>1, <3>1 DEF ToSet
      <4> QED
        BY <1>3, <4>1 DEF ToolCalls
    <3>3. CallsPart(s, k, ops) /\ First(ops) /\ Len(ops) = 1 /\ ops[1].path # "call"
      BY <3>1, <3>2, FragmentSays
    <3> HIDE DEF ops
    <3>4. \A a \in 1..Len(ops) : a = 1
      BY <3>3
    <3> QED
      BY <3>3, <3>4
  <2>5. c.calls # <<>> => 1 \in 1..Len(n)
    BY <1>1, <2>2, EmptySeq
  <2>7. ops[1].i = c.calls[1].i /\ ops[1].path = "args/-" /\ Len(ops) = 1
    BY DEF Op
  <2> HIDE DEF n, m, ops
  <2>8. ASSUME NEW i \in 1..MaxCalls, Good(s, i)
        PROVE  /\ \A j, l \in 1..Len(n) : HasArg(n[j].ops, i) /\ HasArg(n[l].ops, i) => j = l
               /\ SaysArgs(s, k, i) => \E j \in 1..Len(n) : HasArg(n[j].ops, i)
    <3>1. ASSUME NEW j \in 1..Len(n), NEW l \in 1..Len(n), HasArg(n[j].ops, i)
          PROVE  j = l
      <4>1. n[j] = m /\ m.ops = ops /\ j \in H /\ l \in H /\ 1 \in H
        BY <1>1, <2>2, <2>3, <2>4
      <4>2. c.calls[1].i = i
        <5>1. PICK a \in 1..Len(ops) : ArgOf(ops[a], i)
          BY <3>1, <4>1 DEF HasArg
        <5> QED
          BY <2>7, <5>1 DEF ArgOf
      <4>3. Len(c.calls) = 1
        BY <1>3, <2>8, <4>1, <4>2, FragmentAlone
      <4> QED
        BY <4>1, <4>3
    <3>2. ASSUME SaysArgs(s, k, i)
          PROVE  \E j \in 1..Len(n) : HasArg(n[j].ops, i)
      <4>1. PICK h \in H : c.calls[h].i = i
        BY <1>1, <3>2 DEF SaysArgs, ToSet
      <4>2. h = 1
        BY <1>3, <2>8, <4>1, FragmentAlone
      <4>3. 1 \in 1..Len(n) /\ n[1].ops = ops
        BY <1>1, <2>2, <2>3, <2>4, <4>1, <4>2
      <4>4. 1 \in 1..Len(ops) /\ ArgOf(ops[1], i)
        BY <2>7, <4>1, <4>2 DEF ArgOf
      <4> QED
        BY <4>3, <4>4 DEF HasArg
    <3> QED
      BY <3>1, <3>2
  <2>6. CallsSay(s, k, n)
    BY <2>2, <2>3, <2>4, <2>5, <2>8 DEF CallsSay
  <2> QED
    BY <2>1, <2>6
<1>4. CASE ToolCalls(c) = {} /\ ~c.kwargs
  <2>1. CallMsgsOf(r, c, k) = <<>>
    BY <1>4 DEF CallMsgsOf, FragmentMsgs
  <2>2. ASSUME NEW i, SaysArgs(s, k, i), Heard(c)
        PROVE  FALSE
    <3>1. c.calls # <<>>
      BY <2>2 DEF SaysArgs, ToSet
    <3> QED
      BY <1>4, <2>2, <3>1 DEF Heard
  <2>3. c.calls # <<>> => ~Heard(c)
    BY <1>4 DEF Heard
  <2>4. CallsSay(s, k, <<>>)
    <3>1. \A j \in 1..Len(<<>>) : FALSE
      OBVIOUS
    <3> QED
      BY <2>2, <2>3, <3>1 DEF CallsSay
  <2> QED
    BY <2>1, <2>4
<1>5. c.kwargs \in BOOLEAN
  BY ScriptIs
<1> QED
  BY <1>2, <1>3, <1>4, <1>5
-----------------------------------------------------------------------------
\* The j-th message of a queue is a chunk of an event.
ChunkOf(q, j, ev) == j \in 1..Len(q) /\ q[j].ev = ev /\ "ops" \in DOMAIN q[j]

\* What the messages say that a chunk becomes.
ChunkSays(s, k, ev, new) ==
  /\ \A j \in 1..Len(new) : ChunkOf(new, j, ev) =>
       /\ TextPart(s, k, new[j].ops) \/ CallsPart(s, k, new[j].ops)
       /\ Mentioned(s, k - 1) = {} => First(new[j].ops)
       /\ \A a \in 1..Len(new[j].ops) : new[j].ops[a].path = "call" =>
            \A i \in 1..(j - 1) : ChunkOf(new, i, ev) => TextPart(s, k, new[i].ops)
  /\ \A i, j \in 1..Len(new) : Queued(new, i, ev, "/-") /\ Queued(new, j, ev, "/-") => i = j
  /\ s[k].text => \E j \in 1..Len(new) : Queued(new, j, ev, "/-")
  /\ s[k].calls # <<>> /\ Heard(s[k]) => \E j \in 1..Len(new) : ChunkOf(new, j, ev)
  /\ \A i \in 1..MaxCalls : Good(s, i) =>
       /\ \A j, l \in 1..Len(new) :
            /\ ChunkOf(new, j, ev) /\ HasArg(new[j].ops, i)
            /\ ChunkOf(new, l, ev) /\ HasArg(new[l].ops, i)
            => j = l
       /\ SaysArgs(s, k, i) /\ Heard(s[k]) =>
            \E j \in 1..Len(new) : ChunkOf(new, j, ev) /\ HasArg(new[j].ops, i)

\* What is emitted of a chunk says what the chunk says.
LEMMA EmittedSays ==
  ASSUME NEW r \in Runs, NEW s, IsScript(s), NEW k \in 1..Len(s)
  PROVE  ChunkSays(s, k, Message(r), Emitted(r, s[k], k))
<1> DEFINE c == s[k]
           ev == Message(r)
           a == IF c.text THEN TextMsgs(r, k) ELSE <<>>
           n == CallMsgsOf(r, c, k)
           F == Emitted(r, c, k)
           N == IF c.text THEN IF r \in typing THEN 1 ELSE 2 ELSE 0
<1>1. F = a \o n
  BY DEF Emitted, CallMsgsOf
<1>2. Sayable(c) /\ k \in Nat
  BY ScriptIs
<1>3. CallsSay(s, k, n)
  BY CallMsgsSay
<1>4. /\ n \in Seq(Msg)
      /\ \A j \in 1..Len(n) : /\ n[j].ev = ev /\ "ops" \in DOMAIN n[j]
                              /\ What(n[j]) \in {"call", "args", "args/-"}
  <2> HIDE DEF c
  <2> QED
    BY <1>2, CallMsgs DEF CallMsgsOf
<1> HIDE DEF n
<1>5. /\ a \in Seq(Msg) /\ Len(a) = N
      /\ \A j \in 1..Len(a) : a[j].ev = ev /\ (What(a[j]) = "/-" <=> j = N)
      /\ \A j \in 1..Len(a) : "ops" \in DOMAIN a[j] => a[j].ops = <<Op("/-", 0, k)>> /\ c.text
  <2>1. CASE c.text
    <3> DEFINE x == TextMsgs(r, k)
    <3>1. /\ x \in Seq(Msg) /\ Len(x) = IF r \in typing THEN 1 ELSE 2
          /\ \A j \in 1..Len(x) : /\ x[j].ev = Message(r)
                                  /\ What(x[j]) = IF r \notin typing /\ j = 1 THEN "typing" ELSE "/-"
                                  /\ "ops" \in DOMAIN x[j] => x[j].ops = <<Op("/-", 0, k)>>
      BY <1>2, TextMsgsIs
    <3>2. a = x
      BY <2>1
    <3> HIDE DEF x, a
    <3>3. Len(x) = N
      BY <2>1, <3>1
    <3>4. \A j \in 1..Len(x) : What(x[j]) = "/-" <=> j = N
      BY <2>1, <3>1, <3>3
    <3> QED
      BY <2>1, <3>1, <3>2, <3>3, <3>4
  <2>2. CASE ~c.text
    <3>1. a = <<>>
      BY <2>2
    <3> QED
      BY <2>2, <3>1
  <2> QED
    BY <2>1, <2>2
<1> HIDE DEF a
<1>6. Len(a) \in Nat /\ Len(n) \in Nat
  BY <1>4, <1>5, LenProperties
<1>7. /\ Len(F) = Len(a) + Len(n)
      /\ \A j \in 1..Len(a) : j \in 1..Len(F) /\ F[j] = a[j]
      /\ \A j \in 1..Len(n) : Len(a) + j \in 1..Len(F) /\ F[Len(a) + j] = n[j]
      /\ \A j \in 1..Len(F) : j > Len(a) => j - Len(a) \in 1..Len(n) /\ F[j] = n[j - Len(a)]
  <2> HIDE DEF F
  <2>1. Put(a, n, F)
    BY <1>1, <1>4, <1>5, Puts
  <2> QED
    BY <2>1 DEF Put
<1> HIDE DEF F, c, ev
<1>8. ASSUME NEW j \in 1..Len(F)
      PROVE  \/ j \in 1..Len(a) /\ F[j] = a[j]
             \/ j > Len(a) /\ j - Len(a) \in 1..Len(n) /\ F[j] = n[j - Len(a)]
  BY <1>6, <1>7
<1>9. ASSUME NEW j \in 1..Len(a), "ops" \in DOMAIN a[j]
      PROVE  TextPart(s, k, a[j].ops) /\ First(a[j].ops) /\ Len(a[j].ops) = 1 /\ a[j].ops[1].path # "call"
  <2> DEFINE o == Op("/-", 0, k)
  <2>1. c.text /\ a[j].ops = <<o>> /\ o.path = "/-"
    BY <1>5, <1>9 DEF Op
  <2>2. TextPart(s, k, a[j].ops)
    BY <2>1 DEF TextPart, c
  <2> HIDE DEF o
  <2>3. First(a[j].ops)
    BY <2>1 DEF First
  <2> QED
    BY <2>1, <2>2, <2>3
<1>10. ASSUME NEW j \in 1..Len(F), ChunkOf(F, j, ev)
       PROVE  /\ TextPart(s, k, F[j].ops) \/ CallsPart(s, k, F[j].ops)
              /\ Mentioned(s, k - 1) = {} => First(F[j].ops)
              /\ \A b \in 1..Len(F[j].ops) : F[j].ops[b].path = "call" =>
                   \A i \in 1..(j - 1) : ChunkOf(F, i, ev) => TextPart(s, k, F[i].ops)
  <2>1. CASE j \in 1..Len(a) /\ F[j] = a[j]
    <3>1. TextPart(s, k, F[j].ops) /\ First(F[j].ops) /\ Len(F[j].ops) = 1 /\ F[j].ops[1].path # "call"
      BY <1>9, <1>10, <2>1 DEF ChunkOf
    <3>2. \A b \in 1..Len(F[j].ops) : b = 1
      BY <3>1
    <3> QED
      BY <3>1, <3>2
  <2>2. CASE j > Len(a) /\ j - Len(a) \in 1..Len(n) /\ F[j] = n[j - Len(a)]
    <3>1. /\ CallsPart(s, k, F[j].ops) /\ (Mentioned(s, k - 1) = {} => First(F[j].ops))
          /\ j - Len(a) > 1 => \A b \in 1..Len(F[j].ops) : F[j].ops[b].path # "call"
      BY <1>3, <2>2 DEF CallsSay
    <3>2. ASSUME NEW b \in 1..Len(F[j].ops), F[j].ops[b].path = "call", NEW i \in 1..(j - 1), ChunkOf(F, i, ev)
          PROVE  TextPart(s, k, F[i].ops)
      <4>1. ~(j - Len(a) > 1)
        BY <3>1, <3>2
      <4>2. i \in 1..Len(a) /\ F[i] = a[i]
        BY <1>6, <1>7, <2>2, <4>1
      <4> QED
        BY <1>9, <3>2, <4>2 DEF ChunkOf
    <3> QED
      BY <3>1, <3>2
  <2> QED
    BY <1>8, <2>1, <2>2
<1>11. ASSUME NEW j \in 1..Len(F), Queued(F, j, ev, "/-")
       PROVE  j = N
  <2>1. CASE j \in 1..Len(a) /\ F[j] = a[j]
    BY <1>5, <1>11, <2>1 DEF Queued
  <2>2. CASE j > Len(a) /\ j - Len(a) \in 1..Len(n) /\ F[j] = n[j - Len(a)]
    BY <1>4, <1>11, <2>2 DEF Queued
  <2> QED
    BY <1>8, <2>1, <2>2
<1>12. ASSUME c.text
       PROVE  \E j \in 1..Len(F) : Queued(F, j, ev, "/-")
  <2>1. N \in 1..Len(a)
    BY <1>5, <1>12
  <2>2. Queued(F, N, ev, "/-") /\ N \in 1..Len(F)
    <3> HIDE DEF N
    <3> QED
      BY <1>5, <1>7, <2>1 DEF Queued
  <2> QED
    BY <2>2
<1>13. ASSUME c.calls # <<>>, Heard(c)
       PROVE  \E j \in 1..Len(F) : ChunkOf(F, j, ev)
  <2>1. 1 \in 1..Len(n)
    BY <1>3, <1>13 DEF CallsSay, c
  <2>2. Len(a) + 1 \in 1..Len(F) /\ F[Len(a) + 1] = n[1] /\ n[1].ev = ev /\ "ops" \in DOMAIN n[1]
    BY <1>4, <1>7, <2>1
  <2> DEFINE j == Len(a) + 1
  <2>3. ChunkOf(F, j, ev) /\ j \in 1..Len(F)
    <3>1. j \in 1..Len(F) /\ F[j] = n[1]
      BY <2>2
    <3> HIDE DEF j
    <3> QED
      BY <2>2, <3>1 DEF ChunkOf
  <2> QED
    BY <2>3
<1> HIDE DEF N
<1>14. \A i, j \in 1..Len(F) : Queued(F, i, ev, "/-") /\ Queued(F, j, ev, "/-") => i = j
  BY <1>11
<1>15. /\ \A j \in 1..Len(F) : ChunkOf(F, j, ev) =>
            /\ TextPart(s, k, F[j].ops) \/ CallsPart(s, k, F[j].ops)
            /\ Mentioned(s, k - 1) = {} => First(F[j].ops)
            /\ \A b \in 1..Len(F[j].ops) : F[j].ops[b].path = "call" =>
                 \A i \in 1..(j - 1) : ChunkOf(F, i, ev) => TextPart(s, k, F[i].ops)
  BY <1>10
<1>16. /\ s[k].text => \E j \in 1..Len(F) : Queued(F, j, ev, "/-")
       /\ s[k].calls # <<>> /\ Heard(s[k]) => \E j \in 1..Len(F) : ChunkOf(F, j, ev)
  BY <1>12, <1>13 DEF c
<1>18. ASSUME NEW i \in 1..MaxCalls, Good(s, i)
       PROVE  /\ \A j, l \in 1..Len(F) :
                   /\ ChunkOf(F, j, ev) /\ HasArg(F[j].ops, i)
                   /\ ChunkOf(F, l, ev) /\ HasArg(F[l].ops, i)
                   => j = l
              /\ SaysArgs(s, k, i) /\ Heard(c) =>
                   \E j \in 1..Len(F) : ChunkOf(F, j, ev) /\ HasArg(F[j].ops, i)
  <2>1. ASSUME NEW j \in 1..Len(F), ChunkOf(F, j, ev), HasArg(F[j].ops, i)
        PROVE  j > Len(a) /\ j - Len(a) \in 1..Len(n) /\ F[j] = n[j - Len(a)]
    <3>1. ASSUME j \in 1..Len(a), F[j] = a[j]
          PROVE  FALSE
      <4>1. a[j].ops = <<Op("/-", 0, k)>>
        BY <1>5, <2>1, <3>1 DEF ChunkOf
      <4>2. PICK b \in 1..Len(F[j].ops) : ArgOf(F[j].ops[b], i)
        BY <2>1 DEF HasArg
      <4>3. b = 1 /\ F[j].ops[1].path = "/-"
        BY <3>1, <4>1, <4>2 DEF Op
      <4> QED
        BY <4>2, <4>3 DEF ArgOf
    <3> QED
      BY <1>8, <3>1
  <2>2. ASSUME NEW j \in 1..Len(F), ChunkOf(F, j, ev), HasArg(F[j].ops, i),
               NEW l \in 1..Len(F), ChunkOf(F, l, ev), HasArg(F[l].ops, i)
        PROVE  j = l
    <3>1. /\ j - Len(a) \in 1..Len(n) /\ HasArg(n[j - Len(a)].ops, i)
          /\ l - Len(a) \in 1..Len(n) /\ HasArg(n[l - Len(a)].ops, i)
      BY <2>1, <2>2
    <3>2. j - Len(a) = l - Len(a)
      BY <1>3, <1>18, <3>1 DEF CallsSay
    <3> QED
      BY <1>6, <3>2
  <2>3. ASSUME SaysArgs(s, k, i), Heard(c)
        PROVE  \E j \in 1..Len(F) : ChunkOf(F, j, ev) /\ HasArg(F[j].ops, i)
    <3>1. PICK l \in 1..Len(n) : HasArg(n[l].ops, i)
      BY <1>3, <1>18, <2>3 DEF CallsSay, c
    <3> DEFINE j == Len(a) + l
    <3>2. j \in 1..Len(F) /\ F[j] = n[l] /\ n[l].ev = ev /\ "ops" \in DOMAIN n[l]
      BY <1>4, <1>7, <3>1
    <3> HIDE DEF j
    <3>3. ChunkOf(F, j, ev) /\ HasArg(F[j].ops, i)
      BY <3>1, <3>2 DEF ChunkOf
    <3> QED
      BY <3>2, <3>3
  <2> QED
    BY <2>2, <2>3
<1>17. ChunkSays(s, k, ev, F)
  BY <1>14, <1>15, <1>16, <1>18 DEF ChunkSays, c
<1> QED
  BY <1>17 DEF F, ev, c
-----------------------------------------------------------------------------
\* What a document has of its i-th call: the arguments, whether it was opened, and whether
\* it takes arguments.
ArgsOf(d, i) == IF i <= Len(d.calls) THEN d.calls[i].args ELSE <<>>
OpenedIn(d, i) == i <= Len(d.calls) /\ d.calls[i].opened
TakesArgs(d, i) == d.root # "list" /\ i <= Len(d.calls) /\ d.calls[i].form # "missing"

EntryOf(calls, i) == IF i <= Len(calls) THEN calls[i] ELSE Blank

\* The entries that a patch of a call leaves and the one that it makes, a call being opened
\* behind those there are.
LEMMA CallEntry ==
  ASSUME NEW calls \in Seq(Entry), NEW op \in CallOp, op.path = "call" => op.i = Len(calls) + 1
  PROVE  LET W == WithCall(calls, op)
             e == EntryOf(calls, op.i)
         IN /\ W \in Seq(Entry) /\ Len(W) = IF op.i <= Len(calls) THEN Len(calls) ELSE op.i
            /\ op.path = "call" => W[op.i] = Opened
            /\ op.path = "args" => W[op.i] = Replaced(e, op.v)
            /\ op.path = "args/-" => W[op.i] = Fragment(e, op.v)
            /\ \A p \in 1..Len(W) : p # op.i => W[p] = EntryOf(calls, p)
<1> DEFINE W == WithCall(calls, op)
           L == Len(calls)
           i == op.i
           w == WithEntry(calls, i)
           e == EntryOf(calls, i)
<1>1. /\ L \in Nat /\ i \in 1..MaxCalls /\ i \in Nat /\ i >= 1 /\ op.v \in Nat
      /\ op.path \in {"call", "args", "args/-"}
  BY MaxCallsNat, LenProperties DEF CallOp
<1>2. CASE op.path = "call"
  <2>1. i \in 1..(L + 1) /\ i = L + 1 /\ W = InsertAt(calls, i, Opened)
    <3>1. i = L + 1
      BY <1>2
    <3>2. W = InsertAt(calls, i, Opened)
      BY <1>1, <1>2, <3>1, CallIs
    <3>3. i \in 1..(L + 1)
      BY <1>1, <3>1
    <3> QED
      BY <3>1, <3>2, <3>3
  <2>2. /\ W \in Seq(Entry) /\ Len(W) = L + 1 /\ W[i] = Opened
        /\ \A p \in 1..(i - 1) : W[p] = calls[p]
    BY <2>1, InsertIs
  <2> HIDE DEF W, L, i
  <2>3. ASSUME NEW p \in 1..Len(W), p # i
        PROVE  W[p] = EntryOf(calls, p)
    <3>1. p \in 1..(i - 1) /\ p <= L
      BY <1>1, <2>1, <2>2, <2>3
    <3> QED
      BY <2>2, <3>1 DEF EntryOf, L
  <2>4. Len(W) = IF i <= L THEN L ELSE i
    BY <1>1, <2>1, <2>2
  <2> QED
    BY <1>2, <2>2, <2>3, <2>4 DEF W, L, i
<1>3. CASE op.path # "call"
  <2>1. /\ w \in Seq(Entry) /\ i \in 1..Len(w) /\ Len(w) = IF i <= L THEN L ELSE i
        /\ \A p \in 1..Len(w) : w[p] = IF p <= L THEN calls[p] ELSE Blank
    BY <1>1, WithEntryIs
  <2>2. \A p \in 1..Len(w) : w[p] = EntryOf(calls, p)
    BY <2>1 DEF EntryOf
  <2>3. w[i] = e /\ w[i] \in Entry
    BY <2>1, <2>2
  <2> DEFINE x == IF op.path = "args" THEN Replaced(e, op.v) ELSE Fragment(e, op.v)
  <2>4. W = [w EXCEPT ![i] = x]
    BY <1>1, <1>3, <2>3, CallIs
  <2>5. x \in Entry
    BY <1>1, <2>3, EntryTyped
  <2> HIDE DEF x, w, W
  <2>6. W \in Seq(Entry) /\ Len(W) = Len(w) /\ W[i] = x /\ \A p \in 1..Len(w) : p # i => W[p] = w[p]
    BY <2>1, <2>4, <2>5, ExceptSeq
  <2> QED
    BY <1>1, <1>3, <2>1, <2>2, <2>6 DEF x, W
<1> QED
  BY <1>2, <1>3

\* What one patch of a call does to a document.
Stepped(doc, op, d) ==
  /\ d \in Doc /\ d.text = doc.text /\ d.begun = doc.begun
  /\ doc.root # "list" /\ d.root = "dict" /\ d.calls # <<>>
  /\ Len(d.calls) \in {Len(doc.calls), op.i}
  /\ TakesArgs(d, op.i)
  /\ \A i \in 1..MaxCalls :
       /\ ArgsOf(d, i) = IF ~ArgOf(op, i) THEN ArgsOf(doc, i)
                         ELSE IF op.path = "args" THEN <<op.v>> ELSE Append(ArgsOf(doc, i), op.v)
       /\ OpenedIn(d, i) <=> OpenedIn(doc, i) \/ CallOf(op, i)
       /\ TakesArgs(doc, i) => TakesArgs(d, i)

\* A patch that applies does it.
LEMMA CallStep ==
  ASSUME NEW doc \in Doc, NEW op \in CallOp, Applies(doc, op), op.path = "call" => Len(doc.calls) < op.i
  PROVE  Stepped(doc, op, Apply(doc, op))
<1> DEFINE calls == doc.calls
           L == Len(calls)
           i == op.i
           d == Apply(doc, op)
           W == WithCall(calls, op)
           e == EntryOf(calls, i)
<1>1. /\ calls \in Seq(Entry) /\ L \in Nat /\ i \in 1..MaxCalls /\ i \in Nat /\ i >= 1 /\ op.v \in Nat
      /\ op.path \in {"call", "args", "args/-"}
  BY MaxCallsNat, LenProperties DEF Doc, CallOp
<1>2. /\ doc.root # "list" /\ (op.path = "call" => i <= L + 1)
      /\ d = [doc EXCEPT !.root = "dict", !.calls = W] /\ d \in Doc
  BY ApplyIs DEF AnyOp
<1>3. op.path = "call" => i = L + 1
  BY <1>1, <1>2
<1>4. /\ W \in Seq(Entry) /\ Len(W) = IF i <= L THEN L ELSE i
      /\ op.path = "call" => W[i] = Opened
      /\ op.path = "args" => W[i] = Replaced(e, op.v)
      /\ op.path = "args/-" => W[i] = Fragment(e, op.v)
      /\ \A p \in 1..Len(W) : p # i => W[p] = EntryOf(calls, p)
  BY <1>1, <1>3, CallEntry
<1> HIDE DEF W
<1>5. d.text = doc.text /\ d.begun = doc.begun /\ d.root = "dict" /\ d.calls = W
  BY <1>2 DEF Doc
<1> HIDE DEF d
<1>6. e \in Entry
  <2>1. i <= L => i \in 1..L
    BY <1>1
  <2> QED
    BY <1>1, <2>1, BlankTyped DEF EntryOf
<1>7. /\ i \in 1..Len(W)
      /\ op.path = "args" => W[i].form = "dict" /\ W[i].opened = e.opened /\ W[i].args = <<op.v>>
      /\ op.path = "args/-" => W[i].form \in {"list", "dict"} /\ W[i].opened = e.opened
                                /\ W[i].args = Append(e.args, op.v)
      /\ op.path = "call" => W[i].form = "list" /\ W[i].opened /\ W[i].args = <<>>
  <2>1. i \in 1..Len(W)
    BY <1>1, <1>4
  <2> HIDE DEF e, i
  <2>5. /\ Replaced(e, op.v).form = "dict" /\ Replaced(e, op.v).opened = e.opened
        /\ Replaced(e, op.v).args = <<op.v>>
        /\ Fragment(e, op.v).form \in {"list", "dict"} /\ Fragment(e, op.v).opened = e.opened
        /\ Fragment(e, op.v).args = Append(e.args, op.v)
    BY <1>1, <1>6, EntryTyped
  <2>2. CASE op.path = "args"
    BY <1>4, <2>1, <2>2, <2>5
  <2>3. CASE op.path = "args/-"
    BY <1>4, <2>1, <2>3, <2>5
  <2>4. CASE op.path = "call"
    BY <1>4, <2>1, <2>4 DEF Opened
  <2> QED
    BY <1>1, <2>2, <2>3, <2>4
<1>8. W # <<>> /\ Len(W) \in {L, i} /\ L <= Len(W)
  <2>1. Len(W) # 0 /\ Len(W) \in {L, i} /\ L <= Len(W)
    BY <1>1, <1>4
  <2> QED
    BY <1>4, <2>1, EmptySeq
<1>9. TakesArgs(d, i)
  BY <1>1, <1>5, <1>7 DEF TakesArgs
<1>10. e.args = ArgsOf(doc, i) /\ (e.opened <=> OpenedIn(doc, i))
  BY DEF EntryOf, ArgsOf, OpenedIn, Blank
<1>11. ASSUME NEW j \in 1..MaxCalls
       PROVE  /\ ArgsOf(d, j) = IF ~ArgOf(op, j) THEN ArgsOf(doc, j)
                                ELSE IF op.path = "args" THEN <<op.v>> ELSE Append(ArgsOf(doc, j), op.v)
              /\ OpenedIn(d, j) <=> OpenedIn(doc, j) \/ CallOf(op, j)
              /\ TakesArgs(doc, j) => TakesArgs(d, j)
  <2>1. j \in Nat /\ j >= 1
    BY MaxCallsNat
  <2>2. CASE j = i
    <3>1. ArgsOf(d, j) = W[i].args /\ (OpenedIn(d, j) <=> W[i].opened)
      BY <1>5, <1>7, <2>2 DEF ArgsOf, OpenedIn
    <3>2. op.path = "call" => ArgsOf(doc, i) = <<>> /\ ~OpenedIn(doc, i)
      BY <1>1, <1>3 DEF ArgsOf, OpenedIn
    <3>3. CASE op.path = "call"
      BY <1>7, <1>9, <2>2, <3>1, <3>2, <3>3 DEF ArgOf, CallOf
    <3>4. CASE op.path # "call"
      BY <1>1, <1>7, <1>9, <1>10, <2>2, <3>1, <3>4 DEF ArgOf, CallOf
    <3> QED
      BY <3>3, <3>4
  <2>3. CASE j # i
    <3>1. ~ArgOf(op, j) /\ ~CallOf(op, j)
      BY <2>3 DEF ArgOf, CallOf
    <3>2. CASE j <= L
      <4>1. j \in 1..Len(W) /\ j <= Len(W) /\ W[j] = calls[j]
        BY <1>1, <1>4, <1>8, <2>1, <2>3, <3>2 DEF EntryOf
      <4> QED
        BY <1>5, <3>1, <3>2, <4>1 DEF ArgsOf, OpenedIn, TakesArgs
    <3>3. CASE ~(j <= L)
      <4>1. j <= Len(W) => W[j] = Blank
        BY <1>1, <1>4, <2>1, <2>3, <3>3 DEF EntryOf
      <4> QED
        BY <1>5, <3>1, <3>3, <4>1 DEF ArgsOf, OpenedIn, TakesArgs, Blank
    <3> QED
      BY <3>2, <3>3
  <2> QED
    BY <2>2, <2>3
<1> QED
  BY <1>2, <1>5, <1>8, <1>9, <1>11 DEF Stepped, d
-----------------------------------------------------------------------------
\* Arguments in the order of their chunks: each once, or at least none after a later one.
Lt(once, x, y) == x < y \/ (~once /\ x = y)
Ordered(once, args) == \A a, b \in 1..Len(args) : a < b => Lt(once, args[a], args[b])
Under(once, args, k) == \A a \in 1..Len(args) : Lt(once, args[a], k)
Has(args, k) == \E a \in 1..Len(args) : args[a] = k
Among(args, old, k) == \A a \in 1..Len(args) : args[a] = k \/ Has(old, args[a])
Keeps(args, old) == \A b \in 1..Len(old) : Has(args, old[b])

\* A sequence with one more at the end.
LEMMA AppendIs ==
  ASSUME NEW text \in Seq(Nat), NEW v \in Nat
  PROVE  /\ Len(text) \in Nat /\ Len(Append(text, v)) = Len(text) + 1
         /\ \A a \in 1..Len(text) : a \in 1..Len(Append(text, v)) /\ Append(text, v)[a] = text[a]
         /\ Len(text) + 1 \in 1..Len(Append(text, v)) /\ Append(text, v)[Len(text) + 1] = v
         /\ \A a \in 1..Len(Append(text, v)) : a \in 1..Len(text) \/ a = Len(text) + 1
<1> DEFINE L == Len(text)
           t == Append(text, v)
<1>1. L \in Nat /\ Len(t) = L + 1 /\ \A a \in 1..L : t[a] = text[a]
  BY AppendProperties, LenProperties
<1>2. t[L + 1] = v
  BY AppendProperties
<1> HIDE DEF L, t
<1>3. \A a \in 1..L : a \in 1..Len(t)
  BY <1>1
<1>4. L + 1 \in 1..Len(t) /\ \A a \in 1..Len(t) : a \in 1..L \/ a = L + 1
  BY <1>1
<1> QED
  BY <1>1, <1>2, <1>3, <1>4 DEF L, t

\* Arguments with those of a later chunk behind them, or with only these.
LEMMA MoreArgs ==
  ASSUME NEW once \in BOOLEAN, NEW old \in Seq(Nat), NEW k \in Nat, Under(once, old, k), Ordered(once, old)
  PROVE  /\ Append(old, k) \in Seq(Nat) /\ Ordered(once, Append(old, k)) /\ Has(Append(old, k), k)
         /\ Among(Append(old, k), old, k) /\ Keeps(Append(old, k), old)
<1> DEFINE new == Append(old, k)
<1>1. /\ Len(old) \in Nat /\ Len(new) = Len(old) + 1
      /\ \A a \in 1..Len(old) : a \in 1..Len(new) /\ new[a] = old[a]
      /\ Len(old) + 1 \in 1..Len(new) /\ new[Len(old) + 1] = k
      /\ \A a \in 1..Len(new) : a \in 1..Len(old) \/ a = Len(old) + 1
  BY AppendIs
<1>2. new \in Seq(Nat)
  OBVIOUS
<1> HIDE DEF new
<1>3. ASSUME NEW a \in 1..Len(new), NEW b \in 1..Len(new), a < b
      PROVE  Lt(once, new[a], new[b])
  <2>1. a \in 1..Len(old)
    BY <1>1, <1>3
  <2>2. CASE b \in 1..Len(old)
    BY <1>1, <1>3, <2>1, <2>2 DEF Ordered
  <2>3. CASE b = Len(old) + 1
    BY <1>1, <2>1, <2>3 DEF Under
  <2> QED
    BY <1>1, <2>2, <2>3
<1>4. Has(new, k) /\ Keeps(new, old)
  BY <1>1 DEF Has, Keeps
<1>5. Among(new, old, k)
  BY <1>1 DEF Among, Has
<1> QED
  BY <1>2, <1>3, <1>4, <1>5 DEF Ordered, new

\* The arguments of a document are numbers of chunks.
LEMMA ArgsTyped ==
  ASSUME NEW doc \in Doc, NEW i \in 1..MaxCalls
  PROVE  ArgsOf(doc, i) \in Seq(Nat)
<1>1. doc.calls \in Seq(Entry) /\ Len(doc.calls) \in Nat /\ i \in Nat /\ i >= 1
  BY MaxCallsNat, LenProperties DEF Doc
<1>2. <<>> \in Seq(Nat)
  OBVIOUS
<1>3. CASE i <= Len(doc.calls)
  <2>1. i \in 1..Len(doc.calls)
    BY <1>1, <1>3
  <2>2. doc.calls[i] \in Entry
    BY <1>1, <2>1, LenProperties
  <2>3. doc.calls[i].args \in Seq(Nat)
    BY <2>2 DEF Entry
  <2> QED
    BY <1>3, <2>3 DEF ArgsOf
<1>4. CASE ~(i <= Len(doc.calls))
  BY <1>2, <1>4 DEF ArgsOf
<1> QED
  BY <1>3, <1>4

\* What the first n patches of the k-th chunk made of a document, and of its i-th call.
Made(doc, ops, n, d) ==
  /\ d \in Doc /\ d.text = doc.text /\ d.begun = doc.begun
  /\ d.root = "list" <=> doc.root = "list"
  /\ (doc.root = "dict" => doc.calls # <<>>) => (d.root = "dict" => d.calls # <<>>)
  /\ Len(d.calls) = Len(doc.calls) \/ \E a \in 1..n : Len(d.calls) = ops[a].i
MadeArgs(s, k, doc, ops, i, n, d) ==
  LET old == ArgsOf(doc, i)
      args == ArgsOf(d, i)
  IN /\ Ordered(Good(s, i), args) /\ Among(args, old, k)
     /\ (\A b \in 1..n : ~ArgOf(ops[b], i)) => args = old
     /\ (\A b \in 1..n : ArgOf(ops[b], i) => ops[b].path # "args") => Keeps(args, old)
MadeOpen(s, k, doc, ops, i, n, acc) ==
  LET d == acc.doc
  IN /\ OpenedIn(d, i) => OpenedIn(doc, i) \/ OpenedBy(ops, n, i)
     /\ n > 0 /\ CallOf(ops[n], i) /\ OpenedIn(d, i) => acc.ok /\ TakesArgs(d, i)
     /\ Good(s, i) => \A b \in 2..n : ArgOf(ops[b], i) /\ CallOf(ops[b - 1], i) /\ OpenedIn(d, i) =>
                        Has(ArgsOf(d, i), k)

\* A patch of the chunk is of the chunk, and opens a call behind all those said before it.
LEMMA PatchIs ==
  ASSUME NEW s, NEW k, NEW doc \in Doc, NEW ops \in Seq(AnyOp), CallsPart(s, k, ops),
         \A a \in 1..Len(ops) : ops[a].path = "call" => Len(doc.calls) < ops[a].i,
         NEW m \in 1..Len(ops), NEW d, Made(doc, ops, m - 1, d)
  PROVE  /\ ops[m] \in CallOp /\ ops[m].v = k
         /\ ops[m].path = "call" => /\ Len(doc.calls) < ops[m].i /\ Len(d.calls) < ops[m].i
                                    /\ \A a \in 1..(m - 1) : ops[a].i < ops[m].i
<1>1. /\ ops[m] \in CallOp /\ ops[m].v = k
      /\ ops[m].path = "call" => \A a \in 1..(m - 1) : ops[a].i < ops[m].i
  BY LenProperties DEF CallsPart
<1>2. ops[m].path = "call" => Len(d.calls) < ops[m].i
  BY <1>1 DEF Made
<1> QED
  BY <1>1, <1>2

\* Each patch of the chunk goes on with the document.
LEMMA MadeNext ==
  ASSUME NEW s, NEW k, NEW doc \in Doc, NEW ops \in Seq(AnyOp), CallsPart(s, k, ops),
         \A a \in 1..Len(ops) : ops[a].path = "call" => Len(doc.calls) < ops[a].i,
         NEW m \in 1..Len(ops), NEW acc \in Outcome, Made(doc, ops, m - 1, acc.doc)
  PROVE  /\ Made(doc, ops, m, After(acc, ops[m]).doc)
         /\ acc.ok /\ Applies(acc.doc, ops[m]) => Stepped(acc.doc, ops[m], After(acc, ops[m]).doc)
<1> DEFINE d == acc.doc
           op == ops[m]
           d2 == After(acc, op).doc
<1>1. d2 = IF acc.ok /\ Applies(d, op) THEN Apply(d, op) ELSE d
  BY DEF After
<1>2. op \in CallOp /\ (op.path = "call" => Len(d.calls) < op.i)
  BY PatchIs
<1>3. d \in Doc /\ m \in 1..m /\ \A a \in 1..(m - 1) : a \in 1..m
  BY LenProperties DEF Outcome
<1> HIDE DEF d2, d, op
<1>4. CASE acc.ok /\ Applies(d, op)
  <2>1. d2 = Apply(d, op)
    BY <1>1, <1>4
  <2>2. Stepped(d, op, d2)
    BY <1>2, <1>3, <1>4, <2>1, CallStep
  <2>3. Made(doc, ops, m, d2)
    <3>1. Made(doc, ops, m - 1, d)
      BY DEF d
    <3> QED
      BY <1>3, <2>2, <3>1 DEF Made, Stepped, op
  <2> QED
    BY <2>2, <2>3 DEF d, d2, op
<1>5. CASE ~(acc.ok /\ Applies(d, op))
  <2>1. d2 = d
    BY <1>1, <1>5
  <2>2. Made(doc, ops, m - 1, d2)
    BY <2>1 DEF d
  <2>3. Made(doc, ops, m, d2)
    BY <1>3, <2>2 DEF Made
  <2> QED
    BY <1>5, <2>3 DEF d, d2, op
<1> QED
  BY <1>4, <1>5

\* So it does with the arguments of a call.
LEMMA MadeArgsNext ==
  ASSUME NEW s, NEW k \in Nat, NEW i \in 1..MaxCalls, NEW doc \in Doc, NEW ops \in Seq(AnyOp),
         CallsPart(s, k, ops),
         HasArg(ops, i) => Under(Good(s, i), ArgsOf(doc, i), k),
         NEW m \in 1..Len(ops), NEW d \in Doc, NEW d2 \in Doc,
         d2 = d \/ Stepped(d, ops[m], d2), MadeArgs(s, k, doc, ops, i, m - 1, d)
  PROVE  MadeArgs(s, k, doc, ops, i, m, d2)
<1> DEFINE op == ops[m]
           g == Good(s, i)
           old == ArgsOf(doc, i)
           args == ArgsOf(d, i)
           args2 == ArgsOf(d2, i)
<1>1. op \in CallOp /\ op.v = k /\ (g => Single(s, k, ops, i))
  BY LenProperties DEF CallsPart
<1>2. old \in Seq(Nat) /\ args \in Seq(Nat) /\ m \in 1..m /\ (\A a \in 1..(m - 1) : a \in 1..m /\ a \in 1..Len(ops))
  BY ArgsTyped, LenProperties
<1>3. /\ Ordered(g, args) /\ Among(args, old, k)
      /\ (\A b \in 1..(m - 1) : ~ArgOf(ops[b], i)) => args = old
      /\ (\A b \in 1..(m - 1) : ArgOf(ops[b], i) => ops[b].path # "args") => Keeps(args, old)
  BY DEF MadeArgs
<1>4. CASE args2 = args
  BY <1>2, <1>3, <1>4 DEF MadeArgs
<1>5. CASE args2 # args
  <2>1. Stepped(d, op, d2)
    BY <1>5
  <2>2. ArgOf(op, i) /\ args2 = IF op.path = "args" THEN <<k>> ELSE Append(args, k)
    <3>1. args2 = IF ~ArgOf(op, i) THEN args ELSE IF op.path = "args" THEN <<op.v>> ELSE Append(args, op.v)
      BY <2>1 DEF Stepped
    <3> HIDE DEF args, args2, op
    <3> QED
      BY <1>1, <1>5, <3>1
  <2>3. Under(g, old, k)
    BY <2>2 DEF HasArg
  <2> HIDE DEF old, args, args2, op
  <2>4. Under(g, args, k)
    <3>1. CASE g
      <4>1. \A b \in 1..(m - 1) : ~ArgOf(ops[b], i)
        <5>1. ASSUME NEW b \in 1..(m - 1), ArgOf(ops[b], i)
              PROVE  FALSE
          <6>1. b = m
            BY <1>1, <1>2, <2>2, <3>1, <5>1 DEF Single, op
          <6> QED
            BY <6>1
        <5> QED
          BY <5>1
      <4> QED
        BY <1>3, <2>3, <4>1
    <3>2. CASE ~g
      <4>1. ASSUME NEW a \in 1..Len(args)
            PROVE  Lt(g, args[a], k)
        <5>1. CASE args[a] = k
          BY <3>2, <5>1 DEF Lt
        <5>2. CASE Has(old, args[a])
          BY <2>3, <5>2 DEF Has, Under
        <5> QED
          BY <1>3, <5>1, <5>2 DEF Among
      <4> QED
        BY <4>1 DEF Under
    <3> QED
      BY <3>1, <3>2
  <2>5. CASE op.path = "args"
    <3>1. args2 = <<k>>
      BY <2>2, <2>5
    <3>2. Len(args2) = 1 /\ args2[1] = k
      BY <3>1
    <3>3. \A a \in 1..Len(args2) : a = 1
      BY <3>2
    <3> HIDE DEF g
    <3>4. Ordered(g, args2) /\ Among(args2, old, k)
      BY <3>2, <3>3 DEF Ordered, Among
    <3>5. ~(\A b \in 1..m : ~ArgOf(ops[b], i))
      BY <1>2, <2>2 DEF op
    <3>6. ~(\A b \in 1..m : ArgOf(ops[b], i) => ops[b].path # "args")
      BY <1>2, <2>2, <2>5 DEF op
    <3> QED
      BY <3>4, <3>5, <3>6 DEF MadeArgs, old, args2, g
  <2>6. CASE op.path # "args"
    <3>1. args2 = Append(args, k)
      BY <2>2, <2>6
    <3>2. g \in BOOLEAN
      BY DEF Good, AloneIn, Openable
    <3> HIDE DEF g
    <3>3. Ordered(g, args2) /\ Among(args2, args, k) /\ Keeps(args2, args) /\ Has(args2, k)
      BY <1>2, <1>3, <2>4, <3>1, <3>2, MoreArgs
    <3>4. Among(args2, old, k)
      BY <1>3, <3>3 DEF Among, Has
    <3>5. ~(\A b \in 1..m : ~ArgOf(ops[b], i))
      BY <1>2, <2>2 DEF op
    <3>6. ASSUME \A b \in 1..m : ArgOf(ops[b], i) => ops[b].path # "args"
          PROVE  Keeps(args2, old)
      <4>1. Keeps(args, old)
        BY <1>2, <1>3, <3>6
      <4> QED
        BY <3>3, <4>1 DEF Keeps, Has
    <3> QED
      BY <3>3, <3>4, <3>5, <3>6 DEF MadeArgs, old, args2, g
  <2> QED
    BY <2>5, <2>6
<1> QED
  BY <1>4, <1>5

\* And with whether it is open.
LEMMA MadeOpenNext ==
  ASSUME NEW s, NEW k \in Nat, NEW i \in 1..MaxCalls, NEW doc \in Doc, NEW ops \in Seq(AnyOp),
         CallsPart(s, k, ops),
         \A a \in 1..Len(ops) : ops[a].path = "call" => Len(doc.calls) < ops[a].i,
         NEW m \in 1..Len(ops), NEW acc \in Outcome, Made(doc, ops, m - 1, acc.doc),
         MadeOpen(s, k, doc, ops, i, m - 1, acc)
  PROVE  MadeOpen(s, k, doc, ops, i, m, After(acc, ops[m]))
<1> DEFINE op == ops[m]
           g == Good(s, i)
           d == acc.doc
           acc2 == After(acc, op)
           d2 == acc2.doc
<1>1. /\ op \in CallOp /\ op.v = k /\ (g => Single(s, k, ops, i))
      /\ op.path = "call" => /\ Len(doc.calls) < op.i /\ \A a \in 1..(m - 1) : ops[a].i < op.i
  BY PatchIs DEF CallsPart
<1>2. /\ m \in 1..m /\ m > 0 /\ (\A a \in 1..(m - 1) : a \in 1..m /\ a \in 1..Len(ops))
      /\ \A b \in 2..m : b = m \/ b \in 2..(m - 1)
      /\ i \in Nat /\ d \in Doc /\ Len(doc.calls) \in Nat
  BY LenProperties, MaxCallsNat DEF Outcome, Doc
<1>3. /\ OpenedIn(d, i) => OpenedIn(doc, i) \/ OpenedBy(ops, m - 1, i)
      /\ m - 1 > 0 /\ CallOf(ops[m - 1], i) /\ OpenedIn(d, i) => acc.ok /\ TakesArgs(d, i)
      /\ g => \A b \in 2..(m - 1) : ArgOf(ops[b], i) /\ CallOf(ops[b - 1], i) /\ OpenedIn(d, i) =>
                 Has(ArgsOf(d, i), k)
  BY DEF MadeOpen
<1>4. OpenedBy(ops, m - 1, i) => OpenedBy(ops, m, i)
  BY <1>2 DEF OpenedBy
<1>5. CallOf(op, i) => ~OpenedIn(d, i)
  <2> SUFFICES ASSUME CallOf(op, i), OpenedIn(d, i)
               PROVE  FALSE
    OBVIOUS
  <2>1. CASE OpenedIn(doc, i)
    BY <1>1, <1>2, <2>1 DEF CallOf, OpenedIn
  <2>2. CASE OpenedBy(ops, m - 1, i)
    <3>1. PICK a \in 1..(m - 1) : CallOf(ops[a], i)
      BY <2>2 DEF OpenedBy
    <3>2. i < i
      BY <1>1, <3>1 DEF CallOf
    <3> QED
      BY <1>2, <3>2
  <2> QED
    BY <1>3, <2>1, <2>2
<1>6. ASSUME m \in 2..m, ArgOf(op, i), CallOf(ops[m - 1], i), OpenedIn(d, i)
      PROVE  acc.ok /\ Applies(d, op)
  <2>1. acc.ok /\ TakesArgs(d, i)
    BY <1>2, <1>3, <1>6
  <2>2. op.i = i /\ op.path \in {"args", "args/-"}
    BY <1>6 DEF ArgOf
  <2>3. Applies(d, op)
    <3>1. WithEntry(d.calls, i) = d.calls
      BY <2>1 DEF TakesArgs, WithEntry
    <3> HIDE DEF op, d
    <3> QED
      BY <2>1, <2>2, <3>1 DEF TakesArgs, Applies
  <2> QED
    BY <2>1, <2>3
<1> HIDE DEF g, op
<1>7. CASE ~(acc.ok /\ Applies(d, op))
  <2>1. d2 = d
    BY <1>7 DEF After
  <2> HIDE DEF d2, d, acc2
  <2>2. ~(m > 0 /\ CallOf(ops[m], i) /\ OpenedIn(d2, i))
    BY <1>5, <2>1 DEF op
  <2>3. ASSUME g, NEW b \in 2..m, ArgOf(ops[b], i), CallOf(ops[b - 1], i), OpenedIn(d2, i)
        PROVE  Has(ArgsOf(d2, i), k)
    <3>1. CASE b = m
      BY <1>6, <1>7, <2>1, <2>3, <3>1 DEF op
    <3>2. CASE b \in 2..(m - 1)
      BY <1>3, <2>1, <2>3, <3>2
    <3> QED
      BY <1>2, <3>1, <3>2
  <2>4. OpenedIn(d2, i) => OpenedIn(doc, i) \/ OpenedBy(ops, m, i)
    BY <1>3, <1>4, <2>1
  <2> QED
    BY <2>2, <2>3, <2>4 DEF MadeOpen, g, d2, acc2, op
<1>8. CASE acc.ok /\ Applies(d, op)
  <2>1. Stepped(d, op, d2) /\ acc2.ok
    BY <1>8, MadeNext DEF After, op
  <2>2. d2 \in Doc
    BY <2>1 DEF Stepped
  <2> HIDE DEF d2, d, acc2
  <2>3. /\ ArgsOf(d2, i) = IF ~ArgOf(op, i) THEN ArgsOf(d, i)
                           ELSE IF op.path = "args" THEN <<op.v>> ELSE Append(ArgsOf(d, i), op.v)
        /\ OpenedIn(d2, i) <=> OpenedIn(d, i) \/ CallOf(op, i)
        /\ TakesArgs(d2, op.i)
    BY <2>1 DEF Stepped
  <2>4. OpenedIn(d2, i) => OpenedIn(doc, i) \/ OpenedBy(ops, m, i)
    <3>1. CallOf(op, i) => OpenedBy(ops, m, i)
      BY <1>2 DEF OpenedBy, op
    <3> QED
      BY <1>3, <1>4, <2>3, <3>1
  <2>5. m > 0 /\ CallOf(ops[m], i) /\ OpenedIn(d2, i) => acc2.ok /\ TakesArgs(d2, i)
    BY <2>1, <2>3 DEF CallOf, op
  <2>6. ASSUME g, NEW b \in 2..m, ArgOf(ops[b], i), CallOf(ops[b - 1], i), OpenedIn(d2, i)
        PROVE  Has(ArgsOf(d2, i), k)
    <3>1. CASE b = m
      <4>1. ArgOf(op, i)
        BY <2>6, <3>1 DEF op
      <4>2. ArgsOf(d2, i) = IF op.path = "args" THEN <<k>> ELSE Append(ArgsOf(d, i), k)
        BY <1>1, <2>3, <4>1
      <4>3. Has(<<k>>, k)
        <5>1. 1 \in 1..Len(<<k>>) /\ <<k>>[1] = k
          OBVIOUS
        <5> QED
          BY <5>1 DEF Has
      <4>4. Has(Append(ArgsOf(d, i), k), k)
        <5>1. ArgsOf(d, i) \in Seq(Nat)
          BY <1>2, ArgsTyped
        <5> QED
          BY <5>1, AppendIs DEF Has
      <4> QED
        BY <4>2, <4>3, <4>4
    <3>2. CASE b \in 2..(m - 1)
      <4>1. m # b /\ b \in 1..Len(ops) /\ b - 1 \in 1..(m - 1)
        BY <1>2, <3>2
      <4>2. ~ArgOf(op, i)
        BY <1>1, <2>6, <4>1 DEF Single, op
      <4>3. ~CallOf(op, i)
        BY <1>1, <1>2, <2>6, <4>1 DEF CallOf
      <4> QED
        BY <1>3, <2>3, <2>6, <3>2, <4>2, <4>3
    <3> QED
      BY <1>2, <3>1, <3>2
  <2> QED
    BY <2>4, <2>5, <2>6 DEF MadeOpen, g, d2, acc2, op
<1> QED
  BY <1>7, <1>8
-----------------------------------------------------------------------------
\* All patches of the calls of a chunk, also if one of them does not apply.
Worked(s, k, doc, ops, n, acc) ==
  /\ Made(doc, ops, n, acc.doc)
  /\ \A i \in 1..MaxCalls :
       /\ MadeOpen(s, k, doc, ops, i, n, acc)
       /\ Ordered(Good(s, i), ArgsOf(doc, i)) /\ (HasArg(ops, i) => Under(Good(s, i), ArgsOf(doc, i), k)) =>
            MadeArgs(s, k, doc, ops, i, n, acc.doc)

\* Before the first of them.
LEMMA WorkedNone ==
  ASSUME NEW s, NEW k, NEW doc \in Doc, NEW ops
  PROVE  Worked(s, k, doc, ops, 0, [ok |-> TRUE, doc |-> doc])
<1>1. Made(doc, ops, 0, doc)
  BY DEF Made
<1>2. ASSUME NEW i \in 1..MaxCalls
      PROVE  MadeOpen(s, k, doc, ops, i, 0, [ok |-> TRUE, doc |-> doc])
  <2>1. \A b \in 2..0 : FALSE
    OBVIOUS
  <2> QED
    BY <2>1 DEF MadeOpen
<1>3. ASSUME NEW i \in 1..MaxCalls, Ordered(Good(s, i), ArgsOf(doc, i))
      PROVE  MadeArgs(s, k, doc, ops, i, 0, doc)
  <2> DEFINE old == ArgsOf(doc, i)
  <2> HIDE DEF old
  <2>1. \A a \in 1..Len(old) : Has(old, old[a])
    BY DEF Has
  <2>2. Among(old, old, k) /\ Keeps(old, old)
    BY <2>1 DEF Among, Keeps
  <2> QED
    BY <1>3, <2>2 DEF MadeArgs, old
<1> QED
  BY <1>1, <1>2, <1>3 DEF Worked

\* After each of them.
LEMMA WorkedNext ==
  ASSUME NEW s, NEW k \in Nat, NEW doc \in Doc, NEW ops \in Seq(AnyOp), CallsPart(s, k, ops),
         \A a \in 1..Len(ops) : ops[a].path = "call" => Len(doc.calls) < ops[a].i,
         NEW m \in 1..Len(ops), NEW acc \in Outcome, Worked(s, k, doc, ops, m - 1, acc)
  PROVE  Worked(s, k, doc, ops, m, After(acc, ops[m]))
<1> DEFINE d == acc.doc
           acc2 == After(acc, ops[m])
           d2 == acc2.doc
<1>1. Made(doc, ops, m - 1, d)
  BY DEF Worked
<1>2. Made(doc, ops, m, d2) /\ (d2 = d \/ Stepped(d, ops[m], d2))
  <2>1. ~(acc.ok /\ Applies(d, ops[m])) => d2 = d
    BY DEF After
  <2>2. /\ Made(doc, ops, m, d2)
        /\ acc.ok /\ Applies(d, ops[m]) => Stepped(d, ops[m], d2)
    BY <1>1, MadeNext
  <2> QED
    BY <2>1, <2>2
<1>3. d \in Doc /\ d2 \in Doc
  BY <1>1, <1>2 DEF Made
<1> HIDE DEF d2
<1>4. ASSUME NEW i \in 1..MaxCalls
      PROVE  MadeOpen(s, k, doc, ops, i, m, acc2)
  BY <1>1, MadeOpenNext DEF Worked
<1> HIDE DEF acc2, d
<1>5. ASSUME NEW i \in 1..MaxCalls, Ordered(Good(s, i), ArgsOf(doc, i)),
             HasArg(ops, i) => Under(Good(s, i), ArgsOf(doc, i), k)
      PROVE  MadeArgs(s, k, doc, ops, i, m, d2)
  <2>1. MadeArgs(s, k, doc, ops, i, m - 1, d)
    BY <1>5 DEF Worked, d
  <2> QED
    BY <1>2, <1>3, <1>5, <2>1, MadeArgsNext
<1> QED
  BY <1>2, <1>4, <1>5 DEF Worked, d2, acc2

\* After all of them.
LEMMA CallsApplied ==
  ASSUME NEW s, NEW k \in Nat, NEW doc \in Doc, NEW ops \in Seq(AnyOp), CallsPart(s, k, ops),
         \A a \in 1..Len(ops) : ops[a].path = "call" => Len(doc.calls) < ops[a].i
  PROVE  Worked(s, k, doc, ops, Len(ops), ApplyAll(doc, ops))
<1>1. PICK u \in [0..Len(ops) -> Outcome] : Steps(u, doc, ops) /\ ApplyAll(doc, ops) = u[Len(ops)]
  BY ApplyAllSteps
<1> DEFINE S == {n \in 0..Len(ops) : Worked(s, k, doc, ops, n, u[n])}
<1>2. Len(ops) \in Nat
  BY LenProperties
<1>3. 0 \in S
  BY <1>1, <1>2, WorkedNone DEF Steps
<1>4. ASSUME NEW n \in 0..(Len(ops) - 1), n \in S
      PROVE  n + 1 \in S
  <2> DEFINE m == n + 1
  <2>1. m \in 1..Len(ops) /\ m - 1 = n /\ n \in 0..Len(ops) /\ m \in 0..Len(ops)
    BY <1>2
  <2> HIDE DEF m
  <2>2. u[m] = After(u[n], ops[m])
    BY <1>1, <2>1 DEF Steps
  <2>3. Worked(s, k, doc, ops, m - 1, u[n]) /\ u[n] \in Outcome
    BY <1>4, <2>1
  <2>4. Worked(s, k, doc, ops, m, u[m])
    BY <2>1, <2>2, <2>3, WorkedNext
  <2> QED
    BY <2>1, <2>4 DEF m
<1>5. Len(ops) \in S
  <2> HIDE DEF S
  <2>1. 0..Len(ops) \subseteq S
    BY <1>2, <1>3, <1>4, Induct
  <2> QED
    BY <1>2, <2>1
<1> QED
  BY <1>1, <1>5

\* Applying one patch.
LEMMA OneApplied ==
  ASSUME NEW doc \in Doc, NEW op \in AnyOp
  PROVE  ApplyAll(doc, <<op>>) = After([ok |-> TRUE, doc |-> doc], op)
<1> DEFINE ops == <<op>>
<1>1. ops \in Seq(AnyOp) /\ Len(ops) = 1 /\ ops[1] = op
  OBVIOUS
<1> HIDE DEF ops
<1>2. PICK u \in [0..Len(ops) -> Outcome] : Steps(u, doc, ops) /\ ApplyAll(doc, ops) = u[Len(ops)]
  BY <1>1, ApplyAllSteps
<1>3. u[0] = [ok |-> TRUE, doc |-> doc] /\ u[1] = After(u[1 - 1], ops[1]) /\ 1 - 1 = 0
  BY <1>1, <1>2 DEF Steps
<1>4. u[1] = After([ok |-> TRUE, doc |-> doc], op)
  BY <1>1, <1>3
<1> QED
  BY <1>1, <1>2, <1>4 DEF ops

\* A text is always applied, and is the last one of the document.
LEMMA TextApplied ==
  ASSUME NEW doc \in Doc, NEW k \in Nat
  PROVE  LET res == ApplyAll(doc, <<Op("/-", 0, k)>>)
         IN /\ res.ok
            /\ res.doc = [doc EXCEPT !.root = IF doc.root = "none" THEN "list" ELSE doc.root,
                                     !.text = Append(doc.text, k)]
<1> DEFINE op == Op("/-", 0, k)
<1>1. op \in AnyOp /\ op \in TextOp /\ op.v = k /\ op.path = "/-"
  BY DEF Op, AnyOp, TextOp
<1> HIDE DEF op
<1>2. Applies(doc, op)
  BY <1>1 DEF Applies
<1>3. ApplyAll(doc, <<op>>) = [ok |-> TRUE, doc |-> Apply(doc, op)]
  BY <1>1, <1>2, OneApplied DEF After
<1>4. Apply(doc, op) = [doc EXCEPT !.root = IF doc.root = "none" THEN "list" ELSE doc.root,
                                   !.text = Append(doc.text, op.v)]
  BY <1>1, <1>2, ApplyIs
<1> DEFINE res == ApplyAll(doc, <<op>>)
<1>5. res.ok /\ res.doc = Apply(doc, op)
  BY <1>3
<1> HIDE DEF res
<1>6. /\ res.ok
      /\ res.doc = [doc EXCEPT !.root = IF doc.root = "none" THEN "list" ELSE doc.root,
                               !.text = Append(doc.text, k)]
  BY <1>1, <1>4, <1>5
<1> QED
  BY <1>6 DEF res, op

\* A result is applied to any document that is not a list of texts.
LEMMA ResultApplied ==
  ASSUME NEW doc \in Doc, doc.root # "list", NEW i \in 1..MaxCalls
  PROVE  LET res == ApplyAll(doc, ResultOps(i))
         IN res.ok /\ res.doc = [doc EXCEPT !.root = "dict", !.results = <<i>>]
<1> DEFINE o == Op("results", i, 0)
           p == Op("results/-", i, 0)
           ops == <<o, p>>
           d == Apply(doc, o)
<1>1. ResultOps(i) = ops
  BY DEF ResultOps
<1>2. /\ o \in ResultOp /\ p \in ResultOp /\ o.path = "results" /\ p.path = "results/-" /\ p.i = i
      /\ o \in AnyOp /\ p \in AnyOp
  BY DEF Op, ResultOp, AnyOp
<1> HIDE DEF o, p
<1>3. ops \in Seq(AnyOp) /\ Len(ops) = 2 /\ ops[1] = o /\ ops[2] = p
  BY <1>2
<1> HIDE DEF ops
<1>4. PICK u \in [0..Len(ops) -> Outcome] : Steps(u, doc, ops) /\ ApplyAll(doc, ops) = u[Len(ops)]
  BY <1>3, ApplyAllSteps
<1>5. u[1] = After(u[0], o) /\ u[2] = After(u[1], p) /\ u[0] = [ok |-> TRUE, doc |-> doc]
  <2>1. u[1] = After(u[1 - 1], ops[1]) /\ u[2] = After(u[2 - 1], ops[2]) /\ 1 - 1 = 0 /\ 2 - 1 = 1
    BY <1>3, <1>4 DEF Steps
  <2>2. u[0] = [ok |-> TRUE, doc |-> doc]
    BY <1>4 DEF Steps
  <2> QED
    BY <1>3, <2>1, <2>2
<1>6. Applies(doc, o)
  BY <1>2 DEF Applies
<1>7. d \in Doc /\ d = [doc EXCEPT !.root = "dict", !.results = <<>>]
  BY <1>2, <1>6, ApplyIs
<1>8. u[1] = [ok |-> TRUE, doc |-> d]
  BY <1>5, <1>6 DEF After
<1> HIDE DEF d
<1>9. d.root = "dict" /\ d.results = <<>>
  BY <1>7 DEF Doc
<1>10. Applies(d, p)
  BY <1>2, <1>9 DEF Applies
<1>11. Apply(d, p) = [d EXCEPT !.root = "dict", !.results = Append(d.results, i)]
  <2>1. Apply(d, p) = [d EXCEPT !.root = "dict", !.results =
                         IF p.path = "results" THEN <<>> ELSE Append(d.results, p.i)]
    BY <1>2, <1>7, <1>10, ApplyIs
  <2> QED
    BY <1>2, <2>1
<1>12. u[2] = [ok |-> TRUE, doc |-> Apply(d, p)]
  BY <1>5, <1>8, <1>10 DEF After
<1>13. Apply(d, p) = [doc EXCEPT !.root = "dict", !.results = <<i>>]
  <2>1. Append(d.results, i) = <<i>>
    BY <1>9
  <2> QED
    BY <1>7, <1>11, <2>1 DEF Doc
<1> QED
  BY <1>1, <1>3, <1>4, <1>12, <1>13

\* The first patches of a document are all applied.
LEMMA FirstApplied ==
  ASSUME NEW s, NEW k \in Nat, NEW ops \in Seq(AnyOp), First(ops), CallsPart(s, k, ops)
  PROVE  ApplyAll(NewDoc, ops).ok
<1>1. PICK u \in [0..Len(ops) -> Outcome] : Steps(u, NewDoc, ops) /\ ApplyAll(NewDoc, ops) = u[Len(ops)]
  BY NewDocTyped, ApplyAllSteps
<1>2. Len(ops) \in Nat /\ u[0] = [ok |-> TRUE, doc |-> NewDoc]
  BY <1>1, LenProperties DEF Steps
<1>3. CASE Len(ops) = 1 /\ ops[1].path \in {"/-", "args/-"}
  <2>1. u[1] = After(u[1 - 1], ops[1])
    BY <1>1, <1>3 DEF Steps
  <2>2. Applies(NewDoc, ops[1])
    BY <1>3 DEF Applies, NewDoc
  <2> QED
    BY <1>1, <1>2, <1>3, <2>1, <2>2 DEF After
<1>4. CASE \A n \in 1..Len(ops) :
             IF ops[n].path = "call" THEN \A i \in 1..(ops[n].i - 1) : OpenedBy(ops, n - 1, i)
             ELSE OpenedBy(ops, n - 1, ops[n].i)
  <2> DEFINE Good0(n) == /\ u[n].ok /\ Made(NewDoc, ops, n, u[n].doc)
                         /\ \A i \in 1..MaxCalls : OpenedBy(ops, n, i) => TakesArgs(u[n].doc, i)
             S == {n \in 0..Len(ops) : Good0(n)}
  <2>1. 0 \in S
    <3>1. \A i : ~OpenedBy(ops, 0, i)
      BY DEF OpenedBy
    <3> QED
      BY <1>2, <3>1, NewDocTyped DEF Made
  <2>3. \A a \in 1..Len(ops) : ops[a] \in CallOp /\ (ops[a].path = "call" => Len(NewDoc.calls) < ops[a].i)
    <3>1. \A a \in 1..Len(ops) : ops[a] \in CallOp
      BY LenProperties DEF CallsPart
    <3>2. \A op \in CallOp : 0 < op.i
      BY MaxCallsNat DEF CallOp
    <3>3. Len(NewDoc.calls) = 0
      BY DEF NewDoc
    <3> QED
      BY <3>1, <3>2, <3>3
  <2>2. ASSUME NEW n \in 0..(Len(ops) - 1), n \in S
        PROVE  n + 1 \in S
    <3> DEFINE m == n + 1
               d == u[n].doc
               op == ops[m]
    <3>1. m \in 1..Len(ops) /\ m - 1 = n /\ n \in 0..Len(ops) /\ m \in 0..Len(ops)
      BY <1>2
    <3> HIDE DEF m
    <3>2. u[m] = After(u[n], op) /\ u[n] \in Outcome
      BY <1>1, <3>1 DEF Steps
    <3>3. /\ u[n].ok /\ Made(NewDoc, ops, m - 1, d)
          /\ \A i \in 1..MaxCalls : OpenedBy(ops, m - 1, i) => TakesArgs(d, i)
      BY <2>2, <3>1
    <3>4. op \in CallOp /\ (op.path = "call" => Len(d.calls) < op.i)
      BY <2>3, <3>1, <3>3, NewDocTyped, PatchIs
    <3>5. d \in Doc /\ d.root # "list"
      BY <3>3 DEF Made, NewDoc
    <3>6. op.i \in 1..MaxCalls /\ op.i \in Nat /\ op.path \in {"call", "args", "args/-"}
      BY <3>4, MaxCallsNat DEF CallOp
    <3>7. Applies(d, op)
      <4>1. CASE op.path = "call"
        <5>1. op.i <= Len(d.calls) + 1
          <6>1. Len(d.calls) \in Nat
            BY <3>5, LenProperties DEF Doc
          <6>2. CASE op.i = 1
            BY <6>1, <6>2
          <6>3. CASE op.i # 1
            <7> DEFINE h == op.i - 1
            <7>1. h \in 1..(op.i - 1) /\ h \in 1..MaxCalls /\ op.i = h + 1
              BY <3>6, <6>3, MaxCallsNat
            <7> HIDE DEF h
            <7>2. OpenedBy(ops, m - 1, h)
              BY <1>4, <3>1, <4>1, <7>1
            <7>3. h <= Len(d.calls)
              BY <3>3, <7>1, <7>2 DEF TakesArgs
            <7> QED
              BY <6>1, <7>1, <7>3, <3>6
          <6> QED
            BY <6>2, <6>3
        <5> QED
          BY <3>5, <4>1, <5>1 DEF Applies
      <4>2. CASE op.path # "call"
        <5>1. OpenedBy(ops, m - 1, op.i)
          BY <1>4, <3>1, <4>2
        <5>2. TakesArgs(d, op.i)
          BY <3>3, <3>6, <5>1
        <5>3. WithEntry(d.calls, op.i) = d.calls
          BY <5>2 DEF TakesArgs, WithEntry
        <5> HIDE DEF op, d
        <5> QED
          BY <3>6, <4>2, <5>2, <5>3 DEF TakesArgs, Applies
      <4> QED
        BY <4>1, <4>2
    <3>8. u[m].ok
      BY <3>2, <3>3, <3>7 DEF After
    <3>9. Made(NewDoc, ops, m, u[m].doc) /\ Stepped(d, op, u[m].doc)
      BY <2>3, <3>1, <3>2, <3>3, <3>7, NewDocTyped, MadeNext
    <3>10. ASSUME NEW i \in 1..MaxCalls, OpenedBy(ops, m, i)
           PROVE  TakesArgs(u[m].doc, i)
      <4>1. PICK a \in 1..m : CallOf(ops[a], i)
        BY <3>10 DEF OpenedBy
      <4>2. CASE a = m
        <5>1. op.i = i
          BY <4>1, <4>2 DEF CallOf
        <5> QED
          BY <3>9, <5>1 DEF Stepped
      <4>3. CASE a # m
        <5>1. a \in 1..(m - 1)
          BY <3>1, <4>3
        <5>2. TakesArgs(d, i)
          BY <3>3, <4>1, <5>1 DEF OpenedBy
        <5> QED
          BY <3>9, <5>2 DEF Stepped
      <4> QED
        BY <4>2, <4>3
    <3>11. Good0(m)
      BY <3>8, <3>9, <3>10
    <3> QED
      BY <3>1, <3>11 DEF m
  <2>4. Len(ops) \in S
    <3> HIDE DEF S
    <3>1. 0..Len(ops) \subseteq S
      BY <1>2, <2>1, <2>2, Induct
    <3> QED
      BY <1>2, <3>1
  <2> QED
    BY <1>1, <2>4
<1> QED
  BY <1>3, <1>4 DEF First
-----------------------------------------------------------------------------
\* Each chunk that is queued is one that was said.
Sourced(ev, s, n, q) ==
  \A j \in 1..Len(q) : ChunkOf(q, j, ev) =>
    \E k \in 1..n : TextPart(s, k, q[j].ops) \/ CallsPart(s, k, q[j].ops)

\* That an event is ready is said once and last, when all was said.
ReadyLast(ev, ended, q) ==
  \A j \in 1..Len(q) : Queued(q, j, ev, "ready") => ended /\ \A i \in 1..Len(q) : q[i].ev = ev => i <= j
Closed(ev, ended, q) == ended /\ \A j \in 1..Len(q) : ~Queued(q, j, ev, "ready")
AllSaid(r) ==
  /\ phase = "running" \/ stage[r] = "ended" => \A k \in 1..said[r] : Heard(script[r][k])
  /\ stage[r] = "ended" => said[r] = Len(script[r])

\* The text of the document and then that of the queue is what was said.
TextInOrder(ev, q, text) ==
  /\ \A a, b \in 1..Len(text) : a < b => text[a] < text[b]
  /\ \A j \in 1..Len(q) : Queued(q, j, ev, "/-") =>
       /\ \A a \in 1..Len(text) : text[a] < q[j].ops[1].v
       /\ \A i \in 1..(j - 1) : Queued(q, i, ev, "/-") => q[i].ops[1].v < q[j].ops[1].v
TextKept(ev, s, n, q, text) ==
  \A k \in 1..n : s[k].text /\ s[k].valid =>
    \/ \E a \in 1..Len(text) : text[a] = k
    \/ \E j \in 1..Len(q) : Queued(q, j, ev, "/-") /\ q[j].ops[1].v = k
TextSaidOnly(s, n, text) == \A a \in 1..Len(text) : text[a] \in 1..n /\ s[text[a]].text

\* A call that is opened is a new one, behind those there are.
CallOrder(ev, s, n, q, calls) ==
  /\ Len(calls) \in {0} \cup Mentioned(s, n)
  /\ \A j \in 1..Len(q) : ChunkOf(q, j, ev) => \A a \in 1..Len(q[j].ops) : q[j].ops[a].path = "call" =>
       /\ Len(calls) < q[j].ops[a].i
       /\ \A i \in 1..(j - 1) : ChunkOf(q, i, ev) => \A b \in 1..Len(q[i].ops) : q[i].ops[b].i < q[j].ops[a].i

\* What the queue and the document have of a call's arguments: in the order of their chunks,
\* and all that is owed unless the call was not opened or the message is a text.
ArgsAt(q, j, ev, i) == ChunkOf(q, j, ev) /\ HasArg(q[j].ops, i)
ArgsInOrder(ev, once, q, args, i) ==
  /\ Ordered(once, args)
  /\ \A j \in 1..Len(q) : ArgsAt(q, j, ev, i) =>
       /\ Under(once, args, q[j].ops[1].v)
       /\ \A l \in 1..(j - 1) : ArgsAt(q, l, ev, i) => Lt(once, q[l].ops[1].v, q[j].ops[1].v)
ArgsSaidOnly(s, n, args, i) == \A a \in 1..Len(args) : args[a] \in 1..n /\ SaysArgs(s, args[a], i)
OpenQueued(ev, q, i) == \E j \in 1..Len(q) : ChunkOf(q, j, ev) /\ OpenedBy(q[j].ops, Len(q[j].ops), i)
ArgsKept(ev, s, n, q, doc, i) ==
  \A k \in 1..n : Owed(s, k, i) /\ Heard(s[k]) =>
    \/ Has(ArgsOf(doc, i), k)
    \/ \E j \in 1..Len(q) : ArgsAt(q, j, ev, i) /\ q[j].ops[1].v = k
    \/ ~OpenQueued(ev, q, i) /\ ~OpenedIn(doc, i)
    \/ doc.root = "list"
CallsKept(ev, s, n, q, doc) ==
  \A i \in 1..MaxCalls :
    /\ ArgsInOrder(ev, Good(s, i), q, ArgsOf(doc, i), i)
    /\ ArgsSaidOnly(s, n, ArgsOf(doc, i), i)
    /\ Good(s, i) => ArgsKept(ev, s, n, q, doc, i)

\* A document of calls has some, and those that are opened were to be.
Entries(s, doc) == /\ doc.root = "dict" => doc.calls # <<>>
                   /\ \A i \in 1..MaxCalls : OpenedIn(doc, i) => Openable(s, i)

\* The first chunk of an event is always accepted.
FirstTaken(ev, q, there) ==
  ~there => \A j \in 1..Len(q) : ChunkOf(q, j, ev) /\ (\A i \in 1..(j - 1) : ~ChunkOf(q, i, ev)) =>
    First(q[j].ops)
SomeTaken(ev, s, n, q, there) ==
  Mentioned(s, n) # {} => there \/ \E j \in 1..Len(q) : ChunkOf(q, j, ev)

Kept(ev, s, n, open, ended, there, doc, q) ==
  /\ Sourced(ev, s, n, q)
  /\ ReadyLast(ev, ended, q)
  /\ there => doc.begun
  /\ TextInOrder(ev, q, doc.text) /\ TextSaidOnly(s, n, doc.text)
  /\ ~Closed(ev, ended, q) => TextKept(ev, s, n, q, doc.text)
  /\ CallOrder(ev, s, n, q, doc.calls)
  /\ CallsKept(ev, s, n, q, doc)
  /\ Entries(s, doc)
  /\ FirstTaken(ev, q, there)
  /\ open => SomeTaken(ev, s, n, q, there)

Document(ev) == IF docs[ev] = Absent THEN NewDoc ELSE docs[ev]
RunInv(r) ==
  /\ AllSaid(r)
  /\ Kept(Message(r), script[r], said[r], phase = "running" /\ stage[r] = "open", stage[r] = "ended",
          docs[Message(r)] # Absent, Document(Message(r)), queue)

\* Of a tool's result there is but one chunk, with the number of its call.
ResultInv(r, i) ==
  LET ev == Result(r, i)
  IN /\ \A j \in 1..Len(queue) : ChunkOf(queue, j, ev) => queue[j].ops = ResultOps(i)
     /\ docs[ev] # Absent =>
          docs[ev].root = "dict" /\ docs[ev].calls = <<>> /\ docs[ev].results = <<i>>

SInv == IInv /\ \A r \in Runs : RunInv(r) /\ \A i \in 1..MaxCalls : ResultInv(r, i)
-----------------------------------------------------------------------------
\* Chunks in the queue, as messages are put on it.
LEMMA ChunkPut ==
  ASSUME NEW q, NEW new, NEW F, Put(q, new, F), NEW ev
  PROVE  /\ \A j \in 1..Len(q) : j \in 1..Len(F) /\ F[j] = q[j] /\ (ChunkOf(F, j, ev) <=> ChunkOf(q, j, ev))
         /\ \A j \in 1..Len(new) : ChunkOf(new, j, ev) => ChunkOf(F, Len(q) + j, ev)
         /\ \A j \in 1..Len(F) : ChunkOf(F, j, ev) =>
              \/ j \in 1..Len(q) /\ F[j] = q[j] /\ ChunkOf(q, j, ev)
              \/ /\ j > Len(q) /\ j - Len(q) \in 1..Len(new) /\ F[j] = new[j - Len(q)]
                 /\ ChunkOf(new, j - Len(q), ev)
<1>1. \A j \in 1..Len(q) : j \in 1..Len(F) /\ F[j] = q[j] /\ (ChunkOf(F, j, ev) <=> ChunkOf(q, j, ev))
  BY DEF Put, ChunkOf
<1>2. \A j \in 1..Len(new) : ChunkOf(new, j, ev) => ChunkOf(F, Len(q) + j, ev)
  BY DEF Put, ChunkOf
<1>3. ASSUME NEW j \in 1..Len(F), ChunkOf(F, j, ev)
      PROVE  \/ j \in 1..Len(q) /\ F[j] = q[j] /\ ChunkOf(q, j, ev)
             \/ /\ j > Len(q) /\ j - Len(q) \in 1..Len(new) /\ F[j] = new[j - Len(q)]
                /\ ChunkOf(new, j - Len(q), ev)
  <2>1. CASE j <= Len(q)
    <3>1. j \in 1..Len(q)
      BY <2>1 DEF Put
    <3> QED
      BY <1>1, <1>3, <3>1
  <2>2. CASE j > Len(q)
    <3>1. j - Len(q) \in 1..Len(new) /\ F[j] = new[j - Len(q)]
      BY <2>2 DEF Put
    <3> QED
      BY <1>3, <2>2, <3>1 DEF ChunkOf
  <2> QED
    BY <2>1, <2>2 DEF Put
<1> QED
  BY <1>1, <1>2, <1>3

\* New chunks that were said keep every queued one said.
LEMMA PutSourced ==
  ASSUME NEW q, NEW new, NEW F, Put(q, new, F), NEW ev, NEW s, NEW n \in Nat, NEW n2 \in Nat, n <= n2,
         Sourced(ev, s, n, q),
         \A j \in 1..Len(new) : ChunkOf(new, j, ev) => n2 > 0 /\
           (TextPart(s, n2, new[j].ops) \/ CallsPart(s, n2, new[j].ops))
  PROVE  Sourced(ev, s, n2, F)
<1> SUFFICES ASSUME NEW j \in 1..Len(F), ChunkOf(F, j, ev)
             PROVE  \E k \in 1..n2 : TextPart(s, k, F[j].ops) \/ CallsPart(s, k, F[j].ops)
  BY DEF Sourced
<1>1. CASE j \in 1..Len(q) /\ F[j] = q[j] /\ ChunkOf(q, j, ev)
  <2>1. PICK k \in 1..n : TextPart(s, k, q[j].ops) \/ CallsPart(s, k, q[j].ops)
    BY <1>1 DEF Sourced
  <2>2. k \in 1..n2
    OBVIOUS
  <2> QED
    BY <1>1, <2>1, <2>2
<1>2. CASE j - Len(q) \in 1..Len(new) /\ F[j] = new[j - Len(q)] /\ ChunkOf(new, j - Len(q), ev)
  <2>1. n2 > 0 /\ (TextPart(s, n2, F[j].ops) \/ CallsPart(s, n2, F[j].ops))
    BY <1>2
  <2>2. n2 \in 1..n2
    BY <2>1
  <2> QED
    BY <2>1, <2>2
<1> QED
  BY <1>1, <1>2, ChunkPut

\* Messages before the end, and ready behind them, keep ready last.
LEMMA PutReady ==
  ASSUME NEW q, NEW new, NEW F, Put(q, new, F), NEW ev, NEW ended, NEW ended2, ended => ended2,
         ReadyLast(ev, ended, q),
         \/ \A j \in 1..Len(new) : new[j].ev # ev
         \/ ~ended /\ \A j \in 1..Len(new) : Queued(new, j, ev, "ready") => ended2 /\ j = Len(new)
  PROVE  ReadyLast(ev, ended2, F)
<1> SUFFICES ASSUME NEW j \in 1..Len(F), Queued(F, j, ev, "ready"), NEW i \in 1..Len(F), F[i].ev = ev
             PROVE  ended2 /\ i <= j
  <2>1. \A j \in 1..Len(F) : Queued(F, j, ev, "ready") => F[j].ev = ev
    BY DEF Queued
  <2> QED
    BY <2>1 DEF ReadyLast
<1>1. \/ i \in 1..Len(q) /\ q[i].ev = ev
      \/ i > Len(q) /\ i - Len(q) \in 1..Len(new) /\ new[i - Len(q)].ev = ev
  <2>1. i > Len(q) => i - Len(q) \in 1..Len(new) /\ F[i] = new[i - Len(q)]
    BY DEF Put
  <2>2. i <= Len(q) => i \in 1..Len(q) /\ F[i] = q[i]
    BY DEF Put
  <2>3. i > Len(q) \/ i <= Len(q)
    BY DEF Put
  <2> QED
    BY <2>1, <2>2, <2>3
<1>2. CASE j \in 1..Len(q) /\ Queued(q, j, ev, "ready")
  <2>1. ended /\ \A h \in 1..Len(q) : q[h].ev = ev => h <= j
    BY <1>2 DEF ReadyLast
  <2> QED
    BY <1>1, <2>1
<1>3. CASE j > Len(q) /\ j - Len(q) \in 1..Len(new) /\ Queued(new, j - Len(q), ev, "ready")
  <2>1. new[j - Len(q)].ev = ev
    BY <1>3 DEF Queued
  <2>2. ended2 /\ j - Len(q) = Len(new)
    BY <1>3, <2>1
  <2> QED
    BY <2>2 DEF Put
<1> QED
  BY <1>2, <1>3, QueuedPut

\* A text in the queue is that of a chunk that was said.
LEMMA TextSourced ==
  ASSUME NEW q \in Seq(Msg), NEW ev, NEW s, NEW n, Sourced(ev, s, n, q),
         NEW j \in 1..Len(q), Queued(q, j, ev, "/-")
  PROVE  ChunkOf(q, j, ev) /\ q[j].ops[1].v \in 1..n /\ TextPart(s, q[j].ops[1].v, q[j].ops)
<1>1. q[j] \in Msg /\ q[j].ev = ev /\ What(q[j]) = "/-" /\ "/-" \notin Statuses
  BY LenProperties DEF Queued, Statuses
<1>2. /\ "ops" \in DOMAIN q[j] /\ q[j].ops[1].path = "/-" /\ q[j].ops # <<>> /\ q[j].ops \in Seq(AnyOp)
  BY <1>1, MsgIs
<1>3. ChunkOf(q, j, ev)
  BY <1>1, <1>2 DEF ChunkOf
<1>4. PICK k \in 1..n : TextPart(s, k, q[j].ops) \/ CallsPart(s, k, q[j].ops)
  BY <1>3 DEF Sourced
<1>5. ~CallsPart(s, k, q[j].ops)
  <2> SUFFICES ASSUME q[j].ops \in Seq(CallOp)
               PROVE  FALSE
    BY DEF CallsPart
  <2> DEFINE ops == q[j].ops
  <2> HIDE DEF ops
  <2>1. ops[1] \in CallOp
    <3>1. ops \in Seq(CallOp) /\ ops # <<>>
      BY <1>2 DEF ops
    <3> QED
      BY <3>1, EmptySeq, LenProperties
  <2> QED
    BY <1>2, <2>1 DEF CallOp, ops
<1>6. TextPart(s, k, q[j].ops) /\ q[j].ops[1].v = k
  BY <1>4, <1>5 DEF TextPart, Op
<1> QED
  BY <1>3, <1>6

\* The text of the next chunk comes behind the texts there are.
LEMMA PutText ==
  ASSUME NEW q \in Seq(Msg), NEW new, NEW F, Put(q, new, F), NEW ev, NEW s, NEW n \in Nat, Sourced(ev, s, n, q),
         NEW text, TextInOrder(ev, q, text), TextSaidOnly(s, n, text),
         \A j \in 1..Len(new) : Queued(new, j, ev, "/-") => new[j].ops[1].v = n + 1,
         \A i, j \in 1..Len(new) : Queued(new, i, ev, "/-") /\ Queued(new, j, ev, "/-") => i = j
  PROVE  TextInOrder(ev, F, text)
<1>1. \A a, b \in 1..Len(text) : a < b => text[a] < text[b]
  BY DEF TextInOrder
<1>2. ASSUME NEW j \in 1..Len(F), Queued(F, j, ev, "/-")
      PROVE  /\ \A a \in 1..Len(text) : text[a] < F[j].ops[1].v
             /\ \A i \in 1..(j - 1) : Queued(F, i, ev, "/-") => F[i].ops[1].v < F[j].ops[1].v
  <2>1. CASE j \in 1..Len(q) /\ Queued(q, j, ev, "/-")
    <3>1. /\ \A a \in 1..Len(text) : text[a] < q[j].ops[1].v
          /\ \A i \in 1..(j - 1) : Queued(q, i, ev, "/-") => q[i].ops[1].v < q[j].ops[1].v
      BY <2>1 DEF TextInOrder
    <3>2. F[j] = q[j] /\ \A i \in 1..(j - 1) : i \in 1..Len(q) /\ F[i] = q[i]
      BY <2>1 DEF Put
    <3>3. \A i \in 1..(j - 1) : Queued(F, i, ev, "/-") => Queued(q, i, ev, "/-")
      BY <3>2, QueuedPut
    <3> QED
      BY <3>1, <3>2, <3>3
  <2>2. CASE j > Len(q) /\ j - Len(q) \in 1..Len(new) /\ Queued(new, j - Len(q), ev, "/-")
    <3>1. F[j].ops[1].v = n + 1
      BY <2>2 DEF Put
    <3>2. ASSUME NEW i \in 1..(j - 1), Queued(F, i, ev, "/-")
          PROVE  F[i].ops[1].v < n + 1
      <4>1. i \in 1..Len(F)
        BY <1>2, <2>2 DEF Put
      <4>2. i \in 1..Len(q) /\ Queued(q, i, ev, "/-")
        <5>1. CASE i > Len(q) /\ i - Len(q) \in 1..Len(new) /\ Queued(new, i - Len(q), ev, "/-")
          <6>1. i - Len(q) = j - Len(q)
            BY <2>2, <5>1
          <6> QED
            BY <2>2, <6>1 DEF Put
        <5> QED
          BY <3>2, <4>1, <5>1, QueuedPut
      <4>3. q[i].ops[1].v \in 1..n
        BY <4>2, TextSourced
      <4>4. F[i] = q[i]
        BY <4>2 DEF Put
      <4> QED
        BY <4>3, <4>4
    <3>3. \A a \in 1..Len(text) : text[a] < n + 1
      BY DEF TextSaidOnly
    <3> QED
      BY <3>1, <3>2, <3>3
  <2> QED
    BY <1>2, <2>1, <2>2, QueuedPut
<1> QED
  BY <1>1, <1>2 DEF TextInOrder

\* The texts of the chunks from n on are put on the queue.
TextNew(s, n, n2, ev, new) ==
  \A k \in 1..n2 : k > n /\ s[k].text /\ s[k].valid =>
    \E j \in 1..Len(new) : Queued(new, j, ev, "/-") /\ new[j].ops[1].v = k

\* The text of the next chunk is queued.
LEMMA PutKept ==
  ASSUME NEW q, NEW new, NEW F, Put(q, new, F), NEW ev, NEW s, NEW n \in Nat, NEW n2 \in Nat,
         NEW text, TextKept(ev, s, n, q, text), TextNew(s, n, n2, ev, new)
  PROVE  TextKept(ev, s, n2, F, text)
<1> SUFFICES ASSUME NEW k \in 1..n2, s[k].text, s[k].valid
             PROVE  \/ \E a \in 1..Len(text) : text[a] = k
                    \/ \E j \in 1..Len(F) : Queued(F, j, ev, "/-") /\ F[j].ops[1].v = k
  BY DEF TextKept
<1>1. CASE k <= n
  <2>1. \/ \E a \in 1..Len(text) : text[a] = k
        \/ \E j \in 1..Len(q) : Queued(q, j, ev, "/-") /\ q[j].ops[1].v = k
    BY <1>1 DEF TextKept
  <2>2. ASSUME NEW j \in 1..Len(q), Queued(q, j, ev, "/-"), q[j].ops[1].v = k
        PROVE  j \in 1..Len(F) /\ Queued(F, j, ev, "/-") /\ F[j].ops[1].v = k
    <3>1. j \in 1..Len(F) /\ F[j] = q[j]
      BY DEF Put
    <3> QED
      BY <2>2, <3>1, QueuedPut
  <2> QED
    BY <2>1, <2>2
<1>2. CASE k > n
  <2>1. PICK j \in 1..Len(new) : Queued(new, j, ev, "/-") /\ new[j].ops[1].v = k
    BY <1>2 DEF TextNew
  <2> DEFINE h == Len(q) + j
  <2>2. h \in 1..Len(F) /\ F[h] = new[j]
    BY DEF Put
  <2>3. Queued(F, h, ev, "/-")
    BY <2>1, QueuedPut
  <2> HIDE DEF h
  <2> QED
    BY <2>1, <2>2, <2>3
<1> QED
  BY <1>1, <1>2

\* What was said before is about calls that have been mentioned.
LEMMA SaidBefore ==
  ASSUME NEW s, IsScript(s), NEW n \in Nat, n <= Len(s), NEW k \in 1..n, NEW ops,
         TextPart(s, k, ops) \/ CallsPart(s, k, ops), NEW b \in 1..Len(ops)
  PROVE  ops[b].i \in {0} \cup Mentioned(s, n)
<1>1. CASE TextPart(s, k, ops)
  <2> DEFINE o == Op("/-", 0, k)
  <2>1. ops = <<o>> /\ o.i = 0
    BY <1>1 DEF TextPart, Op
  <2> HIDE DEF o
  <2>2. b = 1 /\ ops[1] = o
    BY <2>1
  <2> QED
    BY <2>1, <2>2
<1>2. CASE CallsPart(s, k, ops)
  <2>1. PICK h \in DOMAIN s[k].calls : From(s[k].calls[h], ops[b])
    BY <1>2 DEF CallsPart
  <2>2. k \in DOMAIN s
    BY ScriptIs
  <2>3. <<k, h>> \in Places(s) /\ CallAt(s, <<k, h>>) = s[k].calls[h] /\ <<k, h>>[1] <= n
    BY <2>2, PlacesAre
  <2>4. CallAt(s, <<k, h>>).i \in Mentioned(s, n)
    BY <2>3 DEF Mentioned
  <2> QED
    BY <2>1, <2>3, <2>4 DEF From
<1> QED
  BY <1>1, <1>2

\* A call that is opened later is behind them.
LEMMA OpenedBehind ==
  ASSUME NEW s, IsScript(s), NEW n \in Nat, NEW k \in 1..Len(s), n < k, NEW ops,
         CallsPart(s, k, ops), NEW a \in 1..Len(ops), ops[a].path = "call"
  PROVE  \A x \in {0} \cup Mentioned(s, n) : x < ops[a].i
<1>1. PICK h \in DOMAIN s[k].calls : From(s[k].calls[h], ops[a])
  BY DEF CallsPart
<1>2. s[k].calls[h].i = ops[a].i /\ s[k].calls[h].id
  BY <1>1 DEF From
<1>3. k \in DOMAIN s /\ h \in 1..Len(s[k].calls)
  BY ScriptIs
<1>4. <<k, h>> \in Places(s) /\ CallAt(s, <<k, h>>) = s[k].calls[h]
  BY <1>3, PlacesAre
<1>5. s[k].calls[h].i \in 1..MaxCalls
  BY <1>3, ScriptIs
<1>6. ASSUME NEW x \in Mentioned(s, n)
      PROVE  x < ops[a].i
  <2>1. PICK p \in Places(s) : p[1] <= n /\ x = CallAt(s, p).i
    BY DEF Mentioned
  <2>2. Earlier(p, <<k, h>>)
    <3>1. p[1] \in 1..Len(s)
      BY PlacesAre, ScriptIs
    <3> QED
      BY <2>1, <3>1 DEF Earlier
  <2> QED
    BY <1>2, <1>4, <2>1, <2>2, OpensNew
<1> QED
  BY <1>2, <1>5, <1>6, MaxCallsNat

\* The calls the next chunk opens come behind those there are.
LEMMA PutCalls ==
  ASSUME NEW q, NEW new, NEW F, Put(q, new, F), NEW ev, NEW s, IsScript(s),
         NEW n \in Nat, NEW n2 \in Nat, n <= n2, n2 <= Len(s), Sourced(ev, s, n, q),
         NEW calls, CallOrder(ev, s, n, q, calls),
         \A j \in 1..Len(new) : ChunkOf(new, j, ev) =>
           /\ n < n2 /\ (TextPart(s, n2, new[j].ops) \/ CallsPart(s, n2, new[j].ops))
           /\ \A a \in 1..Len(new[j].ops) : new[j].ops[a].path = "call" =>
                \A i \in 1..(j - 1) : ChunkOf(new, i, ev) => TextPart(s, n2, new[i].ops)
  PROVE  CallOrder(ev, s, n2, F, calls)
<1>1. Len(calls) \in {0} \cup Mentioned(s, n)
  BY DEF CallOrder
<1>2. Mentioned(s, n) \subseteq Mentioned(s, n2)
  <2>1. \A p \in Places(s) : p[1] \in Nat
    BY PlacesAre, ScriptIs
  <2> QED
    BY <2>1 DEF Mentioned
<1>3. ASSUME NEW j \in 1..Len(F), ChunkOf(F, j, ev), NEW a \in 1..Len(F[j].ops), F[j].ops[a].path = "call"
      PROVE  /\ Len(calls) < F[j].ops[a].i
             /\ \A i \in 1..(j - 1) : ChunkOf(F, i, ev) => \A b \in 1..Len(F[i].ops) : F[i].ops[b].i < F[j].ops[a].i
  <2>1. CASE j \in 1..Len(q) /\ F[j] = q[j] /\ ChunkOf(q, j, ev)
    <3>1. /\ Len(calls) < q[j].ops[a].i
          /\ \A i \in 1..(j - 1) : ChunkOf(q, i, ev) => \A b \in 1..Len(q[i].ops) : q[i].ops[b].i < q[j].ops[a].i
      BY <1>3, <2>1 DEF CallOrder
    <3>2. \A i \in 1..(j - 1) : i \in 1..Len(q)
      BY <2>1 DEF Put
    <3>3. \A i \in 1..(j - 1) : F[i] = q[i] /\ (ChunkOf(F, i, ev) => ChunkOf(q, i, ev))
      BY <3>2, ChunkPut
    <3> QED
      BY <2>1, <3>1, <3>3
  <2>2. CASE /\ j > Len(q) /\ j - Len(q) \in 1..Len(new) /\ F[j] = new[j - Len(q)]
             /\ ChunkOf(new, j - Len(q), ev)
    <3> DEFINE h == j - Len(q)
               ops == F[j].ops
    <3>1. /\ n < n2 /\ (TextPart(s, n2, ops) \/ CallsPart(s, n2, ops))
          /\ \A i \in 1..(h - 1) : ChunkOf(new, i, ev) => TextPart(s, n2, new[i].ops)
      BY <1>3, <2>2
    <3>2. CallsPart(s, n2, ops)
      <4>1. CASE TextPart(s, n2, ops)
        <5> DEFINE o == Op("/-", 0, n2)
        <5>1. ops = <<o>> /\ o.path # "call"
          BY <4>1 DEF TextPart, Op
        <5> HIDE DEF o, ops
        <5>2. a = 1 /\ ops[1] = o
          BY <5>1 DEF ops
        <5> QED
          BY <1>3, <5>1, <5>2 DEF ops
      <4> QED
        BY <3>1, <4>1
    <3> HIDE DEF ops
    <3>3. \A x \in {0} \cup Mentioned(s, n) : x < ops[a].i
      <4>1. n2 \in 1..Len(s) /\ a \in 1..Len(ops) /\ ops[a].path = "call"
        <5>1. Len(s) \in Nat
          BY ScriptIs
        <5> QED
          BY <1>3, <3>1, <5>1 DEF ops
      <4> QED
        BY <3>1, <3>2, <4>1, OpenedBehind
    <3>4. ASSUME NEW i \in 1..(j - 1), ChunkOf(F, i, ev), NEW b \in 1..Len(F[i].ops)
          PROVE  F[i].ops[b].i < ops[a].i
      <4>1. i \in 1..Len(F)
        BY <2>2 DEF Put
      <4>2. CASE i \in 1..Len(q) /\ F[i] = q[i] /\ ChunkOf(q, i, ev)
        <5>1. PICK k \in 1..n : TextPart(s, k, F[i].ops) \/ CallsPart(s, k, F[i].ops)
          BY <4>2 DEF Sourced
        <5>2. n <= Len(s)
          BY ScriptIs
        <5>3. F[i].ops[b].i \in {0} \cup Mentioned(s, n)
          BY <3>4, <5>1, <5>2, SaidBefore
        <5> QED
          BY <3>3, <5>3
      <4>3. CASE /\ i > Len(q) /\ i - Len(q) \in 1..Len(new) /\ F[i] = new[i - Len(q)]
                 /\ ChunkOf(new, i - Len(q), ev)
        <5>1. i - Len(q) \in 1..(h - 1)
          BY <2>2, <4>3 DEF Put
        <5>2. TextPart(s, n2, F[i].ops)
          BY <3>1, <4>3, <5>1
        <5> DEFINE o == Op("/-", 0, n2)
        <5>3. F[i].ops = <<o>> /\ o.i = 0
          BY <5>2 DEF TextPart, Op
        <5> HIDE DEF o
        <5>4. F[i].ops[b].i = 0
          BY <3>4, <5>3
        <5> QED
          BY <3>3, <5>4
      <4> QED
        BY <3>4, <4>1, <4>2, <4>3, ChunkPut
    <3> QED
      BY <1>1, <3>3, <3>4 DEF ops
  <2> QED
    BY <1>3, <2>1, <2>2, ChunkPut
<1> QED
  BY <1>1, <1>2, <1>3 DEF CallOrder

\* The first chunk of an event is one a new document accepts.
LEMMA PutFirst ==
  ASSUME NEW q, NEW new, NEW F, Put(q, new, F), NEW ev, NEW s, NEW n, NEW there,
         FirstTaken(ev, q, there),
         \A j \in 1..Len(new) : ChunkOf(new, j, ev) =>
           SomeTaken(ev, s, n, q, there) /\ (Mentioned(s, n) = {} => First(new[j].ops))
  PROVE  FirstTaken(ev, F, there)
<1> SUFFICES ASSUME ~there, NEW j \in 1..Len(F), ChunkOf(F, j, ev), \A i \in 1..(j - 1) : ~ChunkOf(F, i, ev)
             PROVE  First(F[j].ops)
  BY DEF FirstTaken
<1>1. CASE j \in 1..Len(q) /\ F[j] = q[j] /\ ChunkOf(q, j, ev)
  <2>1. \A i \in 1..(j - 1) : i \in 1..Len(q)
    BY <1>1 DEF Put
  <2>2. \A i \in 1..(j - 1) : ~ChunkOf(q, i, ev)
    BY <2>1, ChunkPut
  <2> QED
    BY <1>1, <2>2 DEF FirstTaken
<1>2. CASE /\ j > Len(q) /\ j - Len(q) \in 1..Len(new) /\ F[j] = new[j - Len(q)]
           /\ ChunkOf(new, j - Len(q), ev)
  <2>1. SomeTaken(ev, s, n, q, there) /\ (Mentioned(s, n) = {} => First(F[j].ops))
    BY <1>2
  <2>2. \A i \in 1..Len(q) : i \in 1..(j - 1)
    BY <1>2 DEF Put
  <2>3. \A i \in 1..Len(q) : ~ChunkOf(q, i, ev)
    BY <2>2, ChunkPut
  <2> QED
    BY <2>1, <2>3 DEF SomeTaken
<1> QED
  BY <1>1, <1>2, ChunkPut

\* If a call was said, the document is there or a chunk is queued.
LEMMA PutSome ==
  ASSUME NEW q, NEW new, NEW F, Put(q, new, F), NEW ev, NEW s, NEW n, NEW n2, NEW there,
         SomeTaken(ev, s, n, q, there),
         Mentioned(s, n2) # {} => Mentioned(s, n) # {} \/ \E j \in 1..Len(new) : ChunkOf(new, j, ev)
  PROVE  SomeTaken(ev, s, n2, F, there)
<1> SUFFICES ASSUME Mentioned(s, n2) # {}, ~there
             PROVE  \E j \in 1..Len(F) : ChunkOf(F, j, ev)
  BY DEF SomeTaken
<1>1. CASE Mentioned(s, n) # {}
  <2>1. PICK j \in 1..Len(q) : ChunkOf(q, j, ev)
    BY <1>1 DEF SomeTaken
  <2>2. j \in 1..Len(F) /\ ChunkOf(F, j, ev)
    BY <2>1, ChunkPut
  <2> QED
    BY <2>2
<1>2. CASE \E j \in 1..Len(new) : ChunkOf(new, j, ev)
  <2>1. PICK j \in 1..Len(new) : ChunkOf(new, j, ev)
    BY <1>2
  <2>2. Len(q) + j \in 1..Len(F) /\ ChunkOf(F, Len(q) + j, ev)
    BY <2>1, ChunkPut DEF Put
  <2> QED
    BY <2>2
<1> QED
  BY <1>1, <1>2
-----------------------------------------------------------------------------
\* Chunks in the queue, as the worker takes the first message from it.
LEMMA ChunkTake ==
  ASSUME NEW q, NEW F, Taken(q, F), NEW ev
  PROVE  /\ \A j \in 1..Len(F) : /\ j + 1 \in 1..Len(q) /\ F[j] = q[j + 1]
                                 /\ ChunkOf(F, j, ev) <=> ChunkOf(q, j + 1, ev)
         /\ \A j \in 1..Len(q) : ChunkOf(q, j, ev) =>
              \/ j = 1
              \/ j - 1 \in 1..Len(F) /\ F[j - 1] = q[j] /\ ChunkOf(F, j - 1, ev)
<1>1. \A j \in 1..Len(F) : j + 1 \in 1..Len(q) /\ F[j] = q[j + 1] /\ (ChunkOf(F, j, ev) <=> ChunkOf(q, j + 1, ev))
  BY DEF Taken, ChunkOf
<1>2. ASSUME NEW j \in 1..Len(q), ChunkOf(q, j, ev), j # 1
      PROVE  j - 1 \in 1..Len(F) /\ F[j - 1] = q[j] /\ ChunkOf(F, j - 1, ev)
  <2>1. j - 1 \in 1..Len(F) /\ j - 1 + 1 = j
    BY <1>2 DEF Taken
  <2>2. F[j - 1] = q[j]
    <3>1. F[j - 1] = q[j - 1 + 1]
      BY <2>1 DEF Taken
    <3> QED
      BY <2>1, <3>1
  <2> QED
    BY <1>2, <2>1, <2>2 DEF ChunkOf
<1> QED
  BY <1>1, <1>2

\* The head taken, every queued chunk was said.
LEMMA TakeSourced ==
  ASSUME NEW q, NEW F, Taken(q, F), NEW ev, NEW s, NEW n, Sourced(ev, s, n, q)
  PROVE  Sourced(ev, s, n, F)
<1> SUFFICES ASSUME NEW j \in 1..Len(F), ChunkOf(F, j, ev)
             PROVE  \E k \in 1..n : TextPart(s, k, F[j].ops) \/ CallsPart(s, k, F[j].ops)
  BY DEF Sourced
<1>1. j + 1 \in 1..Len(q) /\ F[j] = q[j + 1] /\ ChunkOf(q, j + 1, ev)
  BY ChunkTake
<1> DEFINE h == j + 1
<1> HIDE DEF h
<1>2. h \in 1..Len(q) /\ F[j] = q[h] /\ ChunkOf(q, h, ev)
  BY <1>1 DEF h
<1> QED
  BY <1>2 DEF Sourced

\* The head taken, ready is still last; behind ready there is nothing of the event.
LEMMA TakeReady ==
  ASSUME NEW q, NEW F, Taken(q, F), NEW ev, NEW ended, ReadyLast(ev, ended, q)
  PROVE  /\ ReadyLast(ev, ended, F)
         /\ Closed(ev, ended, q) => Closed(ev, ended, F)
         /\ Queued(q, 1, ev, "ready") => ended /\ \A j \in 1..Len(F) : F[j].ev # ev
<1>1. ASSUME NEW j \in 1..Len(F), Queued(F, j, ev, "ready"), NEW i \in 1..Len(F)
      PROVE  ended /\ (F[i].ev = ev => i <= j)
  <2> DEFINE h == j + 1
             g == i + 1
  <2>1. Queued(q, h, ev, "ready") /\ h \in 1..Len(q) /\ g \in 1..Len(q) /\ F[i] = q[g]
    BY <1>1, QueuedTake DEF Taken
  <2> HIDE DEF h, g
  <2>2. ended /\ (q[g].ev = ev => g <= h)
    BY <2>1 DEF ReadyLast
  <2> QED
    BY <2>1, <2>2 DEF h, g
<1>2. ReadyLast(ev, ended, F)
  BY <1>1 DEF ReadyLast
<1>3. ASSUME \A j \in 1..Len(q) : ~Queued(q, j, ev, "ready"), NEW j \in 1..Len(F)
      PROVE  ~Queued(F, j, ev, "ready")
  <2>1. j + 1 \in 1..Len(q)
    BY DEF Taken
  <2> QED
    BY <1>3, <2>1, QueuedTake
<1>4. ASSUME Queued(q, 1, ev, "ready")
      PROVE  ended /\ \A j \in 1..Len(F) : F[j].ev # ev
  <2>1. 1 \in 1..Len(q)
    BY DEF Taken
  <2>2. ended /\ \A i \in 1..Len(q) : q[i].ev = ev => i <= 1
    BY <1>4, <2>1 DEF ReadyLast
  <2>3. ASSUME NEW j \in 1..Len(F)
        PROVE  F[j].ev # ev
    <3>1. j + 1 \in 1..Len(q) /\ F[j] = q[j + 1] /\ ~(j + 1 <= 1)
      BY DEF Taken
    <3> QED
      BY <2>2, <3>1
  <2> QED
    BY <2>2, <2>3
<1> QED
  BY <1>2, <1>3, <1>4 DEF Closed

\* The text stays in order and whole as the head of the queue goes to the document.
TextMoved(q, ev, text, text2) ==
  \/ ~Queued(q, 1, ev, "/-") /\ text2 = text
  \/ Queued(q, 1, ev, "/-") /\ text2 = Append(text, q[1].ops[1].v)

\* The text of the head goes from the front of the queue to the end of the document.
LEMMA TakeText ==
  ASSUME NEW q, NEW F, Taken(q, F), NEW ev, NEW text \in Seq(Nat), NEW text2, TextInOrder(ev, q, text),
         TextMoved(q, ev, text, text2), Queued(q, 1, ev, "/-") => q[1].ops[1].v \in Nat
  PROVE  TextInOrder(ev, F, text2)
<1>1. /\ \A a, b \in 1..Len(text) : a < b => text[a] < text[b]
      /\ \A j \in 1..Len(q) : Queued(q, j, ev, "/-") =>
           /\ \A a \in 1..Len(text) : text[a] < q[j].ops[1].v
           /\ \A i \in 1..(j - 1) : Queued(q, i, ev, "/-") => q[i].ops[1].v < q[j].ops[1].v
  BY DEF TextInOrder
<1>2. ASSUME NEW j \in 1..Len(F), Queued(F, j, ev, "/-")
      PROVE  /\ \A a \in 1..Len(text) : text[a] < F[j].ops[1].v
             /\ \A i \in 1..(j - 1) : Queued(F, i, ev, "/-") => F[i].ops[1].v < F[j].ops[1].v
             /\ Queued(q, 1, ev, "/-") => q[1].ops[1].v < F[j].ops[1].v
  <2> DEFINE h == j + 1
  <2>1. Queued(q, h, ev, "/-") /\ h \in 1..Len(q) /\ F[j] = q[h] /\ 1 \in 1..(h - 1)
    <3>1. Queued(q, h, ev, "/-")
      BY <1>2, QueuedTake
    <3>2. h \in 1..Len(q) /\ F[j] = q[h]
      BY DEF Taken
    <3> QED
      BY <3>1, <3>2
  <2>2. \A i \in 1..(j - 1) : i \in 1..Len(F) /\ i + 1 \in 1..(h - 1) /\ F[i] = q[i + 1]
    BY DEF Taken
  <2>3. \A i \in 1..(j - 1) : Queued(F, i, ev, "/-") => Queued(q, i + 1, ev, "/-")
    BY <2>2, QueuedTake
  <2> HIDE DEF h
  <2>4. /\ \A a \in 1..Len(text) : text[a] < q[h].ops[1].v
        /\ \A i \in 1..(h - 1) : Queued(q, i, ev, "/-") => q[i].ops[1].v < q[h].ops[1].v
    BY <1>1, <2>1
  <2> QED
    BY <2>1, <2>2, <2>3, <2>4
<1>3. CASE text2 = text
  BY <1>1, <1>2, <1>3 DEF TextInOrder
<1>4. CASE Queued(q, 1, ev, "/-") /\ text2 = Append(text, q[1].ops[1].v)
  <2> DEFINE v == q[1].ops[1].v
             L == Len(text)
  <2>1. v \in Nat
    BY <1>4
  <2>2. /\ L \in Nat /\ Len(text2) = L + 1 /\ \A a \in 1..L : text2[a] = text[a]
        /\ text2[L + 1] = v /\ \A a \in 1..Len(text2) : a \in 1..L \/ a = L + 1
    BY <1>4, <2>1, AppendIs
  <2>3. \A a \in 1..L : text[a] < v
    BY <1>1, <1>4 DEF Taken
  <2>4. \A j \in 1..Len(F) : Queued(F, j, ev, "/-") => v < F[j].ops[1].v /\ \A a \in 1..L : text[a] < F[j].ops[1].v
    BY <1>2, <1>4
  <2> HIDE DEF v
  <2>5. ASSUME NEW a \in 1..Len(text2), NEW b \in 1..Len(text2), a < b
        PROVE  text2[a] < text2[b]
    <3>1. a \in 1..L
      BY <2>2, <2>5
    <3>2. CASE b \in 1..L
      BY <1>1, <2>2, <2>5, <3>1, <3>2
    <3>3. CASE b = L + 1
      BY <2>2, <2>3, <3>1, <3>3
    <3> QED
      BY <2>2, <3>2, <3>3
  <2>6. \A j \in 1..Len(F) : Queued(F, j, ev, "/-") => \A a \in 1..Len(text2) : text2[a] < F[j].ops[1].v
    <3> HIDE DEF L
    <3> QED
      BY <2>2, <2>4
  <2> QED
    BY <1>2, <2>5, <2>6 DEF TextInOrder
<1> QED
  BY <1>3, <1>4 DEF TextMoved

\* It is kept while it goes.
LEMMA TakeKept ==
  ASSUME NEW q, NEW F, Taken(q, F), NEW ev, NEW s, NEW n, NEW text \in Seq(Nat), NEW text2,
         TextKept(ev, s, n, q, text),
         TextMoved(q, ev, text, text2), Queued(q, 1, ev, "/-") => q[1].ops[1].v \in Nat
  PROVE  TextKept(ev, s, n, F, text2)
<1> SUFFICES ASSUME NEW k \in 1..n, s[k].text, s[k].valid
             PROVE  \/ \E a \in 1..Len(text2) : text2[a] = k
                    \/ \E j \in 1..Len(F) : Queued(F, j, ev, "/-") /\ F[j].ops[1].v = k
  BY DEF TextKept
<1>1. CASE \E a \in 1..Len(text) : text[a] = k
  <2>1. PICK a \in 1..Len(text) : text[a] = k
    BY <1>1
  <2>2. a \in 1..Len(text2) /\ text2[a] = k
    <3>1. CASE text2 = text
      BY <2>1, <3>1
    <3>2. CASE Queued(q, 1, ev, "/-") /\ text2 = Append(text, q[1].ops[1].v)
      BY <2>1, <3>2, AppendIs
    <3> QED
      BY <3>1, <3>2 DEF TextMoved
  <2> QED
    BY <2>2
<1>2. CASE \E j \in 1..Len(q) : Queued(q, j, ev, "/-") /\ q[j].ops[1].v = k
  <2>1. PICK j \in 1..Len(q) : Queued(q, j, ev, "/-") /\ q[j].ops[1].v = k
    BY <1>2
  <2>2. CASE j = 1
    <3>1. text2 = Append(text, q[1].ops[1].v) /\ q[1].ops[1].v = k /\ q[1].ops[1].v \in Nat
      BY <2>1, <2>2 DEF TextMoved
    <3>2. Len(text) + 1 \in 1..Len(text2) /\ text2[Len(text) + 1] = k
      BY <3>1, AppendIs
    <3> QED
      BY <3>2
  <2>3. CASE j # 1
    <3>1. j - 1 \in 1..Len(F) /\ Queued(F, j - 1, ev, "/-")
      BY <2>1, <2>3, QueuedTake
    <3>2. F[j - 1] = q[j]
      <4>1. F[j - 1] = q[j - 1 + 1] /\ j - 1 + 1 = j
        BY <3>1 DEF Taken
      <4> QED
        BY <4>1
    <3> QED
      BY <2>1, <3>1, <3>2
  <2> QED
    BY <2>2, <2>3
<1> QED
  BY <1>1, <1>2 DEF TextKept

\* It is one that was said.
LEMMA TakeSaidOnly ==
  ASSUME NEW q, NEW ev, NEW s, NEW n, NEW text \in Seq(Nat), NEW text2, TextSaidOnly(s, n, text),
         TextMoved(q, ev, text, text2),
         Queued(q, 1, ev, "/-") => q[1].ops[1].v \in Nat /\ q[1].ops[1].v \in 1..n /\ s[q[1].ops[1].v].text
  PROVE  TextSaidOnly(s, n, text2)
<1>1. CASE text2 = text
  BY <1>1
<1>2. CASE Queued(q, 1, ev, "/-") /\ text2 = Append(text, q[1].ops[1].v)
  <2> DEFINE v == q[1].ops[1].v
             L == Len(text)
  <2>1. v \in Nat /\ v \in 1..n /\ s[v].text
    BY <1>2
  <2>2. /\ \A a \in 1..L : text2[a] = text[a]
        /\ text2[L + 1] = v /\ \A a \in 1..Len(text2) : a \in 1..L \/ a = L + 1
    BY <1>2, <2>1, AppendIs
  <2>3. \A a \in 1..L : text[a] \in 1..n /\ s[text[a]].text
    BY DEF TextSaidOnly
  <2> HIDE DEF v, L
  <2> QED
    BY <2>1, <2>2, <2>3 DEF TextSaidOnly
<1> QED
  BY <1>1, <1>2 DEF TextMoved

\* The calls the head opens are below those behind it.
LEMMA TakeCalls ==
  ASSUME NEW q, NEW F, Taken(q, F), NEW ev, NEW s, NEW n, NEW calls, NEW calls2,
         CallOrder(ev, s, n, q, calls),
         \/ Len(calls2) = Len(calls)
         \/ ChunkOf(q, 1, ev) /\ \E a \in 1..Len(q[1].ops) :
              Len(calls2) = q[1].ops[a].i /\ q[1].ops[a].i \in {0} \cup Mentioned(s, n)
  PROVE  CallOrder(ev, s, n, F, calls2)
<1>1. Len(calls2) \in {0} \cup Mentioned(s, n)
  BY DEF CallOrder
<1>2. ASSUME NEW j \in 1..Len(F), ChunkOf(F, j, ev), NEW a \in 1..Len(F[j].ops), F[j].ops[a].path = "call"
      PROVE  /\ Len(calls2) < F[j].ops[a].i
             /\ \A i \in 1..(j - 1) : ChunkOf(F, i, ev) => \A b \in 1..Len(F[i].ops) : F[i].ops[b].i < F[j].ops[a].i
  <2> DEFINE h == j + 1
  <2>1. h \in 1..Len(q) /\ F[j] = q[h] /\ ChunkOf(q, h, ev) /\ 1 \in 1..(h - 1)
    <3>1. h \in 1..Len(q) /\ F[j] = q[h] /\ ChunkOf(q, h, ev)
      BY <1>2, ChunkTake
    <3> QED
      BY <3>1
  <2>2. \A i \in 1..(j - 1) : i \in 1..Len(F) /\ i + 1 \in 1..(h - 1)
    BY DEF Taken
  <2>3. \A i \in 1..(j - 1) : F[i] = q[i + 1] /\ (ChunkOf(F, i, ev) => ChunkOf(q, i + 1, ev))
    BY <2>2, ChunkTake
  <2> HIDE DEF h
  <2>4. /\ Len(calls) < q[h].ops[a].i
        /\ \A i \in 1..(h - 1) : ChunkOf(q, i, ev) => \A b \in 1..Len(q[i].ops) : q[i].ops[b].i < q[h].ops[a].i
    BY <1>2, <2>1 DEF CallOrder
  <2>5. Len(calls2) < q[h].ops[a].i
    BY <2>1, <2>4
  <2>6. ASSUME NEW i \in 1..(j - 1), ChunkOf(F, i, ev), NEW b \in 1..Len(F[i].ops)
        PROVE  F[i].ops[b].i < F[j].ops[a].i
    <3> DEFINE g == i + 1
    <3>1. g \in 1..(h - 1) /\ F[i] = q[g] /\ ChunkOf(q, g, ev)
      BY <2>2, <2>3, <2>6
    <3> HIDE DEF g
    <3> QED
      BY <2>1, <2>4, <2>6, <3>1
  <2> QED
    BY <2>1, <2>5, <2>6
<1> QED
  BY <1>1, <1>2 DEF CallOrder

\* The head taken, the document is there if a chunk of it was.
LEMMA TakeFirst ==
  ASSUME NEW q, NEW F, Taken(q, F), NEW ev, NEW there, NEW there2, FirstTaken(ev, q, there),
         there => there2, ChunkOf(q, 1, ev) => there2
  PROVE  FirstTaken(ev, F, there2)
<1> SUFFICES ASSUME ~there2, NEW j \in 1..Len(F), ChunkOf(F, j, ev), \A i \in 1..(j - 1) : ~ChunkOf(F, i, ev)
             PROVE  First(F[j].ops)
  BY DEF FirstTaken
<1> DEFINE h == j + 1
<1>1. h \in 1..Len(q) /\ F[j] = q[h] /\ ChunkOf(q, h, ev)
  BY ChunkTake
<1>2. ASSUME NEW i \in 1..(h - 1), ChunkOf(q, i, ev)
      PROVE  FALSE
  <2>1. i \in 1..Len(q)
    BY <1>1 DEF Taken
  <2>2. i # 1
    BY <1>2
  <2>3. ChunkOf(F, i - 1, ev) /\ i - 1 \in 1..(j - 1)
    BY <1>2, <2>1, <2>2, ChunkTake
  <2> QED
    BY <2>3
<1> HIDE DEF h
<1> QED
  BY <1>1, <1>2 DEF FirstTaken

\* The head taken, what is there of a call is the document or a chunk behind it.
LEMMA TakeSome ==
  ASSUME NEW q, NEW F, Taken(q, F), NEW ev, NEW s, NEW n, NEW there, NEW there2, SomeTaken(ev, s, n, q, there),
         there => there2, ChunkOf(q, 1, ev) => there2
  PROVE  SomeTaken(ev, s, n, F, there2)
<1> SUFFICES ASSUME Mentioned(s, n) # {}, ~there2
             PROVE  \E j \in 1..Len(F) : ChunkOf(F, j, ev)
  BY DEF SomeTaken
<1>1. PICK j \in 1..Len(q) : ChunkOf(q, j, ev)
  BY DEF SomeTaken
<1>2. j - 1 \in 1..Len(F) /\ ChunkOf(F, j - 1, ev)
  BY <1>1, ChunkTake
<1> QED
  BY <1>2
-----------------------------------------------------------------------------
\* What the worker makes of a document with the patches of a chunk.
DocAfter(doc, ops) ==
  LET res == ApplyAll(doc, ops)
  IN IF ~InTurn(doc, ops) THEN doc ELSE [res.doc EXCEPT !.begun = doc.begun \/ res.ok]

\* Of the i-th call, a document loses nothing to a chunk whose patches carry it, and keeps what
\* the chunk has of it if it is not a text and the call is not one that was to be opened.
GrownArgs(s, k, doc, ops, i, doc2) ==
  LET once == Good(s, i)
      old == ArgsOf(doc, i)
      args == ArgsOf(doc2, i)
  IN /\ Ordered(once, old) /\ (HasArg(ops, i) => Under(once, old, k)) =>
          /\ Ordered(once, args) /\ Among(args, old, k)
          /\ ~HasArg(ops, i) => args = old
          /\ once => Keeps(args, old)
     /\ OpenedIn(doc2, i) => OpenedIn(doc, i) \/ OpenedBy(ops, Len(ops), i)
     /\ once /\ HasArg(ops, i) /\ ~ObjectAt(s, k, i) =>
          Has(args, k) \/ doc2.root = "list" \/ (OpenedBy(ops, Len(ops), i) /\ ~OpenedIn(doc2, i))
Grown(s, k, doc, ops, doc2) ==
  /\ doc2 \in Doc /\ doc2.begun /\ Entries(s, doc2)
  /\ doc.root = "list" => doc2.root = "list"
  /\ \/ TextPart(s, k, ops) /\ doc2.text = Append(doc.text, k) /\ doc2.calls = doc.calls
     \/ /\ CallsPart(s, k, ops) /\ doc2.text = doc.text
        /\ Len(doc2.calls) = Len(doc.calls) \/ \E a \in 1..Len(ops) : Len(doc2.calls) = ops[a].i
        /\ \A i \in 1..MaxCalls : GrownArgs(s, k, doc, ops, i, doc2)

\* A document that is begun is otherwise what it was.
LEMMA BegunIs ==
  ASSUME NEW doc \in Doc, NEW d, d = [doc EXCEPT !.begun = TRUE]
  PROVE  /\ d \in Doc /\ d.begun /\ d.root = doc.root /\ d.text = doc.text
         /\ d.calls = doc.calls /\ d.results = doc.results
BY DEF Doc

\* Entries that are left alone are as they were.
LEMMA EntriesSame ==
  ASSUME NEW s, NEW doc, NEW doc2, Entries(s, doc), doc2.calls = doc.calls,
         doc2.root = "dict" => doc.root = "dict"
  PROVE  Entries(s, doc2)
BY DEF Entries, OpenedIn

\* A chunk of text leaves the calls and adds at most its text.
LEMMA TextGrows ==
  ASSUME NEW s, NEW k \in Nat, NEW doc \in Doc, NEW ops, TextPart(s, k, ops), Entries(s, doc)
  PROVE  Grown(s, k, doc, ops, DocAfter(doc, ops))
<1> DEFINE o == Op("/-", 0, k)
           res == ApplyAll(doc, <<o>>)
<1>1. ops = <<o>> /\ o.path = "/-"
  BY DEF TextPart, Op
<1>2. /\ res.ok
      /\ res.doc = [doc EXCEPT !.root = IF doc.root = "none" THEN "list" ELSE doc.root,
                               !.text = Append(doc.text, k)]
  BY TextApplied
<1> HIDE DEF o
<1>3. InTurn(doc, ops)
  <2>1. 1 \in DOMAIN ops /\ ops[1] = o
    BY <1>1
  <2> QED
    BY <1>1, <2>1 DEF InTurn
<1> HIDE DEF res
<1> DEFINE begun == doc.begun \/ res.ok
<1>4. begun = TRUE
  BY <1>2
<1>5. DocAfter(doc, ops) = [res.doc EXCEPT !.begun = TRUE]
  <2>1. DocAfter(doc, ops) = [res.doc EXCEPT !.begun = begun]
    BY <1>1, <1>3 DEF DocAfter, res
  <2> HIDE DEF begun
  <2> QED
    BY <1>4, <2>1
<1>6. /\ res.doc \in Doc /\ res.doc.text = Append(doc.text, k) /\ res.doc.calls = doc.calls
      /\ res.doc.root = "dict" => doc.root = "dict"
      /\ doc.root = "list" => res.doc.root = "list"
  <2>1. Append(doc.text, k) \in Seq(Nat)
    BY DEF Doc
  <2> QED
    BY <1>2, <2>1 DEF Doc
<1> DEFINE d == DocAfter(doc, ops)
<1>7. d \in Doc /\ d.begun /\ d.root = res.doc.root /\ d.text = res.doc.text /\ d.calls = res.doc.calls
  BY <1>5, <1>6, BegunIs
<1> HIDE DEF d
<1>8. Entries(s, d)
  BY <1>6, <1>7, EntriesSame
<1> QED
  BY <1>6, <1>7, <1>8 DEF Grown, d

\* Where a chunk has the arguments of a call that the patches carry.
LEMMA SingleArg ==
  ASSUME NEW s, NEW k, NEW ops \in Seq(AnyOp), CallsPart(s, k, ops), NEW i \in 1..MaxCalls, Good(s, i), HasArg(ops, i)
  PROVE  \/ \E a \in 2..Len(ops) : ArgOf(ops[a], i) /\ CallOf(ops[a - 1], i)
         \/ Len(ops) = 1 /\ ArgOf(ops[1], i) /\ (ops[1].path = "args" => ObjectAt(s, k, i))
<1>1. PICK a \in 1..Len(ops) : ArgOf(ops[a], i)
  BY DEF HasArg
<1>2. Single(s, k, ops, i) /\ Len(ops) \in Nat
  BY LenProperties DEF CallsPart
<1>3. \/ Len(ops) = 1 /\ (ops[1].path = "args" => ObjectAt(s, k, i))
      \/ a > 1 /\ CallOf(ops[a - 1], i)
  BY <1>1, <1>2 DEF Single
<1>4. CASE a > 1 /\ CallOf(ops[a - 1], i)
  <2>1. a \in 2..Len(ops)
    BY <1>2, <1>4
  <2> QED
    BY <1>1, <1>4, <2>1
<1>5. CASE Len(ops) = 1 /\ (ops[1].path = "args" => ObjectAt(s, k, i))
  <2>1. a = 1
    BY <1>5
  <2> QED
    BY <1>1, <1>5, <2>1
<1> QED
  BY <1>3, <1>4, <1>5

\* A call that a chunk opens was not there.
LEMMA OpenedNew ==
  ASSUME NEW ops, NEW i \in 1..MaxCalls, OpenedBy(ops, Len(ops), i), NEW doc \in Doc,
         \A a \in 1..Len(ops) : ops[a].path = "call" => Len(doc.calls) < ops[a].i
  PROVE  Len(doc.calls) < i /\ ArgsOf(doc, i) = <<>> /\ ~OpenedIn(doc, i)
<1>1. PICK a \in 1..Len(ops) : CallOf(ops[a], i)
  BY DEF OpenedBy
<1>2. Len(doc.calls) < i /\ Len(doc.calls) \in Nat /\ i \in Nat
  <2>1. ops[a].path = "call" /\ ops[a].i = i
    BY <1>1 DEF CallOf
  <2>2. Len(doc.calls) < i
    BY <2>1
  <2>3. doc.calls \in Seq(Entry)
    BY DEF Doc
  <2> QED
    BY <2>2, <2>3, LenProperties, MaxCallsNat
<1>3. ~(i <= Len(doc.calls))
  BY <1>2
<1> QED
  BY <1>2, <1>3 DEF ArgsOf, OpenedIn

\* And it is one that was to be opened.
LEMMA OpenedOpenable ==
  ASSUME NEW s, IsScript(s), NEW k \in 1..Len(s), NEW ops \in Seq(AnyOp), CallsPart(s, k, ops),
         NEW i, OpenedBy(ops, Len(ops), i)
  PROVE  Openable(s, i)
<1>1. PICK a \in 1..Len(ops) : CallOf(ops[a], i)
  BY DEF OpenedBy
<1>2. PICK h \in DOMAIN s[k].calls : From(s[k].calls[h], ops[a])
  BY <1>1 DEF CallsPart
<1>3. s[k].calls[h].id /\ s[k].calls[h].i = i /\ ToolCalls(s[k]) # {}
  BY <1>1, <1>2 DEF From, CallOf, CallsPart
<1>4. <<k, h>> \in Places(s) /\ CallAt(s, <<k, h>>) = s[k].calls[h] /\ <<k, h>>[1] = k
  BY ScriptIs, PlacesAre
<1> QED
  BY <1>3, <1>4 DEF Openable

\* What a chunk of calls does to each of them: in a document that refuses it, nothing,
LEMMA RefusedArgs ==
  ASSUME NEW s, NEW k \in Nat, NEW doc \in Doc, NEW ops \in Seq(AnyOp), CallsPart(s, k, ops), ~InTurn(doc, ops),
         \A a \in 1..Len(ops) : ops[a].path = "call" => Len(doc.calls) < ops[a].i,
         NEW i \in 1..MaxCalls
  PROVE  GrownArgs(s, k, doc, ops, i, doc)
<1> DEFINE old == ArgsOf(doc, i)
<1>1. Among(old, old, k) /\ Keeps(old, old)
  <2> HIDE DEF old
  <2>1. \A a \in 1..Len(old) : Has(old, old[a])
    BY DEF Has
  <2> QED
    BY <2>1 DEF Among, Keeps
<1>2. ASSUME Good(s, i), HasArg(ops, i), ~ObjectAt(s, k, i)
      PROVE  OpenedBy(ops, Len(ops), i) /\ ~OpenedIn(doc, i)
  <2>1. CASE \E a \in 2..Len(ops) : ArgOf(ops[a], i) /\ CallOf(ops[a - 1], i)
    <3>1. PICK a \in 2..Len(ops) : CallOf(ops[a - 1], i)
      BY <2>1
    <3>2. a - 1 \in 1..Len(ops)
      BY LenProperties
    <3>3. OpenedBy(ops, Len(ops), i)
      BY <3>1, <3>2 DEF OpenedBy
    <3> QED
      BY <3>3, OpenedNew
  <2>2. CASE Len(ops) = 1 /\ ArgOf(ops[1], i) /\ (ops[1].path = "args" => ObjectAt(s, k, i))
    <3>1. ops[1].path = "args/-" /\ 1 \in DOMAIN ops
      BY <1>2, <2>2 DEF ArgOf
    <3> QED
      BY <3>1 DEF InTurn
  <2> QED
    BY <1>2, <2>1, <2>2, SingleArg
<1> QED
  BY <1>1, <1>2 DEF GrownArgs

\* In one that takes it, what its patches make of them.
LEMMA AppliedArgs ==
  ASSUME NEW s, NEW k \in Nat, NEW doc \in Doc, NEW ops \in Seq(AnyOp), CallsPart(s, k, ops),
         ~(Len(ops) = 1 /\ ops[1].path = "args"),
         \A a \in 1..Len(ops) : ops[a].path = "call" => Len(doc.calls) < ops[a].i,
         NEW i \in 1..MaxCalls
  PROVE  GrownArgs(s, k, doc, ops, i, ApplyAll(doc, ops).doc)
<1> DEFINE L == Len(ops)
           res == ApplyAll(doc, ops)
           d == res.doc
           g == Good(s, i)
           old == ArgsOf(doc, i)
           args == ArgsOf(d, i)
<1>1. Worked(s, k, doc, ops, L, res) /\ L \in Nat
  BY CallsApplied, LenProperties
<1>2. MadeOpen(s, k, doc, ops, i, L, res) /\ Made(doc, ops, L, d)
  BY <1>1 DEF Worked
<1>3. OpenedIn(d, i) => OpenedIn(doc, i) \/ OpenedBy(ops, L, i)
  BY <1>2 DEF MadeOpen
<1>4. ASSUME Ordered(g, old), HasArg(ops, i) => Under(g, old, k)
      PROVE  /\ Ordered(g, args) /\ Among(args, old, k)
             /\ ~HasArg(ops, i) => args = old
             /\ g => Keeps(args, old)
  <2>1. MadeArgs(s, k, doc, ops, i, L, d)
    BY <1>1, <1>4 DEF Worked
  <2>2. /\ Ordered(g, args) /\ Among(args, old, k)
        /\ (\A b \in 1..L : ~ArgOf(ops[b], i)) => args = old
        /\ (\A b \in 1..L : ArgOf(ops[b], i) => ops[b].path # "args") => Keeps(args, old)
    BY <2>1 DEF MadeArgs
  <2>3. ~HasArg(ops, i) => args = old
    BY <2>2 DEF HasArg
  <2>4. ASSUME g
        PROVE  Keeps(args, old)
    <3>1. CASE \A b \in 1..L : ArgOf(ops[b], i) => ops[b].path # "args"
      BY <2>2, <3>1
    <3>2. CASE \E b \in 1..L : ArgOf(ops[b], i) /\ ops[b].path = "args"
      <4>1. PICK b \in 1..L : ArgOf(ops[b], i) /\ ops[b].path = "args"
        BY <3>2
      <4>2. Single(s, k, ops, i)
        BY <2>4 DEF CallsPart
      <4>3. b > 1 /\ CallOf(ops[b - 1], i)
        <5>1. \/ Len(ops) = 1 /\ (ops[1].path = "args" => ObjectAt(s, k, i))
              \/ b > 1 /\ CallOf(ops[b - 1], i)
          BY <4>1, <4>2 DEF Single
        <5>2. Len(ops) = 1 => b = 1
          BY <4>1
        <5> QED
          BY <4>1, <5>1, <5>2
      <4>4. b - 1 \in 1..L
        BY <1>1, <4>3
      <4>5. OpenedBy(ops, L, i)
        BY <4>3, <4>4 DEF OpenedBy
      <4>6. old = <<>>
        BY <4>5, OpenedNew
      <4> QED
        BY <4>6 DEF Keeps
    <3> QED
      BY <3>1, <3>2
  <2> QED
    BY <2>2, <2>3, <2>4
<1>5. ASSUME g, HasArg(ops, i), ~ObjectAt(s, k, i)
      PROVE  Has(args, k) \/ d.root = "list" \/ (OpenedBy(ops, L, i) /\ ~OpenedIn(d, i))
  <2>1. CASE \E a \in 2..L : ArgOf(ops[a], i) /\ CallOf(ops[a - 1], i)
    <3>1. PICK a \in 2..L : ArgOf(ops[a], i) /\ CallOf(ops[a - 1], i)
      BY <2>1
    <3>2. a - 1 \in 1..L
      BY <1>1
    <3>3. OpenedBy(ops, L, i)
      BY <3>1, <3>2 DEF OpenedBy
    <3>4. OpenedIn(d, i) => Has(args, k)
      BY <1>2, <1>5, <3>1 DEF MadeOpen
    <3> QED
      BY <3>3, <3>4
  <2>2. CASE L = 1 /\ ArgOf(ops[1], i) /\ (ops[1].path = "args" => ObjectAt(s, k, i))
    <3> DEFINE op == ops[1]
               begin == [ok |-> TRUE, doc |-> doc]
    <3>0. 1 \in 1..Len(ops) /\ 1 \in DOMAIN ops
      BY <2>2
    <3>1. op.path = "args/-" /\ ops = <<op>> /\ op \in AnyOp
      <4>1. op.path = "args/-"
        BY <1>5, <2>2 DEF ArgOf
      <4>2. ops = <<op>>
        BY <2>2
      <4>3. op \in AnyOp
        BY <3>0
      <4> QED
        BY <4>1, <4>2, <4>3
    <3>2. op \in CallOp /\ op.v = k
      BY <3>0 DEF CallsPart
    <3>3. res = After(begin, op)
      BY <3>1, OneApplied
    <3>4. CASE doc.root = "list"
      BY <1>2, <3>4 DEF Made
    <3>5. CASE doc.root # "list"
      <4>1. Applies(doc, op)
        BY <3>1, <3>5 DEF Applies
      <4> HIDE DEF op
      <4>2. d = Apply(doc, op)
        BY <3>3, <4>1 DEF After
      <4>3. Stepped(doc, op, d)
        BY <3>1, <3>2, <4>1, <4>2, CallStep
      <4>4. ArgOf(op, i)
        BY <2>2 DEF op
      <4>5. args = Append(old, k)
        BY <3>1, <3>2, <4>3, <4>4 DEF Stepped
      <4>6. old \in Seq(Nat)
        BY ArgsTyped
      <4>7. Has(Append(old, k), k)
        <5> HIDE DEF old
        <5> QED
          BY <4>6, AppendIs DEF Has
      <4> QED
        BY <4>5, <4>7
    <3> QED
      BY <3>4, <3>5
  <2> QED
    BY <1>5, <2>1, <2>2, SingleArg
<1> QED
  BY <1>3, <1>4, <1>5 DEF GrownArgs

\* A chunk of calls leaves the text and adds at most its calls.
LEMMA CallsGrow ==
  ASSUME NEW s, IsScript(s), NEW k \in 1..Len(s), NEW doc \in Doc, NEW ops \in Seq(AnyOp), ops # <<>>,
         CallsPart(s, k, ops), Entries(s, doc), doc.begun \/ (doc = NewDoc /\ First(ops)),
         \A a \in 1..Len(ops) : ops[a].path = "call" => Len(doc.calls) < ops[a].i
  PROVE  Grown(s, k, doc, ops, DocAfter(doc, ops))
<1>0. k \in Nat
  OBVIOUS
<1>1. CASE ~InTurn(doc, ops)
  <2>1. doc.begun /\ DocAfter(doc, ops) = doc
    BY <1>1 DEF InTurn, DocAfter
  <2>2. \A i \in 1..MaxCalls : GrownArgs(s, k, doc, ops, i, doc)
    BY <1>0, <1>1, RefusedArgs
  <2> QED
    BY <2>1, <2>2 DEF Grown
<1>2. CASE InTurn(doc, ops)
  <2> DEFINE res == ApplyAll(doc, ops)
             begun == doc.begun \/ res.ok
             d == DocAfter(doc, ops)
  <2>1. ~(Len(ops) = 1 /\ ops[1].path = "args")
    <3> SUFFICES ASSUME Len(ops) = 1, ops[1].path = "args"
                 PROVE  FALSE
      OBVIOUS
    <3>1. CASE doc.begun
      <4>1. PICK j \in DOMAIN ops : ops[j].path \in {"/-", "args/-", "results/-"}
        BY <1>2, <3>1 DEF InTurn
      <4>2. j = 1
        OBVIOUS
      <4> QED
        BY <4>1, <4>2
    <3>2. CASE First(ops)
      <4>1. OpenedBy(ops, 1 - 1, ops[1].i)
        BY <3>2 DEF First
      <4>2. \A m \in 1..(1 - 1) : FALSE
        OBVIOUS
      <4> QED
        BY <4>1, <4>2 DEF OpenedBy
    <3> QED
      BY <3>1, <3>2
  <2>2. \A i \in 1..MaxCalls : GrownArgs(s, k, doc, ops, i, res.doc)
    BY <1>0, <2>1, AppliedArgs
  <2>8. Made(doc, ops, Len(ops), res.doc)
    BY <1>0, CallsApplied DEF Worked
  <2>3. begun = TRUE
    <3>1. CASE doc.begun
      BY <3>1
    <3>2. CASE doc = NewDoc /\ First(ops)
      <4>1. ApplyAll(NewDoc, ops).ok
        BY <1>0, <3>2, FirstApplied
      <4> QED
        BY <3>2, <4>1
    <3> QED
      BY <3>1, <3>2
  <2>4. d = [res.doc EXCEPT !.begun = TRUE]
    <3>1. d = [res.doc EXCEPT !.begun = begun]
      BY <1>2 DEF DocAfter
    <3> HIDE DEF begun, d, res
    <3> QED
      BY <2>3, <3>1
  <2> HIDE DEF begun, d, res
  <2>5. /\ res.doc \in Doc /\ res.doc.text = doc.text /\ (doc.root = "list" => res.doc.root = "list")
        /\ Len(res.doc.calls) = Len(doc.calls) \/ \E a \in 1..Len(ops) : Len(res.doc.calls) = ops[a].i
        /\ res.doc.root = "dict" => res.doc.calls # <<>>
    BY <2>8 DEF Made, Entries
  <2>6. d \in Doc /\ d.begun /\ d.root = res.doc.root /\ d.text = res.doc.text /\ d.calls = res.doc.calls
    BY <2>4, <2>5, BegunIs
  <2>9. ASSUME NEW i \in 1..MaxCalls
        PROVE  GrownArgs(s, k, doc, ops, i, d)
    <3>1. ArgsOf(d, i) = ArgsOf(res.doc, i) /\ (OpenedIn(d, i) <=> OpenedIn(res.doc, i))
      BY <2>6 DEF ArgsOf, OpenedIn
    <3> QED
      BY <2>2, <2>6, <3>1 DEF GrownArgs
  <2>7. Entries(s, d)
    <3>1. ASSUME NEW i \in 1..MaxCalls, OpenedIn(d, i)
          PROVE  Openable(s, i)
      <4>1. OpenedIn(doc, i) \/ OpenedBy(ops, Len(ops), i)
        BY <2>9, <3>1 DEF GrownArgs
      <4> QED
        BY <4>1, OpenedOpenable DEF Entries
    <3> QED
      BY <2>5, <2>6, <3>1 DEF Entries
  <2>10. /\ d.text = doc.text /\ (doc.root = "list" => d.root = "list")
         /\ Len(d.calls) = Len(doc.calls) \/ \E a \in 1..Len(ops) : Len(d.calls) = ops[a].i
    BY <2>5, <2>6
  <2> QED
    BY <2>6, <2>7, <2>9, <2>10 DEF Grown, d
<1> QED
  BY <1>1, <1>2
-----------------------------------------------------------------------------
\* A chunk that has arguments for a call is one of calls, and has them at its place.
LEMMA ArgPart ==
  ASSUME NEW s, IsScript(s), NEW k \in 1..Len(s), NEW ops, TextPart(s, k, ops) \/ CallsPart(s, k, ops),
         NEW i \in 1..MaxCalls, HasArg(ops, i)
  PROVE  ops[1].v = k /\ CallsPart(s, k, ops) /\ ~TextPart(s, k, ops) /\ SaysArgs(s, k, i)
<1>1. PICK a \in 1..Len(ops) : ArgOf(ops[a], i)
  BY DEF HasArg
<1>2. ~TextPart(s, k, ops)
  <2> SUFFICES ASSUME TextPart(s, k, ops)
               PROVE  FALSE
    OBVIOUS
  <2> DEFINE o == Op("/-", 0, k)
  <2>1. ops = <<o>> /\ o.path = "/-"
    BY DEF TextPart, Op
  <2> HIDE DEF o
  <2>2. ops[a] = o
    BY <2>1
  <2> QED
    BY <1>1, <2>1, <2>2 DEF ArgOf
<1>3. CallsPart(s, k, ops)
  BY <1>2
<1>4. ops[1].v = k
  <2>1. ops \in Seq(CallOp) /\ Len(ops) \in Nat
    BY <1>3, LenProperties DEF CallsPart
  <2>2. 1 \in 1..Len(ops)
    BY <1>1, <2>1
  <2> QED
    BY <1>3, <2>2 DEF CallsPart
<1>5. PICK h \in DOMAIN s[k].calls : From(s[k].calls[h], ops[a])
  BY <1>3 DEF CallsPart
<1>6. s[k].calls[h] \in ToSet(s[k].calls) /\ s[k].calls[h].i = i /\ s[k].calls[h].args # "none"
  BY <1>1, <1>5 DEF From, ArgOf, ToSet
<1>7. k \in DOMAIN s
  BY ScriptIs
<1> QED
  BY <1>2, <1>3, <1>4, <1>6, <1>7 DEF SaysArgs

\* So has each that is queued.
LEMMA ArgsSourced ==
  ASSUME NEW s, IsScript(s), NEW n \in Nat, n <= Len(s), NEW q, NEW ev, Sourced(ev, s, n, q),
         NEW i \in 1..MaxCalls, NEW j \in 1..Len(q), ArgsAt(q, j, ev, i)
  PROVE  q[j].ops[1].v \in 1..n /\ SaysArgs(s, q[j].ops[1].v, i)
<1>1. ChunkOf(q, j, ev) /\ HasArg(q[j].ops, i)
  BY DEF ArgsAt
<1>2. PICK k \in 1..n : TextPart(s, k, q[j].ops) \/ CallsPart(s, k, q[j].ops)
  BY <1>1 DEF Sourced
<1>3. k \in 1..Len(s)
  BY ScriptIs
<1>4. q[j].ops[1].v = k /\ SaysArgs(s, k, i)
  BY <1>1, <1>2, <1>3, ArgPart
<1> QED
  BY <1>4

\* Chunks with arguments in the queue, as messages are put on it.
LEMMA ArgsPut ==
  ASSUME NEW q, NEW new, NEW F, Put(q, new, F), NEW ev, NEW i
  PROVE  /\ \A j \in 1..Len(q) : j \in 1..Len(F) /\ F[j] = q[j] /\ (ArgsAt(F, j, ev, i) <=> ArgsAt(q, j, ev, i))
         /\ \A j \in 1..Len(new) : ArgsAt(new, j, ev, i) =>
              /\ Len(q) + j \in 1..Len(F) /\ F[Len(q) + j] = new[j]
              /\ ArgsAt(F, Len(q) + j, ev, i)
         /\ \A j \in 1..Len(F) : ArgsAt(F, j, ev, i) =>
              \/ j \in 1..Len(q) /\ F[j] = q[j] /\ ArgsAt(q, j, ev, i)
              \/ /\ j > Len(q) /\ j - Len(q) \in 1..Len(new) /\ F[j] = new[j - Len(q)]
                 /\ ArgsAt(new, j - Len(q), ev, i)
<1>1. /\ \A j \in 1..Len(q) : j \in 1..Len(F) /\ F[j] = q[j] /\ (ChunkOf(F, j, ev) <=> ChunkOf(q, j, ev))
      /\ \A j \in 1..Len(new) : ChunkOf(new, j, ev) => ChunkOf(F, Len(q) + j, ev)
      /\ \A j \in 1..Len(F) : ChunkOf(F, j, ev) =>
           \/ j \in 1..Len(q) /\ F[j] = q[j] /\ ChunkOf(q, j, ev)
           \/ /\ j > Len(q) /\ j - Len(q) \in 1..Len(new) /\ F[j] = new[j - Len(q)]
              /\ ChunkOf(new, j - Len(q), ev)
  BY ChunkPut
<1>2. \A j \in 1..Len(new) : Len(q) + j \in 1..Len(F) /\ F[Len(q) + j] = new[j]
  BY DEF Put
<1>3. ASSUME NEW j \in 1..Len(F), ArgsAt(F, j, ev, i)
      PROVE  \/ j \in 1..Len(q) /\ F[j] = q[j] /\ ArgsAt(q, j, ev, i)
             \/ /\ j > Len(q) /\ j - Len(q) \in 1..Len(new) /\ F[j] = new[j - Len(q)]
                /\ ArgsAt(new, j - Len(q), ev, i)
  <2>1. ChunkOf(F, j, ev) /\ HasArg(F[j].ops, i)
    BY <1>3 DEF ArgsAt
  <2>2. CASE j \in 1..Len(q) /\ F[j] = q[j] /\ ChunkOf(q, j, ev)
    BY <2>1, <2>2 DEF ArgsAt
  <2>3. CASE /\ j > Len(q) /\ j - Len(q) \in 1..Len(new) /\ F[j] = new[j - Len(q)]
             /\ ChunkOf(new, j - Len(q), ev)
    BY <2>1, <2>3 DEF ArgsAt
  <2> QED
    BY <1>1, <2>1, <2>2, <2>3
<1>4. \A j \in 1..Len(q) : ArgsAt(F, j, ev, i) <=> ArgsAt(q, j, ev, i)
  BY <1>1 DEF ArgsAt
<1>5. \A j \in 1..Len(new) : ArgsAt(new, j, ev, i) => ArgsAt(F, Len(q) + j, ev, i)
  BY <1>1, <1>2 DEF ArgsAt
<1> QED
  BY <1>1, <1>2, <1>3, <1>4, <1>5

\* Arguments that are put behind all others keep the order.
LEMMA PutArgsOrder ==
  ASSUME NEW q, NEW new, NEW F, Put(q, new, F), NEW ev, NEW once, NEW args, NEW i, ArgsInOrder(ev, once, q, args, i),
         \A j \in 1..Len(new) : ArgsAt(new, j, ev, i) =>
           /\ Under(once, args, new[j].ops[1].v)
           /\ \A l \in 1..Len(q) : ArgsAt(q, l, ev, i) => Lt(once, q[l].ops[1].v, new[j].ops[1].v)
           /\ \A l \in 1..(j - 1) : ArgsAt(new, l, ev, i) => Lt(once, new[l].ops[1].v, new[j].ops[1].v)
  PROVE  ArgsInOrder(ev, once, F, args, i)
<1>0. \A l \in 1..Len(q) : F[l] = q[l] /\ (ArgsAt(F, l, ev, i) <=> ArgsAt(q, l, ev, i))
  BY ArgsPut
<1>1. Ordered(once, args)
  BY DEF ArgsInOrder
<1>2. ASSUME NEW j \in 1..Len(F), ArgsAt(F, j, ev, i)
      PROVE  /\ Under(once, args, F[j].ops[1].v)
             /\ \A l \in 1..(j - 1) : ArgsAt(F, l, ev, i) => Lt(once, F[l].ops[1].v, F[j].ops[1].v)
  <2>1. CASE j \in 1..Len(q) /\ F[j] = q[j] /\ ArgsAt(q, j, ev, i)
    <3>1. /\ Under(once, args, q[j].ops[1].v)
          /\ \A l \in 1..(j - 1) : ArgsAt(q, l, ev, i) => Lt(once, q[l].ops[1].v, q[j].ops[1].v)
      BY <2>1 DEF ArgsInOrder
    <3>2. \A l \in 1..(j - 1) : l \in 1..Len(q)
      BY <2>1 DEF Put
    <3>3. \A l \in 1..(j - 1) : F[l] = q[l] /\ (ArgsAt(F, l, ev, i) => ArgsAt(q, l, ev, i))
      BY <1>0, <3>2
    <3> QED
      BY <2>1, <3>1, <3>3
  <2>2. CASE /\ j > Len(q) /\ j - Len(q) \in 1..Len(new) /\ F[j] = new[j - Len(q)]
             /\ ArgsAt(new, j - Len(q), ev, i)
    <3> DEFINE h == j - Len(q)
    <3>1. h \in 1..Len(new) /\ F[j] = new[h] /\ ArgsAt(new, h, ev, i)
      BY <2>2
    <3>2. ASSUME NEW l \in 1..(j - 1), ArgsAt(F, l, ev, i)
          PROVE  Lt(once, F[l].ops[1].v, F[j].ops[1].v)
      <4>1. l \in 1..Len(F)
        BY <2>2 DEF Put
      <4>2. CASE l \in 1..Len(q) /\ F[l] = q[l] /\ ArgsAt(q, l, ev, i)
        <5> HIDE DEF h
        <5> QED
          BY <3>1, <4>2
      <4>3. CASE /\ l > Len(q) /\ l - Len(q) \in 1..Len(new) /\ F[l] = new[l - Len(q)]
                 /\ ArgsAt(new, l - Len(q), ev, i)
        <5>1. l - Len(q) \in 1..(h - 1)
          BY <2>2, <4>3 DEF Put
        <5> HIDE DEF h
        <5> QED
          BY <3>1, <4>3, <5>1
      <4> QED
        BY <3>2, <4>1, <4>2, <4>3, ArgsPut
    <3> HIDE DEF h
    <3> QED
      BY <3>1, <3>2
  <2> QED
    BY <1>2, <2>1, <2>2, ArgsPut
<1> QED
  BY <1>1, <1>2 DEF ArgsInOrder

\* The arguments of the chunks from n on are put on the queue.
ArgsNew(s, n, n2, ev, new, i) ==
  \A k \in 1..n2 : k > n /\ SaysArgs(s, k, i) /\ Heard(s[k]) =>
    \E j \in 1..Len(new) : ArgsAt(new, j, ev, i) /\ new[j].ops[1].v = k

\* What is owed of a call is still there if it is not opened late.
LEMMA PutArgsKept ==
  ASSUME NEW q, NEW new, NEW F, Put(q, new, F), NEW ev, NEW s, NEW n \in Nat, NEW n2 \in Nat, NEW doc, NEW i,
         ArgsKept(ev, s, n, q, doc, i),
         OpenQueued(ev, F, i) => OpenQueued(ev, q, i) \/ \A k \in 1..n : ~SaysArgs(s, k, i),
         ArgsNew(s, n, n2, ev, new, i)
  PROVE  ArgsKept(ev, s, n2, F, doc, i)
<1> SUFFICES ASSUME NEW k \in 1..n2, Owed(s, k, i), Heard(s[k])
             PROVE  \/ Has(ArgsOf(doc, i), k)
                    \/ \E j \in 1..Len(F) : ArgsAt(F, j, ev, i) /\ F[j].ops[1].v = k
                    \/ ~OpenQueued(ev, F, i) /\ ~OpenedIn(doc, i)
                    \/ doc.root = "list"
  BY DEF ArgsKept
<1>0. \A j \in 1..Len(q) : j \in 1..Len(F) /\ F[j] = q[j] /\ (ArgsAt(F, j, ev, i) <=> ArgsAt(q, j, ev, i))
  BY ArgsPut
<1>1. SaysArgs(s, k, i)
  BY DEF Owed
<1>2. CASE k <= n
  <2>1. k \in 1..n
    BY <1>2
  <2>2. \/ Has(ArgsOf(doc, i), k)
        \/ \E j \in 1..Len(q) : ArgsAt(q, j, ev, i) /\ q[j].ops[1].v = k
        \/ ~OpenQueued(ev, q, i) /\ ~OpenedIn(doc, i)
        \/ doc.root = "list"
    BY <2>1 DEF ArgsKept
  <2>3. ASSUME NEW j \in 1..Len(q), ArgsAt(q, j, ev, i), q[j].ops[1].v = k
        PROVE  j \in 1..Len(F) /\ ArgsAt(F, j, ev, i) /\ F[j].ops[1].v = k
    BY <1>0, <2>3
  <2>4. ~OpenQueued(ev, q, i) => ~OpenQueued(ev, F, i)
    BY <1>1, <2>1
  <2> QED
    BY <2>2, <2>3, <2>4
<1>3. CASE k > n
  <2>1. PICK j \in 1..Len(new) : ArgsAt(new, j, ev, i) /\ new[j].ops[1].v = k
    BY <1>1, <1>3 DEF ArgsNew
  <2> DEFINE h == Len(q) + j
  <2>2. h \in 1..Len(F) /\ ArgsAt(F, h, ev, i) /\ F[h] = new[j]
    BY <2>1, ArgsPut
  <2> HIDE DEF h
  <2> QED
    BY <2>1, <2>2
<1> QED
  BY <1>2, <1>3

\* An opening in the queue was there or is put on it.
LEMMA OpenPut ==
  ASSUME NEW q, NEW new, NEW F, Put(q, new, F), NEW ev, NEW i, OpenQueued(ev, F, i)
  PROVE  \/ OpenQueued(ev, q, i)
         \/ \E j \in 1..Len(new) : ChunkOf(new, j, ev) /\ OpenedBy(new[j].ops, Len(new[j].ops), i)
<1>1. PICK j \in 1..Len(F) : ChunkOf(F, j, ev) /\ OpenedBy(F[j].ops, Len(F[j].ops), i)
  BY DEF OpenQueued
<1>2. CASE j \in 1..Len(q) /\ F[j] = q[j] /\ ChunkOf(q, j, ev)
  BY <1>1, <1>2 DEF OpenQueued
<1>3. CASE /\ j > Len(q) /\ j - Len(q) \in 1..Len(new) /\ F[j] = new[j - Len(q)]
           /\ ChunkOf(new, j - Len(q), ev)
  <2> DEFINE h == j - Len(q)
  <2>1. h \in 1..Len(new) /\ F[j] = new[h] /\ ChunkOf(new, h, ev)
    BY <1>3
  <2> HIDE DEF h
  <2> QED
    BY <1>1, <2>1
<1> QED
  BY <1>1, <1>2, <1>3, ChunkPut

\* Messages that are no chunks of the event leave its calls.
LEMMA PutCallsOther ==
  ASSUME NEW q, NEW new, NEW F, Put(q, new, F), NEW ev, NEW s, NEW n \in Nat, NEW doc,
         CallsKept(ev, s, n, q, doc), \A j \in 1..Len(new) : ~ChunkOf(new, j, ev)
  PROVE  CallsKept(ev, s, n, F, doc)
<1> SUFFICES ASSUME NEW i \in 1..MaxCalls
             PROVE  /\ ArgsInOrder(ev, Good(s, i), F, ArgsOf(doc, i), i)
                    /\ ArgsSaidOnly(s, n, ArgsOf(doc, i), i)
                    /\ Good(s, i) => ArgsKept(ev, s, n, F, doc, i)
  BY DEF CallsKept
<1>1. /\ ArgsInOrder(ev, Good(s, i), q, ArgsOf(doc, i), i)
      /\ ArgsSaidOnly(s, n, ArgsOf(doc, i), i)
      /\ Good(s, i) => ArgsKept(ev, s, n, q, doc, i)
  BY DEF CallsKept
<1>2. \A j \in 1..Len(new) : ~ArgsAt(new, j, ev, i)
  BY DEF ArgsAt
<1>3. ArgsInOrder(ev, Good(s, i), F, ArgsOf(doc, i), i)
  BY <1>1, <1>2, PutArgsOrder
<1>4. ASSUME Good(s, i)
      PROVE  ArgsKept(ev, s, n, F, doc, i)
  <2>1. OpenQueued(ev, F, i) => OpenQueued(ev, q, i)
    BY OpenPut
  <2>2. ArgsNew(s, n, n, ev, new, i)
    BY DEF ArgsNew
  <2>3. ArgsKept(ev, s, n, q, doc, i)
    BY <1>1, <1>4
  <2> QED
    BY <2>1, <2>2, <2>3, PutArgsKept
<1> QED
  BY <1>1, <1>3, <1>4

\* The next chunk's arguments are behind those there are, and the calls it opens are new.
LEMMA PutCallsSaid ==
  ASSUME NEW q, NEW new, NEW F, Put(q, new, F), NEW ev, NEW s, IsScript(s), NEW n \in Nat, NEW k \in 1..Len(s),
         k = n + 1, Sourced(ev, s, n, q), NEW doc, CallsKept(ev, s, n, q, doc),
         \A j \in 1..Len(new) : ChunkOf(new, j, ev) => TextPart(s, k, new[j].ops) \/ CallsPart(s, k, new[j].ops),
         ChunkSays(s, k, ev, new) \/ (new = <<>> /\ ~Heard(s[k]))
  PROVE  CallsKept(ev, s, k, F, doc)
<1> SUFFICES ASSUME NEW i \in 1..MaxCalls
             PROVE  /\ ArgsInOrder(ev, Good(s, i), F, ArgsOf(doc, i), i)
                    /\ ArgsSaidOnly(s, k, ArgsOf(doc, i), i)
                    /\ Good(s, i) => ArgsKept(ev, s, k, F, doc, i)
  BY DEF CallsKept
<1> DEFINE args == ArgsOf(doc, i)
<1>1. /\ ArgsInOrder(ev, Good(s, i), q, args, i)
      /\ ArgsSaidOnly(s, n, args, i)
      /\ Good(s, i) => ArgsKept(ev, s, n, q, doc, i)
  BY DEF CallsKept
<1>2. k \in Nat /\ Len(s) \in Nat /\ n <= Len(s) /\ n < k /\ \A h \in 1..n : h \in 1..k /\ h < k
  <2>1. Len(s) \in Nat
    BY ScriptIs
  <2> QED
    BY <2>1
<1>3. \A j \in 1..Len(new) : ArgsAt(new, j, ev, i) => new[j].ops[1].v = k
  BY ArgPart DEF ArgsAt
<1>4. ArgsInOrder(ev, Good(s, i), F, args, i)
  <2>1. ASSUME NEW j \in 1..Len(new), ArgsAt(new, j, ev, i)
        PROVE  /\ Under(Good(s, i), args, k)
               /\ \A l \in 1..Len(q) : ArgsAt(q, l, ev, i) => Lt(Good(s, i), q[l].ops[1].v, k)
               /\ \A l \in 1..(j - 1) : ArgsAt(new, l, ev, i) => Lt(Good(s, i), new[l].ops[1].v, k)
    <3>1. Under(Good(s, i), args, k)
      BY <1>1, <1>2 DEF ArgsSaidOnly, Under, Lt
    <3>2. \A l \in 1..Len(q) : ArgsAt(q, l, ev, i) => Lt(Good(s, i), q[l].ops[1].v, k)
      <4>1. \A l \in 1..Len(q) : ArgsAt(q, l, ev, i) => q[l].ops[1].v \in 1..n
        BY <1>2, ArgsSourced
      <4> QED
        BY <1>2, <4>1 DEF Lt
    <3>3. ASSUME NEW l \in 1..(j - 1), ArgsAt(new, l, ev, i)
          PROVE  Lt(Good(s, i), new[l].ops[1].v, k)
      <4>1. l \in 1..Len(new) /\ l # j
        BY DEF Put
      <4>2. new[l].ops[1].v = k
        BY <1>3, <3>3, <4>1
      <4>3. ~Good(s, i)
        <5>1. ChunkSays(s, k, ev, new)
          <6>1. new # <<>>
            BY <4>1
          <6> QED
            BY <6>1
        <5> QED
          BY <2>1, <3>3, <4>1, <5>1 DEF ChunkSays, ArgsAt
      <4> QED
        BY <4>2, <4>3 DEF Lt
    <3> QED
      BY <3>1, <3>2, <3>3
  <2> HIDE DEF args
  <2> QED
    BY <1>1, <1>3, <2>1, PutArgsOrder
<1>5. ArgsSaidOnly(s, k, args, i)
  BY <1>1, <1>2 DEF ArgsSaidOnly
<1>6. ASSUME Good(s, i)
      PROVE  ArgsKept(ev, s, k, F, doc, i)
  <2>1. ASSUME OpenQueued(ev, F, i), ~OpenQueued(ev, q, i), NEW h \in 1..n, SaysArgs(s, h, i)
        PROVE  FALSE
    <3>1. PICK j \in 1..Len(new) : ChunkOf(new, j, ev) /\ OpenedBy(new[j].ops, Len(new[j].ops), i)
      BY <2>1, OpenPut
    <3>2. PICK a \in 1..Len(new[j].ops) : CallOf(new[j].ops[a], i)
      BY <3>1 DEF OpenedBy
    <3>3. CallsPart(s, k, new[j].ops)
      <4> SUFFICES ASSUME TextPart(s, k, new[j].ops)
                   PROVE  FALSE
        BY <3>1
      <4> DEFINE o == Op("/-", 0, k)
                 ops == new[j].ops
      <4>1. ops = <<o>> /\ o.path = "/-"
        BY DEF TextPart, Op
      <4> HIDE DEF o, ops
      <4>2. ops[a] = o
        BY <4>1 DEF ops
      <4> QED
        BY <3>2, <4>1, <4>2 DEF CallOf, ops
    <3>4. \A x \in {0} \cup Mentioned(s, n) : x < new[j].ops[a].i
      BY <1>2, <3>2, <3>3, OpenedBehind DEF CallOf
    <3>5. PICK t \in ToSet(s[h].calls) : t.i = i
      BY <2>1 DEF SaysArgs
    <3>6. PICK g \in DOMAIN s[h].calls : s[h].calls[g] = t
      BY <3>5 DEF ToSet
    <3>7. <<h, g>> \in Places(s) /\ CallAt(s, <<h, g>>).i = i /\ <<h, g>>[1] <= n
      <4>1. h \in DOMAIN s
        BY <2>1 DEF SaysArgs
      <4> QED
        BY <3>5, <3>6, <4>1, PlacesAre
    <3>8. i \in Mentioned(s, n)
      BY <3>7 DEF Mentioned
    <3>9. i < i
      BY <3>2, <3>4, <3>8 DEF CallOf
    <3> QED
      BY <3>9, MaxCallsNat
  <2>2. ASSUME NEW h \in 1..k, h > n, SaysArgs(s, h, i), Heard(s[h])
        PROVE  \E j \in 1..Len(new) : ArgsAt(new, j, ev, i) /\ new[j].ops[1].v = h
    <3>1. h = k
      BY <1>2, <2>2
    <3>2. ChunkSays(s, k, ev, new)
      BY <2>2, <3>1
    <3>3. PICK j \in 1..Len(new) : ChunkOf(new, j, ev) /\ HasArg(new[j].ops, i)
      BY <1>6, <2>2, <3>1, <3>2 DEF ChunkSays
    <3>4. ArgsAt(new, j, ev, i)
      BY <3>3 DEF ArgsAt
    <3> QED
      BY <1>3, <3>1, <3>4
  <2>3. ArgsKept(ev, s, n, q, doc, i)
    BY <1>1, <1>6
  <2>4. OpenQueued(ev, F, i) => OpenQueued(ev, q, i) \/ \A h \in 1..n : ~SaysArgs(s, h, i)
    BY <2>1
  <2>5. ArgsNew(s, n, k, ev, new, i)
    BY <2>2 DEF ArgsNew
  <2>6. k \in Nat
    OBVIOUS
  <2> QED
    BY <2>3, <2>4, <2>5, <2>6, PutArgsKept
<1> QED
  BY <1>4, <1>5, <1>6
-----------------------------------------------------------------------------
\* Chunks with arguments in the queue, as the worker takes the first message from it.
LEMMA ArgsTake ==
  ASSUME NEW q, NEW F, Taken(q, F), NEW ev, NEW i
  PROVE  /\ \A j \in 1..Len(F) : /\ j + 1 \in 1..Len(q) /\ F[j] = q[j + 1]
                                 /\ ArgsAt(F, j, ev, i) <=> ArgsAt(q, j + 1, ev, i)
         /\ \A j \in 1..Len(q) : ArgsAt(q, j, ev, i) =>
              \/ j = 1
              \/ j - 1 \in 1..Len(F) /\ F[j - 1] = q[j] /\ ArgsAt(F, j - 1, ev, i)
<1>1. /\ \A j \in 1..Len(F) : /\ j + 1 \in 1..Len(q) /\ F[j] = q[j + 1]
                              /\ ChunkOf(F, j, ev) <=> ChunkOf(q, j + 1, ev)
      /\ \A j \in 1..Len(q) : ChunkOf(q, j, ev) =>
           \/ j = 1
           \/ j - 1 \in 1..Len(F) /\ F[j - 1] = q[j] /\ ChunkOf(F, j - 1, ev)
  BY ChunkTake
<1> QED
  BY <1>1 DEF ArgsAt

\* The arguments of the head, behind those of the document, are before those behind it.
LEMMA TakeArgsOrder ==
  ASSUME NEW q, NEW F, Taken(q, F), NEW ev, NEW once, NEW args, NEW i, ArgsInOrder(ev, once, q, args, i),
         NEW args2, Ordered(once, args2),
         \A a \in 1..Len(args2) : Has(args, args2[a]) \/ (ArgsAt(q, 1, ev, i) /\ args2[a] = q[1].ops[1].v)
  PROVE  ArgsInOrder(ev, once, F, args2, i)
<1>1. ASSUME NEW j \in 1..Len(F), ArgsAt(F, j, ev, i)
      PROVE  /\ Under(once, args2, F[j].ops[1].v)
             /\ \A l \in 1..(j - 1) : ArgsAt(F, l, ev, i) => Lt(once, F[l].ops[1].v, F[j].ops[1].v)
  <2> DEFINE h == j + 1
  <2>1. h \in 1..Len(q) /\ F[j] = q[h] /\ ArgsAt(q, h, ev, i) /\ 1 \in 1..(h - 1)
    <3>1. h \in 1..Len(q) /\ F[j] = q[h] /\ ArgsAt(q, h, ev, i)
      BY <1>1, ArgsTake
    <3> QED
      BY <3>1
  <2>2. \A l \in 1..(j - 1) : l \in 1..Len(F) /\ l + 1 \in 1..(h - 1)
    BY DEF Taken
  <2>3. \A l \in 1..Len(F) : F[l] = q[l + 1] /\ (ArgsAt(F, l, ev, i) => ArgsAt(q, l + 1, ev, i))
    BY ArgsTake
  <2> HIDE DEF h
  <2>4. /\ Under(once, args, q[h].ops[1].v)
        /\ \A l \in 1..(h - 1) : ArgsAt(q, l, ev, i) => Lt(once, q[l].ops[1].v, q[h].ops[1].v)
    BY <2>1 DEF ArgsInOrder
  <2>5. Under(once, args2, F[j].ops[1].v)
    <3> SUFFICES ASSUME NEW a \in 1..Len(args2)
                 PROVE  Lt(once, args2[a], q[h].ops[1].v)
      BY <2>1 DEF Under
    <3>1. CASE Has(args, args2[a])
      BY <2>4, <3>1 DEF Has, Under
    <3>2. CASE ArgsAt(q, 1, ev, i) /\ args2[a] = q[1].ops[1].v
      BY <2>1, <2>4, <3>2
    <3> QED
      BY <3>1, <3>2
  <2>6. ASSUME NEW l \in 1..(j - 1), ArgsAt(F, l, ev, i)
        PROVE  Lt(once, F[l].ops[1].v, F[j].ops[1].v)
    <3> DEFINE g == l + 1
    <3>1. g \in 1..(h - 1) /\ F[l] = q[g] /\ ArgsAt(q, g, ev, i)
      BY <2>2, <2>3, <2>6
    <3> HIDE DEF g
    <3> QED
      BY <2>1, <2>4, <3>1
  <2> QED
    BY <2>5, <2>6
<1> QED
  BY <1>1 DEF ArgsInOrder

\* What is owed of a call is kept as the head goes to the document.
LEMMA TakeArgsKept ==
  ASSUME NEW q, NEW F, Taken(q, F), NEW ev, NEW s, NEW n, NEW doc, NEW doc2, NEW i, ArgsKept(ev, s, n, q, doc, i),
         Keeps(ArgsOf(doc2, i), ArgsOf(doc, i)), doc.root = "list" => doc2.root = "list",
         ~OpenQueued(ev, q, i) /\ ~OpenedIn(doc, i) => ~OpenedIn(doc2, i),
         ArgsAt(q, 1, ev, i) /\ Owed(s, q[1].ops[1].v, i) =>
           \/ Has(ArgsOf(doc2, i), q[1].ops[1].v)
           \/ ~OpenQueued(ev, F, i) /\ ~OpenedIn(doc2, i)
           \/ doc2.root = "list"
  PROVE  ArgsKept(ev, s, n, F, doc2, i)
<1> SUFFICES ASSUME NEW k \in 1..n, Owed(s, k, i), Heard(s[k])
             PROVE  \/ Has(ArgsOf(doc2, i), k)
                    \/ \E j \in 1..Len(F) : ArgsAt(F, j, ev, i) /\ F[j].ops[1].v = k
                    \/ ~OpenQueued(ev, F, i) /\ ~OpenedIn(doc2, i)
                    \/ doc2.root = "list"
  BY DEF ArgsKept
<1>1. \/ Has(ArgsOf(doc, i), k)
      \/ \E j \in 1..Len(q) : ArgsAt(q, j, ev, i) /\ q[j].ops[1].v = k
      \/ ~OpenQueued(ev, q, i) /\ ~OpenedIn(doc, i)
      \/ doc.root = "list"
  BY DEF ArgsKept
<1>2. CASE Has(ArgsOf(doc, i), k)
  BY <1>2 DEF Keeps, Has
<1>3. ASSUME NEW j \in 1..Len(q), ArgsAt(q, j, ev, i), q[j].ops[1].v = k
      PROVE  \/ Has(ArgsOf(doc2, i), k)
             \/ \E l \in 1..Len(F) : ArgsAt(F, l, ev, i) /\ F[l].ops[1].v = k
             \/ ~OpenQueued(ev, F, i) /\ ~OpenedIn(doc2, i)
             \/ doc2.root = "list"
  <2>1. CASE j = 1
    BY <1>3, <2>1
  <2>2. CASE j # 1
    <3> DEFINE l == j - 1
    <3>1. l \in 1..Len(F) /\ F[l] = q[j] /\ ArgsAt(F, l, ev, i)
      BY <1>3, <2>2, ArgsTake
    <3> HIDE DEF l
    <3> QED
      BY <1>3, <3>1
  <2> QED
    BY <2>1, <2>2
<1>4. CASE ~OpenQueued(ev, q, i) /\ ~OpenedIn(doc, i)
  <2>1. ~OpenQueued(ev, F, i)
    <3> SUFFICES ASSUME NEW j \in 1..Len(F), ChunkOf(F, j, ev), OpenedBy(F[j].ops, Len(F[j].ops), i)
                 PROVE  FALSE
      BY DEF OpenQueued
    <3> DEFINE h == j + 1
    <3>1. h \in 1..Len(q) /\ F[j] = q[h] /\ ChunkOf(q, h, ev)
      BY ChunkTake
    <3> HIDE DEF h
    <3> QED
      BY <1>4, <3>1 DEF OpenQueued
  <2> QED
    BY <1>4, <2>1
<1> QED
  BY <1>1, <1>2, <1>3, <1>4

\* A message that is no chunk of the event leaves its calls.
LEMMA TakeCallsOther ==
  ASSUME NEW q, NEW F, Taken(q, F), NEW ev, NEW s, NEW n, NEW doc, CallsKept(ev, s, n, q, doc), ~ChunkOf(q, 1, ev)
  PROVE  CallsKept(ev, s, n, F, doc)
<1> SUFFICES ASSUME NEW i \in 1..MaxCalls
             PROVE  /\ ArgsInOrder(ev, Good(s, i), F, ArgsOf(doc, i), i)
                    /\ ArgsSaidOnly(s, n, ArgsOf(doc, i), i)
                    /\ Good(s, i) => ArgsKept(ev, s, n, F, doc, i)
  BY DEF CallsKept
<1> DEFINE args == ArgsOf(doc, i)
<1>1. /\ ArgsInOrder(ev, Good(s, i), q, args, i)
      /\ ArgsSaidOnly(s, n, args, i)
      /\ Good(s, i) => ArgsKept(ev, s, n, q, doc, i)
  BY DEF CallsKept
<1>2. ~ArgsAt(q, 1, ev, i)
  BY DEF ArgsAt
<1>3. Keeps(args, args) /\ \A a \in 1..Len(args) : Has(args, args[a])
  BY DEF Keeps, Has
<1>4. ArgsInOrder(ev, Good(s, i), F, args, i)
  <2>1. Ordered(Good(s, i), args)
    BY <1>1 DEF ArgsInOrder
  <2> HIDE DEF args
  <2> QED
    BY <1>1, <1>3, <2>1, TakeArgsOrder
<1>5. ASSUME Good(s, i)
      PROVE  ArgsKept(ev, s, n, F, doc, i)
  <2>1. ArgsKept(ev, s, n, q, doc, i)
    BY <1>1, <1>5
  <2> QED
    BY <1>2, <1>3, <2>1, TakeArgsKept
<1> QED
  BY <1>1, <1>4, <1>5

\* A call is opened by one chunk.
LEMMA OpenOnce ==
  ASSUME NEW q, NEW F, Taken(q, F), NEW ev, NEW s, NEW n, NEW calls, CallOrder(ev, s, n, q, calls), ChunkOf(q, 1, ev),
         NEW i \in 1..MaxCalls, OpenedBy(q[1].ops, Len(q[1].ops), i)
  PROVE  ~OpenQueued(ev, F, i)
<1> SUFFICES ASSUME NEW j \in 1..Len(F), ChunkOf(F, j, ev), OpenedBy(F[j].ops, Len(F[j].ops), i)
             PROVE  FALSE
  BY DEF OpenQueued
<1> DEFINE h == j + 1
<1>1. h \in 1..Len(q) /\ F[j] = q[h] /\ ChunkOf(q, h, ev) /\ 1 \in 1..(h - 1)
  <2>1. h \in 1..Len(q) /\ F[j] = q[h] /\ ChunkOf(q, h, ev)
    BY ChunkTake
  <2> QED
    BY <2>1
<1> HIDE DEF h
<1>2. PICK a \in 1..Len(q[h].ops) : CallOf(q[h].ops[a], i)
  BY <1>1 DEF OpenedBy
<1>3. PICK b \in 1..Len(q[1].ops) : CallOf(q[1].ops[b], i)
  BY DEF OpenedBy
<1>4. q[1].ops[b].i < q[h].ops[a].i
  BY <1>1, <1>2 DEF CallOrder, CallOf
<1> QED
  BY <1>2, <1>3, <1>4, MaxCallsNat DEF CallOf

\* A chunk of the event goes to its document.
LEMMA TakeCallsTaken ==
  ASSUME NEW q, NEW F, Taken(q, F), NEW ev, NEW s, IsScript(s), NEW n \in Nat, n <= Len(s),
         ChunkOf(q, 1, ev), NEW k \in 1..n, TextPart(s, k, q[1].ops) \/ CallsPart(s, k, q[1].ops),
         NEW doc, CallOrder(ev, s, n, q, doc.calls), CallsKept(ev, s, n, q, doc),
         NEW doc2, Grown(s, k, doc, q[1].ops, doc2)
  PROVE  CallsKept(ev, s, n, F, doc2)
<1> DEFINE ops == q[1].ops
<1> SUFFICES ASSUME NEW i \in 1..MaxCalls
             PROVE  /\ ArgsInOrder(ev, Good(s, i), F, ArgsOf(doc2, i), i)
                    /\ ArgsSaidOnly(s, n, ArgsOf(doc2, i), i)
                    /\ Good(s, i) => ArgsKept(ev, s, n, F, doc2, i)
  BY DEF CallsKept
<1> DEFINE old == ArgsOf(doc, i)
           args == ArgsOf(doc2, i)
           once == Good(s, i)
<1>1. /\ ArgsInOrder(ev, once, q, old, i)
      /\ ArgsSaidOnly(s, n, old, i)
      /\ once => ArgsKept(ev, s, n, q, doc, i)
  BY DEF CallsKept
<1>2. k \in 1..Len(s) /\ 1 \in 1..Len(q)
  BY ScriptIs DEF Taken
<1>3. HasArg(ops, i) => ops[1].v = k /\ CallsPart(s, k, ops) /\ ~TextPart(s, k, ops) /\ SaysArgs(s, k, i)
  BY <1>2, ArgPart
<1>4. ArgsAt(q, 1, ev, i) <=> HasArg(ops, i)
  BY DEF ArgsAt
<1>5. Ordered(once, old) /\ (HasArg(ops, i) => Under(once, old, k))
  BY <1>1, <1>2, <1>3, <1>4 DEF ArgsInOrder
<1>6. /\ Ordered(once, args)
      /\ \A a \in 1..Len(args) : Has(old, args[a]) \/ (HasArg(ops, i) /\ args[a] = k)
      /\ once => Keeps(args, old)
      /\ OpenedIn(doc2, i) => OpenedIn(doc, i) \/ OpenedBy(ops, Len(ops), i)
      /\ once /\ HasArg(ops, i) /\ ~ObjectAt(s, k, i) =>
           Has(args, k) \/ doc2.root = "list" \/ (OpenedBy(ops, Len(ops), i) /\ ~OpenedIn(doc2, i))
  <2>1. CASE TextPart(s, k, ops) /\ doc2.calls = doc.calls
    <3>1. args = old /\ (OpenedIn(doc2, i) <=> OpenedIn(doc, i)) /\ ~HasArg(ops, i)
      BY <1>3, <2>1 DEF ArgsOf, OpenedIn
    <3>2. Keeps(args, old) /\ \A a \in 1..Len(args) : Has(old, args[a])
      BY <3>1 DEF Keeps, Has
    <3> HIDE DEF args, old, ops, once
    <3> QED
      BY <1>5, <3>1, <3>2
  <2>2. CASE GrownArgs(s, k, doc, ops, i, doc2)
    <3>1. /\ Ordered(once, args) /\ Among(args, old, k)
          /\ ~HasArg(ops, i) => args = old
          /\ once => Keeps(args, old)
      BY <1>5, <2>2 DEF GrownArgs
    <3>2. /\ OpenedIn(doc2, i) => OpenedIn(doc, i) \/ OpenedBy(ops, Len(ops), i)
          /\ once /\ HasArg(ops, i) /\ ~ObjectAt(s, k, i) =>
               Has(args, k) \/ doc2.root = "list" \/ (OpenedBy(ops, Len(ops), i) /\ ~OpenedIn(doc2, i))
      BY <2>2 DEF GrownArgs
    <3>3. \A a \in 1..Len(args) : Has(old, args[a]) \/ (HasArg(ops, i) /\ args[a] = k)
      <4>1. CASE HasArg(ops, i)
        BY <3>1, <4>1 DEF Among
      <4>2. CASE ~HasArg(ops, i)
        BY <3>1, <4>2 DEF Has
      <4> QED
        BY <4>1, <4>2
    <3> QED
      BY <3>1, <3>2, <3>3
  <2> QED
    BY <2>1, <2>2 DEF Grown
<1>7. ArgsInOrder(ev, once, F, args, i)
  <2>1. \A a \in 1..Len(args) : Has(old, args[a]) \/ (ArgsAt(q, 1, ev, i) /\ args[a] = q[1].ops[1].v)
    BY <1>3, <1>4, <1>6
  <2> HIDE DEF args, old, ops, once
  <2> QED
    BY <1>1, <1>6, <2>1, TakeArgsOrder
<1>8. ArgsSaidOnly(s, n, args, i)
  <2> SUFFICES ASSUME NEW a \in 1..Len(args)
               PROVE  args[a] \in 1..n /\ SaysArgs(s, args[a], i)
    BY DEF ArgsSaidOnly
  <2> HIDE DEF args, old, ops, once
  <2>1. CASE Has(old, args[a])
    BY <1>1, <2>1 DEF Has, ArgsSaidOnly
  <2>2. CASE HasArg(ops, i) /\ args[a] = k
    BY <1>3, <2>2
  <2> QED
    BY <1>6, <2>1, <2>2
<1>9. ASSUME once
      PROVE  ArgsKept(ev, s, n, F, doc2, i)
  <2>1. ArgsKept(ev, s, n, q, doc, i) /\ Keeps(args, old)
    BY <1>1, <1>6, <1>9
  <2>2. doc.root = "list" => doc2.root = "list"
    BY DEF Grown
  <2>3. OpenedBy(ops, Len(ops), i) => OpenQueued(ev, q, i) /\ ~OpenQueued(ev, F, i)
    BY <1>2, OpenOnce DEF OpenQueued
  <2>4. ~OpenQueued(ev, q, i) /\ ~OpenedIn(doc, i) => ~OpenedIn(doc2, i)
    BY <1>6, <2>3
  <2>5. ArgsAt(q, 1, ev, i) /\ Owed(s, q[1].ops[1].v, i) =>
          \/ Has(args, q[1].ops[1].v)
          \/ ~OpenQueued(ev, F, i) /\ ~OpenedIn(doc2, i)
          \/ doc2.root = "list"
    BY <1>3, <1>4, <1>6, <1>9, <2>3 DEF Owed
  <2> HIDE DEF ops, once
  <2> QED
    BY <2>1, <2>2, <2>4, <2>5, TakeArgsKept
<1> QED
  BY <1>7, <1>8, <1>9
-----------------------------------------------------------------------------
\* What the steps keep.  Before anything is said of an event, and after it is ready:
LEMMA KeptFresh ==
  ASSUME NEW q \in Seq(Msg), NEW ev, NEW s, IsScript(s) \/ s = <<>>, NEW n \in Nat, NEW open, NEW ended,
         \A j \in 1..Len(q) : q[j].ev = ev => What(q[j]) = "processing",
         ended \/ n = 0, ~open \/ n = 0
  PROVE  Kept(ev, s, n, open, ended, FALSE, NewDoc, q)
<1>1. \A j \in 1..Len(q) : ~ChunkOf(q, j, ev) /\ ~Queued(q, j, ev, "ready") /\ ~Queued(q, j, ev, "/-")
  <2> SUFFICES ASSUME NEW j \in 1..Len(q), q[j].ev = ev
               PROVE  "ops" \notin DOMAIN q[j] /\ What(q[j]) # "ready" /\ What(q[j]) # "/-"
    BY DEF ChunkOf, Queued
  <2>1. q[j] \in Msg /\ What(q[j]) = "processing" /\ "processing" \in Statuses
    BY DEF Statuses
  <2> QED
    BY <2>1, MsgIs
<1>2. NewDoc.root = "none" /\ NewDoc.text = <<>> /\ NewDoc.calls = <<>> /\ Len(<<>>) = 0
  BY DEF NewDoc
<1>3. Sourced(ev, s, n, q) /\ ReadyLast(ev, ended, q)
  BY <1>1 DEF Sourced, ReadyLast
<1>4. TextInOrder(ev, q, <<>>) /\ TextSaidOnly(s, n, <<>>)
  BY <1>1, <1>2 DEF TextInOrder, TextSaidOnly
<1>5. ~Closed(ev, ended, q) => TextKept(ev, s, n, q, <<>>)
  BY <1>1 DEF Closed, TextKept
<1>6. CallOrder(ev, s, n, q, <<>>)
  BY <1>1, <1>2 DEF CallOrder
<1>7. Entries(s, NewDoc) /\ CallsKept(ev, s, n, q, NewDoc)
  <2>1. ASSUME NEW i \in 1..MaxCalls
        PROVE  ArgsOf(NewDoc, i) = <<>> /\ ~OpenedIn(NewDoc, i)
    <3>1. ~(i <= Len(NewDoc.calls))
      BY <1>2, MaxCallsNat
    <3> QED
      BY <3>1 DEF ArgsOf, OpenedIn
  <2>2. Entries(s, NewDoc)
    BY <1>2, <2>1 DEF Entries
  <2>3. ASSUME NEW i \in 1..MaxCalls
        PROVE  /\ ArgsInOrder(ev, Good(s, i), q, <<>>, i)
               /\ ArgsSaidOnly(s, n, <<>>, i)
               /\ ArgsKept(ev, s, n, q, NewDoc, i)
    <3>1. ArgsInOrder(ev, Good(s, i), q, <<>>, i)
      BY <1>1, <1>2 DEF ArgsInOrder, ArgsAt, Ordered
    <3>2. ArgsSaidOnly(s, n, <<>>, i)
      BY <1>2 DEF ArgsSaidOnly
    <3>3. ~OpenQueued(ev, q, i) /\ ~OpenedIn(NewDoc, i)
      BY <1>1, <2>1 DEF OpenQueued
    <3> QED
      BY <3>1, <3>2, <3>3 DEF ArgsKept
  <2> QED
    BY <2>1, <2>2, <2>3 DEF CallsKept
<1>8. FirstTaken(ev, q, FALSE)
  BY <1>1 DEF FirstTaken
<1>9. ASSUME open
      PROVE  SomeTaken(ev, s, n, q, FALSE)
  <2>1. \A p \in Places(s) : p[1] \in DOMAIN s
    BY PlacesAre
  <2>2. \A k \in DOMAIN s : k \in Nat /\ k > 0
    <3>1. CASE IsScript(s)
      BY <3>1, ScriptIs
    <3>2. CASE s = <<>>
      BY <3>2
    <3> QED
      BY <3>1, <3>2
  <2>3. Mentioned(s, 0) = {}
    BY <2>1, <2>2 DEF Mentioned
  <2> QED
    BY <1>9, <2>3 DEF SomeTaken
<1> QED
  BY <1>2, <1>3, <1>4, <1>5, <1>6, <1>7, <1>8, <1>9 DEF Kept

\* A step that says nothing of the event:
LEMMA KeptOther ==
  ASSUME NEW q \in Seq(Msg), NEW new, NEW F, Put(q, new, F), NEW ev, NEW s, IsScript(s) \/ s = <<>>,
         NEW n \in 0..Len(s), NEW open, NEW open2, open2 => open, NEW ended, NEW there, NEW doc,
         Kept(ev, s, n, open, ended, there, doc, q), \A j \in 1..Len(new) : new[j].ev # ev
  PROVE  Kept(ev, s, n, open2, ended, there, doc, F)
<1>1. \A j \in 1..Len(new) : ~ChunkOf(new, j, ev) /\ \A what : ~Queued(new, j, ev, what)
  BY DEF ChunkOf, Queued
<1>2. n \in Nat /\ Len(s) \in Nat /\ n <= Len(s)
  <2>1. Len(s) \in Nat
    BY ScriptIs, LenProperties
  <2> QED
    BY <2>1
<1>3. Sourced(ev, s, n, F)
  BY <1>1, <1>2, PutSourced DEF Kept
<1>4. ReadyLast(ev, ended, F)
  BY PutReady DEF Kept
<1>5. TextInOrder(ev, F, doc.text)
  BY <1>1, <1>2, PutText DEF Kept
<1>6. ASSUME ~Closed(ev, ended, F)
      PROVE  TextKept(ev, s, n, F, doc.text)
  <2>1. ~Closed(ev, ended, q)
    <3>1. \A j \in 1..Len(new) : ~Queued(new, j, ev, "ready")
      BY <1>1
    <3>2. \A j \in 1..Len(F) : Queued(F, j, ev, "ready") => j \in 1..Len(q) /\ Queued(q, j, ev, "ready")
      BY <3>1, QueuedPut
    <3> QED
      BY <1>6, <3>2 DEF Closed
  <2>2. TextKept(ev, s, n, q, doc.text)
    BY <2>1 DEF Kept
  <2>3. TextNew(s, n, n, ev, new)
    BY <1>2 DEF TextNew
  <2> QED
    BY <1>2, <2>2, <2>3, PutKept
<1>7. CallOrder(ev, s, n, F, doc.calls)
  <2>1. CASE IsScript(s)
    BY <1>1, <1>2, <2>1, PutCalls DEF Kept
  <2>2. CASE s = <<>>
    <3>1. \A j \in 1..Len(F) : ~ChunkOf(F, j, ev)
      <4>1. n = 0
        BY <2>2
      <4>2. \A j \in 1..Len(F) : ChunkOf(F, j, ev) => \E k \in 1..n : TRUE
        BY <1>3 DEF Sourced
      <4> QED
        BY <4>1, <4>2
    <3> QED
      BY <3>1 DEF CallOrder, Kept
  <2> QED
    BY <2>1, <2>2
<1>8. FirstTaken(ev, F, there)
  BY <1>1, PutFirst DEF Kept
<1>9. open2 => SomeTaken(ev, s, n, F, there)
  BY PutSome DEF Kept
<1>10. CallsKept(ev, s, n, F, doc)
  BY <1>1, <1>2, PutCallsOther DEF Kept
<1> QED
  BY <1>3, <1>4, <1>5, <1>6, <1>7, <1>8, <1>9, <1>10 DEF Kept
-----------------------------------------------------------------------------
\* A chunk that is a text is that of its place.
LEMMA TextChunk ==
  ASSUME NEW m \in Msg, What(m) = "/-", NEW s, NEW k, TextPart(s, k, m.ops) \/ CallsPart(s, k, m.ops)
  PROVE  "ops" \in DOMAIN m /\ TextPart(s, k, m.ops) /\ m.ops[1].v = k
<1>1. "ops" \in DOMAIN m /\ m.ops[1].path = "/-" /\ m.ops # <<>> /\ m.ops \in Seq(AnyOp)
  <2>1. "/-" \notin Statuses
    BY DEF Statuses
  <2> QED
    BY <2>1, MsgIs
<1>2. ~CallsPart(s, k, m.ops)
  <2> SUFFICES ASSUME m.ops \in Seq(CallOp)
               PROVE  FALSE
    BY DEF CallsPart
  <2> DEFINE ops == m.ops
  <2> HIDE DEF ops
  <2>1. ops \in Seq(CallOp) /\ ops # <<>>
    BY <1>1 DEF ops
  <2>2. ops[1] \in CallOp
    BY <2>1, EmptySeq, LenProperties
  <2> QED
    BY <1>1, <2>2 DEF CallOp, ops
<1> QED
  BY <1>1, <1>2 DEF TextPart, Op

\* One more chunk of the event's run:
LEMMA MentionedNext ==
  ASSUME NEW s, IsScript(s), NEW k \in 1..Len(s), s[k].calls = <<>>
  PROVE  Mentioned(s, k) \subseteq Mentioned(s, k - 1)
<1> SUFFICES ASSUME NEW p \in Places(s), p[1] <= k
             PROVE  p[1] <= k - 1
  BY DEF Mentioned
<1>1. p[1] \in DOMAIN s /\ p[2] \in DOMAIN s[p[1]].calls
  BY PlacesAre
<1>2. p[1] \in 1..Len(s) /\ Len(s) \in Nat
  BY <1>1, ScriptIs
<1>3. p[1] # k
  <2>1. DOMAIN s[k].calls = {}
    OBVIOUS
  <2> QED
    BY <1>1, <2>1
<1> QED
  BY <1>2, <1>3

\* The next chunk of a script, emitted or failing the run, keeps the invariant of the event.
LEMMA KeptSaid ==
  ASSUME NEW q \in Seq(Msg), NEW new \in Seq(Msg), NEW F, Put(q, new, F), NEW ev, NEW s, IsScript(s),
         NEW k \in 1..Len(s), NEW open2, NEW there, NEW doc,
         Kept(ev, s, k - 1, TRUE, FALSE, there, doc, q),
         \A j \in 1..Len(new) : ~Queued(new, j, ev, "ready"),
         \/ s[k].valid /\ ChunkSays(s, k, ev, new) /\ (open2 => Heard(s[k]))
         \/ ~s[k].valid /\ new = <<>> /\ ~open2
  PROVE  Kept(ev, s, k, open2, FALSE, there, doc, F)
<1> DEFINE n == k - 1
<1>1. n \in Nat /\ k \in Nat /\ n <= k /\ n < k /\ k = n + 1 /\ k <= Len(s) /\ n <= Len(s) /\ k > 0
      /\ \A h \in 1..k : h > n => h = k
  <2>1. Len(s) \in Nat
    BY ScriptIs
  <2> QED
    BY <2>1
<1> HIDE DEF n
<1>2. Kept(ev, s, n, TRUE, FALSE, there, doc, q)
  BY DEF n
<1>3. ASSUME NEW j \in 1..Len(new), ChunkOf(new, j, ev)
      PROVE  /\ TextPart(s, k, new[j].ops) \/ CallsPart(s, k, new[j].ops)
             /\ Mentioned(s, n) = {} => First(new[j].ops)
             /\ \A a \in 1..Len(new[j].ops) : new[j].ops[a].path = "call" =>
                  \A i \in 1..(j - 1) : ChunkOf(new, i, ev) => TextPart(s, k, new[i].ops)
  <2>1. new # <<>>
    BY <1>3
  <2> QED
    BY <1>3, <2>1 DEF ChunkSays, n
<1>4. Sourced(ev, s, k, F)
  BY <1>1, <1>2, <1>3, PutSourced DEF Kept
<1>5. ReadyLast(ev, FALSE, F)
  BY <1>2, PutReady DEF Kept
<1>6. TextInOrder(ev, F, doc.text)
  <2>1. ASSUME NEW j \in 1..Len(new), Queued(new, j, ev, "/-")
        PROVE  new[j].ops[1].v = n + 1
    <3>1. new[j] \in Msg /\ What(new[j]) = "/-" /\ new[j].ev = ev
      BY <2>1 DEF Queued
    <3>2. "ops" \in DOMAIN new[j]
      <4>1. "/-" \notin Statuses
        BY DEF Statuses
      <4> QED
        BY <3>1, <4>1, MsgIs
    <3>3. TextPart(s, k, new[j].ops) \/ CallsPart(s, k, new[j].ops)
      BY <1>3, <3>1, <3>2 DEF ChunkOf
    <3>4. new[j].ops[1].v = k
      BY <3>1, <3>3, TextChunk
    <3> QED
      BY <1>1, <3>4
  <2>2. \A i, j \in 1..Len(new) : Queued(new, i, ev, "/-") /\ Queued(new, j, ev, "/-") => i = j
    <3>1. CASE ChunkSays(s, k, ev, new)
      BY <3>1 DEF ChunkSays
    <3>2. CASE new = <<>>
      BY <3>2
    <3> QED
      BY <3>1, <3>2
  <2>3. /\ Sourced(ev, s, n, q) /\ TextInOrder(ev, q, doc.text) /\ TextSaidOnly(s, n, doc.text)
    BY <1>2 DEF Kept
  <2> QED
    BY <1>1, <2>1, <2>2, <2>3, PutText
<1>7. TextSaidOnly(s, k, doc.text)
  <2>1. TextSaidOnly(s, n, doc.text)
    BY <1>2 DEF Kept
  <2>2. \A i \in 1..n : i \in 1..k
    BY <1>1
  <2> QED
    BY <2>1, <2>2 DEF TextSaidOnly
<1>8. TextKept(ev, s, k, F, doc.text)
  <2>1. TextKept(ev, s, n, q, doc.text)
    BY <1>2 DEF Kept, Closed
  <2>2. ASSUME NEW h \in 1..k, h > n, s[h].text, s[h].valid
        PROVE  \E j \in 1..Len(new) : Queued(new, j, ev, "/-") /\ new[j].ops[1].v = h
    <3>1. h = k
      BY <1>1, <2>2
    <3>2. ChunkSays(s, k, ev, new)
      BY <2>2, <3>1
    <3>3. PICK j \in 1..Len(new) : Queued(new, j, ev, "/-")
      BY <2>2, <3>1, <3>2 DEF ChunkSays
    <3>4. new[j] \in Msg /\ What(new[j]) = "/-" /\ new[j].ev = ev
      BY <3>3 DEF Queued
    <3>5. "ops" \in DOMAIN new[j]
      <4>1. "/-" \notin Statuses
        BY DEF Statuses
      <4> QED
        BY <3>4, <4>1, MsgIs
    <3>6. TextPart(s, k, new[j].ops) \/ CallsPart(s, k, new[j].ops)
      BY <1>3, <3>4, <3>5 DEF ChunkOf
    <3>7. new[j].ops[1].v = k
      BY <3>4, <3>6, TextChunk
    <3> QED
      BY <3>1, <3>3, <3>7
  <2>3. TextNew(s, n, k, ev, new)
    BY <2>2 DEF TextNew
  <2> QED
    BY <1>1, <2>1, <2>3, PutKept
<1>9. CallOrder(ev, s, k, F, doc.calls)
  BY <1>1, <1>2, <1>3, PutCalls DEF Kept
<1>10. FirstTaken(ev, F, there)
  BY <1>2, <1>3, PutFirst DEF Kept
<1>11. ASSUME open2
       PROVE  SomeTaken(ev, s, k, F, there)
  <2>1. ASSUME Mentioned(s, k) # {}
        PROVE  Mentioned(s, n) # {} \/ \E j \in 1..Len(new) : ChunkOf(new, j, ev)
    <3>1. CASE s[k].calls = <<>>
      <4>1. Mentioned(s, k) \subseteq Mentioned(s, n)
        BY <3>1, MentionedNext DEF n
      <4> QED
        BY <2>1, <4>1
    <3>2. CASE s[k].calls # <<>>
      BY <1>11, <3>2 DEF ChunkSays
    <3> QED
      BY <3>1, <3>2
  <2> QED
    BY <1>2, <2>1, PutSome DEF Kept
<1>12. (there => doc.begun) /\ Entries(s, doc)
  BY <1>2 DEF Kept
<1>13. CallsKept(ev, s, k, F, doc)
  <2>1. ChunkSays(s, k, ev, new) \/ (new = <<>> /\ ~Heard(s[k]))
    BY DEF Heard
  <2>2. \A j \in 1..Len(new) : ChunkOf(new, j, ev) => TextPart(s, k, new[j].ops) \/ CallsPart(s, k, new[j].ops)
    BY <1>3
  <2>3. Sourced(ev, s, n, q) /\ CallsKept(ev, s, n, q, doc)
    BY <1>2 DEF Kept
  <2> QED
    BY <1>1, <2>1, <2>2, <2>3, PutCallsSaid
<1> QED
  BY <1>4, <1>5, <1>6, <1>7, <1>8, <1>9, <1>10, <1>11, <1>12, <1>13 DEF Kept

\* The end of the event's run:
LEMMA KeptEnd ==
  ASSUME NEW q \in Seq(Msg), NEW new, NEW F, Put(q, new, F), NEW ev, NEW s, IsScript(s) \/ s = <<>>,
         NEW n \in 0..Len(s), NEW open, NEW there, NEW doc,
         Kept(ev, s, n, open, FALSE, there, doc, q),
         Len(new) = 1, Queued(new, 1, ev, "ready"), "ops" \notin DOMAIN new[1]
  PROVE  Kept(ev, s, n, FALSE, TRUE, there, doc, F)
<1>1. /\ \A j \in 1..Len(new) : ~ChunkOf(new, j, ev)
      /\ \A j \in 1..Len(new) : ~Queued(new, j, ev, "/-")
      /\ \A j \in 1..Len(new) : Queued(new, j, ev, "ready") => j = Len(new)
  <2>1. \A j \in 1..Len(new) : j = 1
    OBVIOUS
  <2>2. new[1].ev = ev /\ What(new[1]) = "ready"
    BY DEF Queued
  <2> QED
    BY <2>1, <2>2 DEF ChunkOf, Queued
<1>2. n \in Nat /\ Len(s) \in Nat /\ n <= Len(s)
  <2>1. Len(s) \in Nat
    BY ScriptIs, LenProperties
  <2> QED
    BY <2>1
<1>3. Sourced(ev, s, n, F)
  <2>1. Sourced(ev, s, n, q) /\ n <= n
    BY <1>2 DEF Kept
  <2> QED
    BY <1>1, <1>2, <2>1, PutSourced
<1>4. ReadyLast(ev, TRUE, F)
  BY <1>1, PutReady DEF Kept
<1>5. TextInOrder(ev, F, doc.text)
  BY <1>1, <1>2, PutText DEF Kept
<1>6. TextKept(ev, s, n, F, doc.text)
  <2>1. TextKept(ev, s, n, q, doc.text)
    BY DEF Kept, Closed
  <2>2. TextNew(s, n, n, ev, new)
    BY <1>2 DEF TextNew
  <2> QED
    BY <1>2, <2>1, <2>2, PutKept
<1>7. CallOrder(ev, s, n, F, doc.calls)
  <2>1. CASE IsScript(s)
    <3>1. Sourced(ev, s, n, q) /\ CallOrder(ev, s, n, q, doc.calls) /\ n <= n
      BY <1>2 DEF Kept
    <3> QED
      BY <1>1, <1>2, <2>1, <3>1, PutCalls
  <2>2. CASE s = <<>>
    <3>1. \A j \in 1..Len(F) : ~ChunkOf(F, j, ev)
      <4>1. n = 0
        BY <2>2
      <4>2. \A j \in 1..Len(F) : ChunkOf(F, j, ev) => \E k \in 1..n : TRUE
        BY <1>3 DEF Sourced
      <4> QED
        BY <4>1, <4>2
    <3> QED
      BY <3>1 DEF CallOrder, Kept
  <2> QED
    BY <2>1, <2>2
<1>8. FirstTaken(ev, F, there)
  <2>1. FirstTaken(ev, q, there)
    BY DEF Kept
  <2> QED
    BY <1>1, <2>1, PutFirst
<1>9. CallsKept(ev, s, n, F, doc)
  BY <1>1, <1>2, PutCallsOther DEF Kept
<1> QED
  BY <1>3, <1>4, <1>5, <1>6, <1>7, <1>8, <1>9 DEF Kept
-----------------------------------------------------------------------------
\* The worker takes a message that is not a chunk of the event:
LEMMA KeptSkip ==
  ASSUME NEW q, NEW F, Taken(q, F), NEW ev, NEW s, NEW n, NEW open, NEW ended, NEW there,
         NEW doc \in Doc, Kept(ev, s, n, open, ended, there, doc, q), ~ChunkOf(q, 1, ev)
  PROVE  Kept(ev, s, n, open, ended, there, doc, F)
<1>1. doc.text \in Seq(Nat)
  BY DEF Doc
<1>2. ~Queued(q, 1, ev, "/-")
  <2>1. q[1] \in Msg /\ 1 \in 1..Len(q) /\ "/-" \notin Statuses
    BY DEF Taken, Statuses
  <2>2. What(q[1]) = "/-" => "ops" \in DOMAIN q[1]
    BY <2>1, MsgIs
  <2> QED
    BY <2>1, <2>2 DEF Queued, ChunkOf
<1>3. TextMoved(q, ev, doc.text, doc.text)
  BY <1>2 DEF TextMoved
<1>4. Sourced(ev, s, n, F) /\ ReadyLast(ev, ended, F)
  BY TakeSourced, TakeReady DEF Kept
<1>5. TextInOrder(ev, F, doc.text)
  BY <1>1, <1>2, <1>3, TakeText DEF Kept
<1>6. ASSUME ~Closed(ev, ended, F)
      PROVE  TextKept(ev, s, n, F, doc.text)
  <2>1. ~Closed(ev, ended, q)
    BY <1>6, TakeReady DEF Kept
  <2>2. TextKept(ev, s, n, q, doc.text)
    BY <2>1 DEF Kept
  <2> QED
    BY <1>1, <1>2, <1>3, <2>2, TakeKept
<1>7. CallOrder(ev, s, n, F, doc.calls)
  BY TakeCalls DEF Kept
<1>8. FirstTaken(ev, F, there) /\ (open => SomeTaken(ev, s, n, F, there))
  BY TakeFirst, TakeSome DEF Kept
<1>9. CallsKept(ev, s, n, F, doc)
  BY TakeCallsOther DEF Kept
<1> QED
  BY <1>4, <1>5, <1>6, <1>7, <1>8, <1>9 DEF Kept

\* The worker takes a chunk of the event:
LEMMA KeptTaken ==
  ASSUME NEW q, NEW F, Taken(q, F), NEW ev, NEW s, IsScript(s), NEW n \in 0..Len(s), NEW open, NEW ended,
         NEW there, NEW doc \in Doc, Kept(ev, s, n, open, ended, there, doc, q), ChunkOf(q, 1, ev),
         ~there => doc = NewDoc
  PROVE  /\ Kept(ev, s, n, open, ended, TRUE, DocAfter(doc, q[1].ops), F)
         /\ DocAfter(doc, q[1].ops) \in Doc
<1> DEFINE ops == q[1].ops
           d == DocAfter(doc, ops)
<1>1. /\ 1 \in 1..Len(q) /\ q[1] \in Msg /\ "ops" \in DOMAIN q[1] /\ q[1].ev = ev
      /\ ops \in Seq(AnyOp) /\ ops # <<>> /\ What(q[1]) = ops[1].path
  <2>1. 1 \in 1..Len(q) /\ q[1] \in Msg /\ "ops" \in DOMAIN q[1] /\ q[1].ev = ev
    BY DEF Taken, ChunkOf
  <2> QED
    BY <2>1, MsgIs
<1>2. PICK k \in 1..n : TextPart(s, k, ops) \/ CallsPart(s, k, ops)
  BY <1>1 DEF Kept, Sourced
<1>3. k \in 1..Len(s) /\ k \in Nat /\ Len(s) \in Nat /\ n \in Nat /\ n <= Len(s)
  <2>1. Len(s) \in Nat
    BY ScriptIs
  <2> QED
    BY <2>1
<1>4. doc.text \in Seq(Nat) /\ Entries(s, doc)
  BY DEF Doc, Kept
<1>5. \A a \in 1..Len(ops) : ops[a].path = "call" => Len(doc.calls) < ops[a].i
  BY <1>1 DEF Kept, CallOrder
<1>6. doc.begun \/ (doc = NewDoc /\ First(ops))
  <2>1. ~there => First(ops)
    <3>1. \A i \in 1..(1 - 1) : ~ChunkOf(q, i, ev)
      OBVIOUS
    <3> QED
      BY <1>1, <3>1 DEF Kept, FirstTaken
  <2> QED
    BY <2>1 DEF Kept
<1>7. Grown(s, k, doc, ops, d)
  <2>1. CASE TextPart(s, k, ops)
    BY <1>3, <1>4, <2>1, TextGrows
  <2>2. CASE CallsPart(s, k, ops)
    <3> HIDE DEF ops
    <3> QED
      BY <1>1, <1>3, <1>4, <1>5, <1>6, <2>2, CallsGrow
  <2> QED
    BY <1>2, <2>1, <2>2
<1> HIDE DEF d
<1>8. d \in Doc /\ d.begun /\ Entries(s, d)
  BY <1>7 DEF Grown
<1>9. /\ Queued(q, 1, ev, "/-") => /\ ops[1].v = k /\ s[k].text /\ d.text = Append(doc.text, k)
      /\ ~Queued(q, 1, ev, "/-") => d.text = doc.text
  <2>1. ASSUME Queued(q, 1, ev, "/-")
        PROVE  ops[1].v = k /\ s[k].text /\ d.text = Append(doc.text, k)
    <3>1. What(q[1]) = "/-"
      BY <2>1 DEF Queued
    <3>2. TextPart(s, k, ops) /\ ops[1].v = k
      BY <1>1, <1>2, <3>1, TextChunk
    <3>3. ~CallsPart(s, k, ops)
      <4>1. ASSUME ops \in Seq(CallOp)
            PROVE  FALSE
        <5> HIDE DEF ops
        <5>1. ops[1] \in CallOp
          BY <1>1, <4>1, EmptySeq, LenProperties
        <5> QED
          BY <1>1, <3>1, <5>1 DEF CallOp
      <4> QED
        BY <4>1 DEF CallsPart
    <3>4. d.text = Append(doc.text, k)
      <4> HIDE DEF ops
      <4> QED
        BY <1>7, <3>3 DEF Grown
    <3> QED
      BY <3>2, <3>4 DEF TextPart
  <2>2. ASSUME ~Queued(q, 1, ev, "/-")
        PROVE  d.text = doc.text
    <3>1. What(q[1]) # "/-"
      BY <1>1, <2>2 DEF Queued
    <3>2. ~TextPart(s, k, ops)
      <4> SUFFICES ASSUME ops = <<Op("/-", 0, k)>>
                   PROVE  FALSE
        BY DEF TextPart
      <4>1. ops[1] = Op("/-", 0, k)
        OBVIOUS
      <4>2. Op("/-", 0, k).path = "/-"
        BY DEF Op
      <4> HIDE DEF ops
      <4> QED
        BY <1>1, <3>1, <4>1, <4>2
    <3> HIDE DEF ops
    <3> QED
      BY <1>7, <3>2 DEF Grown
  <2> QED
    BY <2>1, <2>2
<1>10. TextMoved(q, ev, doc.text, d.text)
  BY <1>9 DEF TextMoved
<1>11. Queued(q, 1, ev, "/-") => q[1].ops[1].v \in Nat /\ q[1].ops[1].v \in 1..n /\ s[q[1].ops[1].v].text
  BY <1>3, <1>9
<1>12. Sourced(ev, s, n, F) /\ ReadyLast(ev, ended, F)
  BY TakeSourced, TakeReady DEF Kept
<1>13. TextInOrder(ev, F, d.text)
  BY <1>4, <1>10, <1>11, TakeText DEF Kept
<1>14. TextSaidOnly(s, n, d.text)
  BY <1>4, <1>10, <1>11, TakeSaidOnly DEF Kept
<1>15. ASSUME ~Closed(ev, ended, F)
       PROVE  TextKept(ev, s, n, F, d.text)
  <2>1. ~Closed(ev, ended, q)
    BY <1>15, TakeReady DEF Kept
  <2>2. TextKept(ev, s, n, q, doc.text)
    BY <2>1 DEF Kept
  <2> QED
    BY <1>4, <1>10, <1>11, <2>2, TakeKept
<1>16. CallOrder(ev, s, n, F, d.calls)
  <2>1. CallOrder(ev, s, n, q, doc.calls)
    BY DEF Kept
  <2>2. \/ Len(d.calls) = Len(doc.calls)
        \/ \E a \in 1..Len(ops) : Len(d.calls) = ops[a].i
    <3> HIDE DEF ops
    <3> QED
      BY <1>7 DEF Grown
  <2>3. ASSUME NEW a \in 1..Len(ops)
        PROVE  ops[a].i \in {0} \cup Mentioned(s, n)
    BY <1>2, <1>3, SaidBefore
  <2> QED
    BY <2>1, <2>2, <2>3, TakeCalls
<1>17. FirstTaken(ev, F, TRUE) /\ SomeTaken(ev, s, n, F, TRUE)
  BY DEF FirstTaken, SomeTaken
<1>18. CallsKept(ev, s, n, F, d)
  <2>1. CallOrder(ev, s, n, q, doc.calls) /\ CallsKept(ev, s, n, q, doc) /\ Sourced(ev, s, n, q)
    BY DEF Kept
  <2> QED
    BY <1>2, <1>3, <1>7, <2>1, TakeCallsTaken
<1> QED
  BY <1>8, <1>12, <1>13, <1>14, <1>15, <1>16, <1>17, <1>18 DEF Kept, d
-----------------------------------------------------------------------------
\* What the invariants give of a run.
LEMMA RunIs ==
  ASSUME IInv, NEW r \in Runs
  PROVE  /\ IsScript(script[r]) \/ script[r] = <<>>
         /\ said[r] \in 0..Len(script[r]) /\ said[r] \in Nat /\ Len(script[r]) \in Nat
         /\ stage[r] \in {"unborn", "open", "ended"}
         /\ stage[r] = "unborn" =>
              /\ script[r] = <<>> /\ said[r] = 0 /\ docs[Message(r)] = Absent
              /\ \A j \in 1..Len(queue) : queue[j].ev # Message(r)
<1>1. script[r] \in (UNION {Scripts[h] : h \in Runs}) \cup {<<>>} /\ said[r] \in 0..Len(script[r])
      /\ stage[r] \in {"unborn", "open", "ended"}
  BY DEF IInv, TypeOK
<1>2. IsScript(script[r]) \/ script[r] = <<>>
  BY <1>1 DEF IsScript
<1>3. Len(script[r]) \in Nat
  BY <1>2, ScriptIs, LenProperties
<1>4. ASSUME stage[r] = "unborn"
      PROVE  /\ script[r] = <<>> /\ said[r] = 0 /\ docs[Message(r)] = Absent
             /\ \A j \in 1..Len(queue) : queue[j].ev # Message(r)
  <2>1. script[r] = <<>> /\ Len(script[r]) = 0
    BY <1>4 DEF IInv, Unsaid
  <2>2. \A j \in 1..Len(queue) : queue[j].ev # Message(r)
    BY <1>4 DEF IInv, StartFirst
  <2>3. docs[Message(r)] # Absent => Live(stage, Message(r)) \/ \E h \in 1..Len(queue) : Queued(queue, h, Message(r), "ready")
    BY EventsAre DEF IInv, Emptied
  <2>4. ~Live(stage, Message(r))
    BY <1>4, EventsAre DEF Live
  <2> QED
    BY <1>1, <2>1, <2>2, <2>3, <2>4 DEF Queued
<1> QED
  BY <1>1, <1>2, <1>3, <1>4

\* The document of an event, new if the store has none.
LEMMA DocumentIs ==
  ASSUME IInv, NEW ev \in Events
  PROVE  Document(ev) \in Doc /\ (docs[ev] = Absent => Document(ev) = NewDoc)
         /\ (docs[ev] # Absent => Document(ev) = docs[ev])
BY NewDocTyped DEF IInv, TypeOK, Document

\* A step that says nothing of a run and does nothing to its document.
LEMMA RunOther ==
  ASSUME IInv, NEW r \in Runs, RunInv(r), NEW new \in Seq(Msg), queue' = queue \o new,
         \A j \in 1..Len(new) : new[j].ev # Message(r),
         docs' = docs, script'[r] = script[r], said'[r] = said[r], stage'[r] = stage[r],
         phase' = "running" => phase = "running"
  PROVE  RunInv(r)'
<1> DEFINE open == phase = "running" /\ stage[r] = "open"
           open2 == phase' = "running" /\ stage'[r] = "open"
           there == docs[Message(r)] # Absent
           ended == stage[r] = "ended"
<1>1. Put(queue, new, queue \o new) /\ queue \in Seq(Msg)
  BY Puts DEF IInv
<1>2. Kept(Message(r), script[r], said[r], open, ended, there, Document(Message(r)), queue)
  BY DEF RunInv
<1>3. (IsScript(script[r]) \/ script[r] = <<>>) /\ said[r] \in 0..Len(script[r])
  BY RunIs
<1>4. open2 => open
  OBVIOUS
<1> HIDE DEF open, open2, there, ended
<1>5. Kept(Message(r), script[r], said[r], open2, ended, there, Document(Message(r)), queue \o new)
  BY <1>1, <1>2, <1>3, <1>4, KeptOther
<1>6. Document(Message(r))' = Document(Message(r))
  BY DEF Document
<1>7. AllSaid(r)'
  BY DEF RunInv, AllSaid
<1>8. Kept(Message(r), script'[r], said'[r], phase' = "running" /\ stage'[r] = "open", stage'[r] = "ended",
           docs'[Message(r)] # Absent, Document(Message(r))', queue')
  <2>1. there = (docs'[Message(r)] # Absent) /\ ended = (stage'[r] = "ended")
    BY DEF there, ended
  <2> QED
    BY <1>5, <1>6, <2>1 DEF open2
<1> QED
  BY <1>7, <1>8 DEF RunInv

\* A step that queues no other result keeps the results.
LEMMA ResultPut ==
  ASSUME IInv, NEW r \in Runs, NEW i \in 1..MaxCalls, ResultInv(r, i),
         NEW new \in Seq(Msg), queue' = queue \o new, docs' = docs,
         \A j \in 1..Len(new) : ChunkOf(new, j, Result(r, i)) => new[j].ops = ResultOps(i)
  PROVE  ResultInv(r, i)'
<1> DEFINE ev == Result(r, i)
           F == queue \o new
<1>1. Put(queue, new, F)
  BY Puts DEF IInv
<1>2. /\ \A j \in 1..Len(queue) : ChunkOf(queue, j, ev) => queue[j].ops = ResultOps(i)
      /\ docs[ev] # Absent =>
           docs[ev].root = "dict" /\ docs[ev].calls = <<>> /\ docs[ev].results = <<i>>
  BY DEF ResultInv
<1> HIDE DEF F
<1>3. ASSUME NEW j \in 1..Len(F), ChunkOf(F, j, ev)
      PROVE  F[j].ops = ResultOps(i)
  <2>1. \/ j \in 1..Len(queue) /\ F[j] = queue[j] /\ ChunkOf(queue, j, ev)
        \/ /\ j > Len(queue) /\ j - Len(queue) \in 1..Len(new) /\ F[j] = new[j - Len(queue)]
           /\ ChunkOf(new, j - Len(queue), ev)
    BY <1>1, <1>3, ChunkPut
  <2>2. CASE j \in 1..Len(queue) /\ F[j] = queue[j] /\ ChunkOf(queue, j, ev)
    BY <1>2, <2>2
  <2>3. CASE /\ j - Len(queue) \in 1..Len(new) /\ F[j] = new[j - Len(queue)]
             /\ ChunkOf(new, j - Len(queue), ev)
    BY <2>3
  <2> QED
    BY <2>1, <2>2, <2>3
<1>4. queue' = F /\ docs' = docs
  BY DEF F
<1>5. \A j \in 1..Len(queue') : ChunkOf(queue', j, ev) => queue'[j].ops = ResultOps(i)
  BY <1>3, <1>4
<1> QED
  BY <1>2, <1>4, <1>5 DEF ResultInv

\* The steps of the agent.
LEMMA StartRun ==
  ASSUME SInv, NEW r \in Runs, NEW s \in Scripts[r], Start(r, s), NEW h \in Runs
  PROVE  RunInv(h)' /\ \A i \in 1..MaxCalls : ResultInv(h, i)'
<1> DEFINE new == StatusMsg(Message(r), "processing")
<1>1. /\ phase = "running" /\ stage[r] = "unborn" /\ stage' = [stage EXCEPT ![r] = "open"]
      /\ script' = [script EXCEPT ![r] = s] /\ queue' = queue \o new
      /\ UNCHANGED <<phase, said, docs>>
  BY DEF Start
<1>2. Message(r) \in Events /\ "processing" \in Statuses
  BY EventsAre DEF Statuses
<1>3. /\ new \in Seq(Msg) /\ Len(new) = 1 /\ new[1].ev = Message(r) /\ What(new[1]) = "processing"
      /\ "ops" \notin DOMAIN new[1]
  BY <1>2, StatusMsgIs
<1> HIDE DEF new
<1>4. IInv /\ RunInv(h) /\ \A i \in 1..MaxCalls : ResultInv(h, i)
  BY DEF SInv
<1>5. queue \in Seq(Msg) /\ stage \in [Runs -> {"unborn", "open", "ended"}] /\ DOMAIN script = Runs
  BY <1>4 DEF IInv, TypeOK
<1>6. \A j \in 1..Len(new) : j = 1
  BY <1>3
<1>7. ASSUME NEW i \in 1..MaxCalls
      PROVE  ResultInv(h, i)'
  <2>1. \A j \in 1..Len(new) : ChunkOf(new, j, Result(h, i)) => new[j].ops = ResultOps(i)
    BY <1>3, <1>6 DEF ChunkOf
  <2> QED
    BY <1>1, <1>3, <1>4, <2>1, ResultPut
<1>8. CASE h # r
  <2>1. Message(h) # Message(r)
    BY <1>8 DEF Message
  <2>2. \A j \in 1..Len(new) : new[j].ev # Message(h)
    BY <1>3, <1>6, <2>1
  <2>3. script'[h] = script[h] /\ said'[h] = said[h] /\ stage'[h] = stage[h]
    BY <1>1, <1>5, <1>8
  <2>4. RunInv(h)'
    BY <1>1, <1>3, <1>4, <2>2, <2>3, RunOther
  <2> QED
    BY <1>7, <2>4
<1>9. CASE h = r
  <2>1. /\ said[r] = 0 /\ docs[Message(r)] = Absent
        /\ \A j \in 1..Len(queue) : queue[j].ev # Message(r)
    BY <1>1, <1>4, RunIs
  <2>2. script'[r] = s /\ stage'[r] = "open" /\ said'[r] = 0 /\ docs'[Message(r)] = Absent
    BY <1>1, <1>5, <2>1
  <2>3. Put(queue, new, queue \o new) /\ queue' \in Seq(Msg)
    <3>1. Put(queue, new, queue \o new)
      BY <1>3, <1>5, Puts
    <3> QED
      BY <1>1, <3>1 DEF Put
  <2>4. ASSUME NEW j \in 1..Len(queue'), queue'[j].ev = Message(r)
        PROVE  What(queue'[j]) = "processing"
    <3>1. queue' = queue \o new
      BY <1>1
    <3>2. j \in 1..Len(queue) => queue'[j] = queue[j]
      BY <2>3, <3>1 DEF Put
    <3>3. j > Len(queue) => j - Len(queue) \in 1..Len(new) /\ queue'[j] = new[j - Len(queue)]
      BY <2>3, <3>1 DEF Put
    <3>4. j \in 1..Len(queue) \/ j > Len(queue)
      BY <2>3 DEF Put
    <3> QED
      BY <1>3, <1>6, <2>1, <2>4, <3>2, <3>3, <3>4
  <2>5. IsScript(s)
    BY DEF IsScript
  <2>6. \A open : Kept(Message(r), s, 0, open, FALSE, FALSE, NewDoc, queue')
    BY <2>3, <2>4, <2>5, KeptFresh
  <2>7. Document(Message(r))' = NewDoc
    BY <2>2 DEF Document
  <2>8. AllSaid(r)'
    BY <2>2 DEF AllSaid
  <2>9. (stage'[r] = "ended") = FALSE /\ (docs'[Message(r)] # Absent) = FALSE
    BY <2>2
  <2>10. RunInv(r)'
    <3>1. Kept(Message(r), script'[r], said'[r], phase' = "running" /\ stage'[r] = "open", stage'[r] = "ended",
               docs'[Message(r)] # Absent, Document(Message(r))', queue')
      BY <2>2, <2>6, <2>7, <2>9
    <3> QED
      BY <2>8, <3>1 DEF RunInv
  <2> QED
    BY <1>7, <1>9, <2>10
<1> QED
  BY <1>8, <1>9
-----------------------------------------------------------------------------
\* A chunk of the model keeps what is said and stored of every run.
LEMMA StreamRun ==
  ASSUME SInv, NEW r \in Runs, Stream(r), NEW h \in Runs
  PROVE  RunInv(h)' /\ \A i \in 1..MaxCalls : ResultInv(h, i)'
<1> DEFINE k == said[r] + 1
           c == script[r][k]
           new == IF c.valid THEN Emitted(r, c, k) ELSE <<>>
<1>1. /\ phase = "running" /\ stage[r] = "open" /\ said[r] < Len(script[r])
      /\ queue' = (IF c.valid THEN queue \o Emitted(r, c, k) ELSE queue)
      /\ phase' = (IF Raises(c) THEN "failed" ELSE phase)
      /\ said' = [said EXCEPT ![r] = k]
      /\ UNCHANGED <<stage, script, docs>>
  BY DEF Stream
<1>2. IInv /\ RunInv(h) /\ (\A i \in 1..MaxCalls : ResultInv(h, i)) /\ RunInv(r)
  BY DEF SInv
<1>3. queue \in Seq(Msg)
  BY <1>2 DEF IInv
<1>4. /\ IsScript(script[r]) /\ k \in 1..Len(script[r]) /\ k \in Nat /\ said[r] \in Nat /\ k - 1 = said[r]
      /\ Sayable(c) /\ c.valid \in BOOLEAN
  <2>1. IsScript(script[r]) \/ script[r] = <<>>
    BY <1>2, RunIs
  <2>2. said[r] \in Nat /\ Len(script[r]) \in Nat
    BY <1>2, RunIs
  <2>3. script[r] # <<>>
    BY <1>1, <2>2
  <2>4. k \in 1..Len(script[r])
    BY <1>1, <2>2
  <2> HIDE DEF k
  <2>5. Sayable(c) /\ c.valid \in BOOLEAN
    BY <2>1, <2>3, <2>4, ScriptIs
  <2> QED
    BY <2>1, <2>2, <2>3, <2>4, <2>5 DEF k
<1> HIDE DEF c, k
<1>5. /\ Emitted(r, c, k) \in Seq(Msg)
      /\ \A j \in 1..Len(Emitted(r, c, k)) :
           LET m == Emitted(r, c, k)[j]
           IN m.ev = Message(r) /\ What(m) \in {"typing", "/-", "call", "args", "args/-"}
  BY <1>4, EmittedIs
<1>6. new \in Seq(Msg) /\ queue' = queue \o new
  <2>1. CASE c.valid
    BY <1>1, <1>5, <2>1
  <2>2. CASE ~c.valid
    BY <1>1, <1>3, <2>2, ConcatEmptySeq
  <2> QED
    BY <2>1, <2>2
<1>7. \A j \in 1..Len(new) : new[j].ev = Message(r) /\ What(new[j]) # "ready"
  <2>1. CASE c.valid
    BY <1>5, <2>1
  <2>2. CASE ~c.valid
    <3>1. new = <<>>
      BY <2>2
    <3> QED
      BY <3>1
  <2> QED
    BY <2>1, <2>2
<1>8. \/ c.valid /\ ChunkSays(script[r], k, Message(r), new) /\ (phase' = "running" => Heard(c))
      \/ ~c.valid /\ new = <<>> /\ phase' # "running"
  <2>1. CASE c.valid
    <3>1. phase' = "running" => Heard(c)
      BY <1>1, <2>1 DEF Raises, Heard
    <3>2. ChunkSays(script[r], k, Message(r), new)
      BY <1>4, <2>1, EmittedSays DEF c
    <3> QED
      BY <2>1, <3>1, <3>2
  <2>2. CASE ~c.valid
    BY <1>1, <2>2 DEF Raises
  <2> QED
    BY <2>1, <2>2
<1> HIDE DEF new
<1>9. ASSUME NEW i \in 1..MaxCalls
      PROVE  ResultInv(h, i)'
  <2>1. \A j \in 1..Len(new) : ChunkOf(new, j, Result(h, i)) => new[j].ops = ResultOps(i)
    BY <1>7, EventsAre DEF ChunkOf
  <2> QED
    BY <1>1, <1>2, <1>6, <2>1, ResultPut
<1>10. phase' = "running" => phase = "running"
  BY <1>1
<1>11. said'[r] = k /\ \A g \in Runs : g # r => said'[g] = said[g]
  BY <1>1, <1>2 DEF IInv, TypeOK
<1>12. CASE h # r
  <2>1. Message(h) # Message(r)
    BY <1>12 DEF Message
  <2>2. \A j \in 1..Len(new) : new[j].ev # Message(h)
    BY <1>7, <2>1
  <2>3. RunInv(h)'
    BY <1>1, <1>2, <1>6, <1>10, <1>11, <1>12, <2>2, RunOther
  <2> QED
    BY <1>9, <2>3
<1>13. CASE h = r
  <2> DEFINE ev == Message(r)
             there == docs[ev] # Absent
             open2 == phase' = "running" /\ stage'[r] = "open"
  <2>1. Kept(ev, script[r], k - 1, TRUE, FALSE, there, Document(ev), queue)
    <3>1. (phase = "running" /\ stage[r] = "open") = TRUE /\ (stage[r] = "ended") = FALSE
      BY <1>1
    <3>2. Kept(ev, script[r], said[r], phase = "running" /\ stage[r] = "open", stage[r] = "ended",
               there, Document(ev), queue)
      BY <1>2 DEF RunInv
    <3> QED
      BY <1>4, <3>1, <3>2
  <2>2. Put(queue, new, queue \o new)
    BY <1>3, <1>6, Puts
  <2>3. \A j \in 1..Len(new) : ~Queued(new, j, ev, "ready")
    BY <1>7 DEF Queued
  <2>4. \/ script[r][k].valid /\ ChunkSays(script[r], k, ev, new) /\ (open2 => Heard(script[r][k]))
        \/ ~script[r][k].valid /\ new = <<>> /\ ~open2
    BY <1>8 DEF c
  <2> HIDE DEF there, open2
  <2>5. Kept(ev, script[r], k, open2, FALSE, there, Document(ev), queue \o new)
    BY <1>3, <1>4, <1>6, <2>1, <2>2, <2>3, <2>4, KeptSaid
  <2>6. Document(ev)' = Document(ev) /\ there = (docs'[ev] # Absent) /\ (stage'[r] = "ended") = FALSE
    BY <1>1 DEF Document, there
  <2>7. Kept(ev, script'[r], said'[r], phase' = "running" /\ stage'[r] = "open", stage'[r] = "ended",
             docs'[ev] # Absent, Document(ev)', queue')
    BY <1>1, <1>6, <1>11, <2>5, <2>6 DEF open2
  <2>8. AllSaid(r)'
    <3>1. ASSUME phase' = "running"
          PROVE  \A g \in 1..k : Heard(script[r][g])
      <4>1. Heard(c)
        BY <1>8, <3>1
      <4>2. \A g \in 1..said[r] : Heard(script[r][g])
        BY <1>1, <1>2 DEF RunInv, AllSaid
      <4>3. \A g \in 1..k : g \in 1..said[r] \/ g = k
        BY <1>4 DEF k
      <4> QED
        BY <4>1, <4>2, <4>3 DEF c
    <3> QED
      BY <1>1, <1>11, <3>1 DEF AllSaid
  <2>9. RunInv(r)'
    BY <2>7, <2>8 DEF RunInv
  <2> QED
    BY <1>9, <1>13, <2>9
<1> QED
  BY <1>12, <1>13
-----------------------------------------------------------------------------
\* The end of a run keeps it.
LEMMA EndRun ==
  ASSUME SInv, NEW r \in Runs, End(r), NEW h \in Runs
  PROVE  RunInv(h)' /\ \A i \in 1..MaxCalls : ResultInv(h, i)'
<1> DEFINE new == StatusMsg(Message(r), "ready")
<1>1. /\ phase = "running" /\ stage[r] = "open" /\ stage' = [stage EXCEPT ![r] = "ended"]
      /\ said[r] = Len(script[r]) /\ queue' = queue \o new
      /\ UNCHANGED <<phase, script, said, docs>>
  BY DEF End
<1>2. Message(r) \in Events /\ "ready" \in Statuses
  BY EventsAre DEF Statuses
<1>3. /\ new \in Seq(Msg) /\ Len(new) = 1 /\ new[1].ev = Message(r) /\ What(new[1]) = "ready"
      /\ "ops" \notin DOMAIN new[1]
  BY <1>2, StatusMsgIs
<1> HIDE DEF new
<1>4. IInv /\ RunInv(h) /\ \A i \in 1..MaxCalls : ResultInv(h, i)
  BY DEF SInv
<1>5. queue \in Seq(Msg) /\ stage \in [Runs -> {"unborn", "open", "ended"}]
  BY <1>4 DEF IInv, TypeOK
<1>6. \A j \in 1..Len(new) : j = 1
  BY <1>3
<1>7. ASSUME NEW i \in 1..MaxCalls
      PROVE  ResultInv(h, i)'
  <2>1. \A j \in 1..Len(new) : ChunkOf(new, j, Result(h, i)) => new[j].ops = ResultOps(i)
    BY <1>3, <1>6 DEF ChunkOf
  <2> QED
    BY <1>1, <1>3, <1>4, <2>1, ResultPut
<1>8. CASE h # r
  <2>1. Message(h) # Message(r)
    BY <1>8 DEF Message
  <2>2. \A j \in 1..Len(new) : new[j].ev # Message(h)
    BY <1>3, <1>6, <2>1
  <2>3. script'[h] = script[h] /\ said'[h] = said[h] /\ stage'[h] = stage[h]
    BY <1>1, <1>5, <1>8
  <2>4. RunInv(h)'
    BY <1>1, <1>3, <1>4, <2>2, <2>3, RunOther
  <2> QED
    BY <1>7, <2>4
<1>9. CASE h = r
  <2> DEFINE ev == Message(r)
             open == phase = "running" /\ stage[r] = "open"
             there == docs[ev] # Absent
  <2>1. Kept(ev, script[r], said[r], open, FALSE, there, Document(ev), queue)
    <3>1. (stage[r] = "ended") = FALSE
      BY <1>1
    <3>2. Kept(ev, script[r], said[r], open, stage[r] = "ended", there, Document(ev), queue)
      BY <1>4, <1>9 DEF RunInv
    <3> QED
      BY <3>1, <3>2
  <2>2. Put(queue, new, queue \o new)
    BY <1>3, <1>5, Puts
  <2>3. (IsScript(script[r]) \/ script[r] = <<>>) /\ said[r] \in 0..Len(script[r])
    BY <1>4, RunIs
  <2>4. Queued(new, 1, ev, "ready")
    BY <1>3 DEF Queued
  <2>5. stage'[r] = "ended"
    BY <1>1, <1>5
  <2> HIDE DEF there, open
  <2>6. Kept(ev, script[r], said[r], FALSE, TRUE, there, Document(ev), queue \o new)
    BY <1>3, <1>5, <2>1, <2>2, <2>3, <2>4, KeptEnd
  <2>7. /\ Document(ev)' = Document(ev) /\ there = (docs'[ev] # Absent) /\ (stage'[r] = "ended") = TRUE
        /\ (phase' = "running" /\ stage'[r] = "open") = FALSE
    BY <1>1, <2>5 DEF Document, there
  <2>8. Kept(ev, script'[r], said'[r], phase' = "running" /\ stage'[r] = "open", stage'[r] = "ended",
             docs'[ev] # Absent, Document(ev)', queue')
    BY <1>1, <2>6, <2>7
  <2>9. AllSaid(r)'
    BY <1>1, <1>4, <1>9 DEF RunInv, AllSaid
  <2>10. RunInv(r)'
    BY <2>8, <2>9 DEF RunInv
  <2> QED
    BY <1>7, <1>9, <2>10
<1> QED
  BY <1>8, <1>9

\* The result of a tool keeps it.
LEMMA ToolEndRun ==
  ASSUME SInv, NEW r \in Runs, NEW g \in 1..MaxCalls, ToolEnd(r, g), NEW h \in Runs
  PROVE  RunInv(h)' /\ \A i \in 1..MaxCalls : ResultInv(h, i)'
<1> DEFINE ev == Result(r, g)
           a == ChunkMsg(ev, ResultOps(g))
           b == StatusMsg(ev, "ready")
           new == a \o b
<1>1. queue' = queue \o a \o b /\ UNCHANGED <<phase, stage, script, said, docs>>
  BY DEF ToolEnd
<1>2. ev \in Events /\ "ready" \in Statuses /\ \A x \in Runs : Message(x) # ev
  BY EventsAre DEF Statuses
<1>3. ResultOps(g) \in Patches
  <2> DEFINE o == Op("results", g, 0)
             p == Op("results/-", g, 0)
  <2>1. o \in AnyOp /\ p \in AnyOp /\ o.path = "results" /\ ResultOps(g) = <<o, p>>
    BY DEF ResultOps, Op, AnyOp, ResultOp
  <2> HIDE DEF o, p
  <2> QED
    BY <2>1 DEF Patches
<1> HIDE DEF ev
<1>4. a \in Seq(Msg) /\ Len(a) = 1 /\ a[1].ev = ev /\ a[1].ops = ResultOps(g)
  BY <1>2, <1>3, ChunkMsgIs
<1>5. b \in Seq(Msg) /\ Len(b) = 1 /\ b[1].ev = ev /\ "ops" \notin DOMAIN b[1]
  BY <1>2, StatusMsgIs
<1>6. IInv /\ RunInv(h) /\ \A i \in 1..MaxCalls : ResultInv(h, i)
  BY DEF SInv
<1>7. queue \in Seq(Msg)
  BY <1>6 DEF IInv
<1> HIDE DEF a, b
<1>8. new \in Seq(Msg) /\ Len(new) = 2 /\ new[1] = a[1] /\ new[2] = b[1]
  BY <1>4, <1>5, ConcatProperties
<1>9. queue' = queue \o new
  BY <1>1, <1>4, <1>5, <1>7, ConcatAssociative
<1> HIDE DEF new
<1>10. \A j \in 1..Len(new) : new[j].ev = ev /\ ("ops" \in DOMAIN new[j] => new[j].ops = ResultOps(g))
  <2>1. \A j \in 1..Len(new) : j = 1 \/ j = 2
    BY <1>8
  <2> QED
    BY <1>4, <1>5, <1>8, <2>1
<1>11. ASSUME NEW i \in 1..MaxCalls
       PROVE  ResultInv(h, i)'
  <2>1. Result(h, i) = ev => i = g
    BY DEF Result, ev
  <2>2. \A j \in 1..Len(new) : ChunkOf(new, j, Result(h, i)) => new[j].ops = ResultOps(i)
    BY <1>10, <2>1 DEF ChunkOf
  <2> QED
    BY <1>1, <1>6, <1>8, <1>9, <2>2, ResultPut
<1>12. \A j \in 1..Len(new) : new[j].ev # Message(h)
  BY <1>2, <1>10
<1>13. RunInv(h)'
  BY <1>1, <1>6, <1>8, <1>9, <1>12, RunOther
<1> QED
  BY <1>11, <1>13

\* The end of the agent keeps it.
LEMMA OverRun ==
  ASSUME SInv, Done \/ Cancelled, NEW h \in Runs
  PROVE  RunInv(h)' /\ \A i \in 1..MaxCalls : ResultInv(h, i)'
<1>1. UNCHANGED <<stage, script, said, queue, docs>> /\ phase' # "running"
  BY DEF Done, Cancelled
<1>2. IInv /\ RunInv(h) /\ \A i \in 1..MaxCalls : ResultInv(h, i)
  BY DEF SInv
<1> DEFINE new == <<>>
<1>3. new \in Seq(Msg) /\ queue' = queue \o new /\ \A j \in 1..Len(new) : FALSE
  BY <1>1, <1>2, ConcatEmptySeq DEF IInv
<1> HIDE DEF new
<1>4. \A i \in 1..MaxCalls : ResultInv(h, i)'
  BY <1>1, <1>2, <1>3, ResultPut
<1>5. RunInv(h)'
  BY <1>1, <1>2, <1>3, RunOther
<1> QED
  BY <1>4, <1>5
-----------------------------------------------------------------------------
\* The worker's step, of one event.
LEMMA WorkerDocs ==
  ASSUME IInv, WorkerStep, NEW ev \in Events
  PROVE  /\ queue' = Tail(queue) /\ Taken(queue, queue') /\ UNCHANGED <<phase, stage, script, said>>
         /\ ChunkOf(queue, 1, ev) => docs'[ev] = DocAfter(Document(ev), queue[1].ops)
         /\ Queued(queue, 1, ev, "ready") => docs'[ev] = Absent /\ "ops" \notin DOMAIN queue[1]
         /\ ~ChunkOf(queue, 1, ev) /\ ~Queued(queue, 1, ev, "ready") => docs'[ev] = docs[ev]
<1> DEFINE m == queue[1]
<1>1. queue \in Seq(Msg) /\ docs \in [Events -> Doc \cup {Absent}]
  BY DEF IInv, TypeOK
<1>2. /\ queue # <<>> /\ queue' = Tail(queue) /\ UNCHANGED <<phase, stage, script, said>>
      /\ IF "ops" \in DOMAIN Head(queue) THEN ProcessChunk(Head(queue)) ELSE ProcessStatus(Head(queue))
  BY DEF WorkerStep, agent
<1>3. Taken(queue, queue') /\ Head(queue) = m /\ m \in Msg /\ 1 \in 1..Len(queue)
  BY <1>1, <1>2, Takes DEF Taken
<1> HIDE DEF m
<1>4. /\ ChunkOf(queue, 1, ev) <=> m.ev = ev /\ "ops" \in DOMAIN m
      /\ Queued(queue, 1, ev, "ready") <=> m.ev = ev /\ What(m) = "ready"
  BY <1>3 DEF m, ChunkOf, Queued
<1>5. m.ev \in Events
  BY <1>3, MsgIs
<1>6. CASE "ops" \in DOMAIN m
  <2> DEFINE doc == IF docs[m.ev] = Absent THEN NewDoc ELSE docs[m.ev]
             res == ApplyAll(doc, m.ops)
             d == IF ~InTurn(doc, m.ops) THEN doc ELSE [res.doc EXCEPT !.begun = doc.begun \/ res.ok]
  <2>1. docs' = [docs EXCEPT ![m.ev] = d]
    <3>1. ProcessChunk(m)
      BY <1>2, <1>3, <1>6
    <3> QED
      BY <3>1 DEF ProcessChunk
  <2>2. d = DocAfter(Document(m.ev), m.ops)
    BY DEF DocAfter, Document
  <2> HIDE DEF d
  <2>3. What(m) # "ready"
    <3>1. "ready" \in Statuses
      BY DEF Statuses
    <3> QED
      BY <1>3, <1>6, <3>1, MsgIs
  <2>4. docs'[ev] = IF m.ev = ev THEN d ELSE docs[ev]
    BY <1>1, <1>5, <2>1
  <2> QED
    BY <1>2, <1>3, <1>4, <1>6, <2>2, <2>3, <2>4 DEF m
<1>7. CASE "ops" \notin DOMAIN m
  <2>1. ProcessStatus(m) /\ What(m) = m.status
    BY <1>2, <1>3, <1>7, MsgIs
  <2>2. CASE m.status = "ready"
    <3>1. docs' = [docs EXCEPT ![m.ev] = Absent]
      BY <2>1, <2>2 DEF ProcessStatus
    <3>2. docs'[ev] = IF m.ev = ev THEN Absent ELSE docs[ev]
      BY <1>1, <1>5, <3>1
    <3> QED
      BY <1>2, <1>3, <1>4, <1>7, <2>1, <2>2, <3>2 DEF m
  <2>3. CASE m.status # "ready"
    <3>1. docs' = docs
      BY <2>1, <2>3 DEF ProcessStatus
    <3> QED
      BY <1>2, <1>3, <1>4, <1>7, <2>1, <2>3, <3>1
  <2> QED
    BY <2>2, <2>3
<1> QED
  BY <1>6, <1>7

\* A step of the worker keeps it of every message,
LEMMA WorkerRun ==
  ASSUME SInv, WorkerStep, NEW r \in Runs
  PROVE  RunInv(r)'
<1> DEFINE ev == Message(r)
           s == script[r]
           n == said[r]
           open == phase = "running" /\ stage[r] = "open"
           ended == stage[r] = "ended"
           there == docs[ev] # Absent
<1>1. IInv /\ RunInv(r) /\ ev \in Events
  BY EventsAre DEF SInv
<1>2. /\ Taken(queue, queue') /\ UNCHANGED <<phase, stage, script, said>>
      /\ ChunkOf(queue, 1, ev) => docs'[ev] = DocAfter(Document(ev), queue[1].ops)
      /\ Queued(queue, 1, ev, "ready") => docs'[ev] = Absent /\ "ops" \notin DOMAIN queue[1]
      /\ ~ChunkOf(queue, 1, ev) /\ ~Queued(queue, 1, ev, "ready") => docs'[ev] = docs[ev]
  BY <1>1, WorkerDocs
<1>3. Kept(ev, s, n, open, ended, there, Document(ev), queue)
  BY <1>1 DEF RunInv
<1>4. Document(ev) \in Doc /\ (~there => Document(ev) = NewDoc)
  BY <1>1, DocumentIs
<1>5. (IsScript(s) \/ s = <<>>) /\ n \in 0..Len(s) /\ n \in Nat
  BY <1>1, RunIs
<1>6. AllSaid(r)'
  BY <1>1, <1>2 DEF RunInv, AllSaid
<1>7. (open => ~ended) /\ Document(ev)' = IF docs'[ev] = Absent THEN NewDoc ELSE docs'[ev]
  BY DEF Document
<1>8. SUFFICES Kept(ev, s, n, open, ended, docs'[ev] # Absent, Document(ev)', queue')
  <2> ASSUME Kept(ev, s, n, open, ended, docs'[ev] # Absent, Document(ev)', queue')
      PROVE  RunInv(r)'
    BY <1>2, <1>6 DEF RunInv
  <2> QED
    OBVIOUS
<1> HIDE DEF open, ended, there, s, n, ev
<1>9. CASE ChunkOf(queue, 1, ev)
  <2> DEFINE d == DocAfter(Document(ev), queue[1].ops)
  <2>1. IsScript(s)
    <3>1. PICK k \in 1..n : TextPart(s, k, queue[1].ops) \/ CallsPart(s, k, queue[1].ops)
      BY <1>2, <1>3, <1>9 DEF Kept, Sourced, Taken
    <3>2. s # <<>>
      BY <1>5, <3>1
    <3> QED
      BY <1>5, <3>2
  <2>2. Kept(ev, s, n, open, ended, TRUE, d, queue') /\ d \in Doc
    BY <1>2, <1>3, <1>4, <1>5, <1>9, <2>1, KeptTaken
  <2>3. docs'[ev] = d /\ d # Absent
    BY <1>2, <1>9, <2>2, AbsentIsNoDoc
  <2>4. (docs'[ev] # Absent) = TRUE /\ Document(ev)' = d
    BY <1>7, <2>3
  <2> HIDE DEF d
  <2> QED
    BY <2>2, <2>4
<1>10. CASE Queued(queue, 1, ev, "ready")
  <2>1. ended /\ \A j \in 1..Len(queue') : queue'[j].ev # ev
    BY <1>2, <1>3, <1>10, TakeReady DEF Kept
  <2>2. (docs'[ev] # Absent) = FALSE /\ Document(ev)' = NewDoc
    BY <1>2, <1>7, <1>10
  <2>3. queue' \in Seq(Msg) /\ ~open
    BY <1>2, <1>7, <2>1 DEF Taken
  <2>4. Kept(ev, s, n, open, ended, FALSE, NewDoc, queue')
    BY <1>5, <2>1, <2>3, KeptFresh
  <2> QED
    BY <2>2, <2>4
<1>11. CASE ~ChunkOf(queue, 1, ev) /\ ~Queued(queue, 1, ev, "ready")
  <2>1. Kept(ev, s, n, open, ended, there, Document(ev), queue')
    BY <1>2, <1>3, <1>4, <1>11, KeptSkip
  <2>2. docs'[ev] = docs[ev]
    BY <1>2, <1>11
  <2>3. there = (docs'[ev] # Absent) /\ Document(ev)' = Document(ev)
    BY <1>7, <2>2 DEF there, Document
  <2> QED
    BY <2>1, <2>3
<1> QED
  BY <1>9, <1>10, <1>11

\* and of every result.
LEMMA WorkerResult ==
  ASSUME SInv, WorkerStep, NEW r \in Runs, NEW i \in 1..MaxCalls
  PROVE  ResultInv(r, i)'
<1> DEFINE ev == Result(r, i)
           ops == queue[1].ops
<1>1. IInv /\ ev \in Events
  BY EventsAre DEF SInv
<1>2. /\ \A j \in 1..Len(queue) : ChunkOf(queue, j, ev) => queue[j].ops = ResultOps(i)
      /\ docs[ev] # Absent => docs[ev].root = "dict" /\ docs[ev].calls = <<>> /\ docs[ev].results = <<i>>
  BY DEF SInv, ResultInv
<1>3. /\ Taken(queue, queue')
      /\ ChunkOf(queue, 1, ev) => docs'[ev] = DocAfter(Document(ev), ops)
      /\ Queued(queue, 1, ev, "ready") => docs'[ev] = Absent
      /\ ~ChunkOf(queue, 1, ev) /\ ~Queued(queue, 1, ev, "ready") => docs'[ev] = docs[ev]
  BY <1>1, WorkerDocs
<1>4. Document(ev) \in Doc /\ Document(ev).root # "list" /\ Document(ev).calls = <<>>
  <2>1. CASE docs[ev] = Absent
    <3>1. Document(ev) = NewDoc /\ NewDoc.root = "none" /\ NewDoc.calls = <<>>
      BY <2>1 DEF Document, NewDoc
    <3> QED
      BY <3>1, NewDocTyped
  <2>2. CASE docs[ev] # Absent
    <3>1. Document(ev) = docs[ev] /\ Document(ev) \in Doc
      BY <1>1, <2>2, DocumentIs
    <3> QED
      BY <1>2, <2>2, <3>1
  <2> QED
    BY <2>1, <2>2
<1> HIDE DEF ev
<1>5. ASSUME NEW j \in 1..Len(queue'), ChunkOf(queue', j, ev)
      PROVE  queue'[j].ops = ResultOps(i)
  <2>1. j + 1 \in 1..Len(queue) /\ queue'[j] = queue[j + 1] /\ ChunkOf(queue, j + 1, ev)
    BY <1>3, <1>5, ChunkTake
  <2> QED
    BY <1>2, <2>1
<1>6. CASE ChunkOf(queue, 1, ev)
  <2> DEFINE doc == Document(ev)
             res == ApplyAll(doc, ops)
             d == docs'[ev]
  <2>1. ops = ResultOps(i)
    BY <1>2, <1>3, <1>6 DEF Taken
  <2>2. InTurn(doc, ops)
    <3> DEFINE o == Op("results", i, 0)
               p == Op("results/-", i, 0)
    <3>1. ops = <<o, p>> /\ p.path = "results/-"
      BY <2>1 DEF ResultOps, Op
    <3> HIDE DEF o, p, ops
    <3>2. 2 \in DOMAIN ops /\ ops[2].path = "results/-"
      BY <3>1
    <3> QED
      BY <3>2 DEF InTurn
  <2>3. res.ok /\ res.doc = [doc EXCEPT !.root = "dict", !.results = <<i>>]
    <3> HIDE DEF doc, ops
    <3> QED
      BY <1>4, <2>1, ResultApplied DEF doc
  <2>4. d = [res.doc EXCEPT !.begun = doc.begun \/ res.ok]
    BY <1>3, <1>6, <2>2 DEF DocAfter
  <2> HIDE DEF d, res, doc
  <2>5. doc \in Doc /\ doc.calls = <<>>
    BY <1>4 DEF doc
  <2>6. res.doc.root = "dict" /\ res.doc.calls = <<>> /\ res.doc.results = <<i>> /\ DOMAIN res.doc = DOMAIN doc
    BY <2>3, <2>5 DEF Doc
  <2>7. d.root = "dict" /\ d.calls = <<>> /\ d.results = <<i>>
    BY <2>4, <2>6
  <2> QED
    BY <1>5, <2>7 DEF ResultInv, d, ev
<1>7. CASE ~ChunkOf(queue, 1, ev)
  <2>1. docs'[ev] # Absent => docs'[ev] = docs[ev]
    BY <1>3, <1>7
  <2> QED
    BY <1>2, <1>5, <2>1 DEF ResultInv, ev
<1> QED
  BY <1>6, <1>7
-----------------------------------------------------------------------------
\* What subscribers are told of a message, and what they are told in a step.
CallSaid(r, i, q) ==
  /\ ToSet(q) \subseteq ArgsSaid(r, i)
  /\ \A m, n \in DOMAIN q : m < n => q[m] <= q[n]
  /\ Alone(r, i) => /\ \A m, n \in DOMAIN q : m < n => q[m] < q[n]
                    /\ ArgsSaid(r, i) \ Objects(r, i) \subseteq ToSet(q)
MessageSaid(r, f) ==
  \/ DOMAIN f = {"text"} /\ Says(f.text, TextSaid(r))
  \/ DOMAIN f = {"calls"} /\ \A i \in DOMAIN f.calls : CallSaid(r, i, f.calls[i])

\* What is kept was kept, or is notified by the step.
LEMMA FinalsAppend ==
  ASSUME shown \in [Events -> Seq(Notes)], NEW ev \in Events, NEW m \in Events, NEW x \in Notes, shown' = Shown(m, x),
         NEW f \in Finals(ev)'
  PROVE  f \in Finals(ev) \/ (m = ev /\ x.what = "final" /\ f = x.content)
<1> DEFINE seen == shown[ev]
           seen2 == shown'[ev]
<1>1. PICK d \in ToSet(seen2) : d.what = "final" /\ f = d.content
  BY DEF Finals
<1>2. seen2 = IF m = ev THEN Append(seen, x) ELSE seen
  BY DEF Shown
<1>3. seen \in Seq(Notes)
  OBVIOUS
<1> HIDE DEF seen, seen2
<1>4. d \in ToSet(seen) \/ (m = ev /\ d = x)
  <2>1. CASE m = ev
    <3> DEFINE t == Append(seen, x)
    <3>1. /\ t \in Seq(Notes) /\ Len(t) = Len(seen) + 1 /\ Len(seen) \in Nat /\ t[Len(seen) + 1] = x
          /\ \A k \in 1..Len(seen) : t[k] = seen[k]
      BY <1>3, AppendProperties, LenProperties
    <3>2. DOMAIN t = 1..Len(t) /\ DOMAIN seen = 1..Len(seen)
      BY <1>3, <3>1, LenProperties
    <3> HIDE DEF t
    <3>3. PICK k \in 1..Len(t) : d = t[k]
      BY <1>1, <1>2, <2>1, <3>2 DEF ToSet, t
    <3>4. k \in 1..Len(seen) \/ k = Len(seen) + 1
      BY <3>1
    <3> QED
      BY <2>1, <3>1, <3>2, <3>3, <3>4 DEF ToSet
  <2>2. CASE m # ev
    BY <1>1, <1>2, <2>2
  <2> QED
    BY <2>1, <2>2
<1> QED
  BY <1>1, <1>4 DEF Finals, seen

\* The worker keeps a document when its event is ready and has all it takes.
LEMMA WorkerFinals ==
  ASSUME IInv, WorkerStep, NEW ev \in Events, NEW f \in Finals(ev)'
  PROVE  \/ f \in Finals(ev)
         \/ Queued(queue, 1, ev, "ready") /\ Builds(ev) /\ f = Final(docs[ev])
<1> DEFINE m == queue[1]
<1>1. queue \in Seq(Msg) /\ shown \in [Events -> Seq(Notes)]
  BY DEF IInv, TypeOK, Notes
<1>2. /\ queue # <<>>
      /\ IF "ops" \in DOMAIN Head(queue) THEN ProcessChunk(Head(queue)) ELSE ProcessStatus(Head(queue))
  BY DEF WorkerStep
<1>3. Head(queue) = m /\ m \in Msg /\ 1 \in 1..Len(queue)
  BY <1>1, <1>2, Takes DEF Taken
<1> HIDE DEF m
<1>4. m.ev \in Events
  BY <1>3, MsgIs
<1>5. CASE shown' = shown
  BY <1>5 DEF Finals
<1>6. CASE "ops" \in DOMAIN m
  <2> DEFINE x == [what |-> m.ops[1].path]
  <2>1. shown' = shown \/ shown' = Shown(m.ev, x)
    BY <1>2, <1>3, <1>6 DEF ProcessChunk
  <2>2. x \in Notes /\ x.what # "final"
    <3>1. m.ops[1].path \in Whats
      BY <1>3, <1>6, MsgIs
    <3> QED
      BY <3>1 DEF Notes, Whats
  <2> HIDE DEF x
  <2> QED
    BY <1>1, <1>4, <1>5, <2>1, <2>2, FinalsAppend
<1>7. CASE "ops" \notin DOMAIN m
  <2>1. ProcessStatus(m) /\ What(m) = m.status /\ m.status \in Statuses
    BY <1>2, <1>3, <1>7, MsgIs
  <2>2. CASE m.status = "ready"
    <3> DEFINE x == [what |-> "final", content |-> Final(docs[m.ev])]
    <3>1. shown' = shown \/ (Builds(m.ev) /\ shown' = Shown(m.ev, x))
      BY <2>1, <2>2 DEF ProcessStatus
    <3>2. CASE Builds(m.ev) /\ shown' = Shown(m.ev, x)
      <4>1. docs[m.ev] \in Doc
        BY <1>4, <3>2 DEF Builds, IInv, TypeOK
      <4>2. x \in Notes
        BY <4>1, FinalTyped
      <4>3. x.content = Final(docs[m.ev])
        OBVIOUS
      <4> HIDE DEF x
      <4>4. f \in Finals(ev) \/ (m.ev = ev /\ f = x.content)
        BY <1>1, <1>4, <3>2, <4>2, FinalsAppend
      <4>5. m.ev = ev => Queued(queue, 1, ev, "ready")
        BY <1>3, <2>1, <2>2 DEF Queued, m
      <4> QED
        BY <3>2, <4>3, <4>4, <4>5
    <3> QED
      BY <1>5, <3>1, <3>2
  <2>3. CASE m.status # "ready"
    <3> DEFINE x == [what |-> m.status]
    <3>1. shown' = Shown(m.ev, x)
      BY <2>1, <2>3 DEF ProcessStatus
    <3>2. x \in Notes /\ x.what # "final"
      BY <2>1, <2>3 DEF Notes, Whats, Statuses
    <3> HIDE DEF x
    <3> QED
      BY <1>1, <1>4, <3>1, <3>2, FinalsAppend
  <2> QED
    BY <2>2, <2>3
<1> QED
  BY <1>6, <1>7

\* All of the text of a message that is ready is in its document.
LEMMA AllText ==
  ASSUME SInv, NEW r \in Runs, Queued(queue, 1, Message(r), "ready")
  PROVE  Says(Document(Message(r)).text, TextSaid(r)) /\ stage[r] = "ended"
<1> DEFINE ev == Message(r)
           s == script[r]
           n == said[r]
           text == Document(ev).text
           ended == stage[r] = "ended"
<1>1. IInv /\ AllSaid(r) /\ ev \in Events
  BY EventsAre DEF SInv, RunInv
<1>2. /\ ReadyLast(ev, ended, queue) /\ TextInOrder(ev, queue, text) /\ TextSaidOnly(s, n, text)
      /\ ~Closed(ev, ended, queue) => TextKept(ev, s, n, queue, text)
  BY DEF SInv, RunInv, Kept
<1>3. text \in Seq(Nat) /\ DOMAIN text = 1..Len(text)
  <2>1. Document(ev) \in Doc
    BY <1>1, DocumentIs
  <2>2. text \in Seq(Nat)
    BY <2>1 DEF Doc
  <2> HIDE DEF text
  <2> QED
    BY <2>2, LenProperties
<1>4. 1 \in 1..Len(queue)
  BY DEF Queued
<1>5. ended /\ \A j \in 1..Len(queue) : queue[j].ev = ev => j <= 1
  <2> HIDE DEF ended, ev
  <2> QED
    BY <1>2, <1>4 DEF ReadyLast, ev
<1>6. TextKept(ev, s, n, queue, text)
  BY <1>2, <1>4 DEF Closed
<1>7. /\ n = Len(s) /\ DOMAIN s = 1..n
      /\ \A k \in 1..n : s[k].valid /\ Heard(s[k])
  <2>1. IsScript(s) \/ s = <<>>
    BY <1>1, RunIs
  <2>2. DOMAIN s = 1..Len(s)
    BY <2>1, ScriptIs
  <2> QED
    BY <1>1, <1>5, <2>2 DEF AllSaid, Heard
<1> HIDE DEF text, s, n
<1>8. TextSaid(r) = {k \in 1..n : s[k].text}
  BY <1>7 DEF TextSaid, s
<1>9. \A j \in 1..Len(queue) : ~Queued(queue, j, ev, "/-")
  <2> SUFFICES ASSUME NEW j \in 1..Len(queue), Queued(queue, j, ev, "/-")
               PROVE  FALSE
    OBVIOUS
  <2>1. j = 1
    BY <1>5 DEF Queued
  <2> QED
    BY <2>1 DEF Queued
<1>10. ASSUME NEW k \in 1..n, s[k].text
       PROVE  k \in ToSet(text)
  <2>1. PICK a \in 1..Len(text) : text[a] = k
    BY <1>6, <1>7, <1>9, <1>10 DEF TextKept
  <2> QED
    BY <1>3, <2>1 DEF ToSet
<1>11. ASSUME NEW k \in ToSet(text)
       PROVE  k \in 1..n /\ s[k].text
  <2>1. PICK a \in 1..Len(text) : text[a] = k
    BY <1>3 DEF ToSet
  <2> QED
    BY <1>2, <2>1 DEF TextSaidOnly
<1>12. ToSet(text) = TextSaid(r)
  BY <1>8, <1>10, <1>11
<1>13. \A a, b \in DOMAIN text : a < b => text[a] < text[b]
  BY <1>2, <1>3 DEF TextInOrder
<1> QED
  BY <1>5, <1>12, <1>13 DEF Says, text

\* Each call of a message that is ready and has all it takes has the arguments that were said.
LEMMA AllCalls ==
  ASSUME SInv, NEW r \in Runs, docs[Message(r)] # Absent, docs[Message(r)].root = "dict",
         Builds(Message(r)), Queued(queue, 1, Message(r), "ready")
  PROVE  LET calls == docs[Message(r)].calls
         IN calls # <<>> /\ \A i \in DOMAIN calls : CallSaid(r, i, calls[i].args)
<1> DEFINE ev == Message(r)
           doc == docs[ev]
           calls == doc.calls
           s == script[r]
           n == said[r]
           ended == stage[r] = "ended"
<1>1. IInv /\ ev \in Events /\ Document(ev) = doc /\ doc \in Doc /\ AllSaid(r)
  <2>1. IInv /\ ev \in Events /\ AllSaid(r)
    BY EventsAre DEF SInv, RunInv
  <2> QED
    BY <2>1, DocumentIs
<1>2. /\ Entries(s, doc) /\ CallOrder(ev, s, n, queue, calls) /\ CallsKept(ev, s, n, queue, doc)
      /\ ReadyLast(ev, ended, queue)
  <2>1. Kept(ev, s, n, phase = "running" /\ stage[r] = "open", ended, doc # Absent, Document(ev), queue)
    BY DEF SInv, RunInv
  <2> QED
    BY <1>1, <2>1 DEF Kept
<1>3. calls \in Seq(Entry) /\ DOMAIN calls = 1..Len(calls) /\ Len(calls) \in Nat
  <2>1. calls \in Seq(Entry)
    BY <1>1 DEF Doc
  <2> HIDE DEF calls
  <2> QED
    BY <2>1, LenProperties
<1>4. calls # <<>> /\ Len(calls) # 0 /\ doc.root = "dict"
  <2>1. calls # <<>> /\ doc.root = "dict"
    BY <1>2 DEF Entries
  <2> HIDE DEF calls
  <2> QED
    BY <1>3, <2>1, EmptySeq
<1>5. \A i \in DOMAIN calls : calls[i].opened
  BY EventsAre DEF Builds, ToSet
<1> HIDE DEF s, n, calls, doc, ev
<1>6. PICK p \in Places(s) : Len(calls) = CallAt(s, p).i
  BY <1>2, <1>4 DEF CallOrder, Mentioned
<1>7. IsScript(s)
  <2>1. s # <<>>
    BY <1>6 DEF Places
  <2> QED
    BY <1>1, <2>1, RunIs DEF s
<1>8. \A i \in DOMAIN calls : i \in 1..MaxCalls
  <2>1. Len(calls) \in 1..MaxCalls
    <3>1. p[1] \in 1..Len(s) /\ p[2] \in 1..Len(s[p[1]].calls) /\ CallAt(s, p) = s[p[1]].calls[p[2]]
      BY <1>7, PlacesAre, ScriptIs
    <3> QED
      BY <1>6, <1>7, <3>1, ScriptIs
  <2> QED
    BY <1>3, <2>1, MaxCallsNat
<1>9. ended /\ \A j \in 1..Len(queue) : ~ChunkOf(queue, j, ev)
  <2>1. 1 \in 1..Len(queue) /\ Queued(queue, 1, ev, "ready")
    BY DEF Queued, ev
  <2>2. ended /\ \A j \in 1..Len(queue) : queue[j].ev = ev => j <= 1
    BY <1>2, <2>1 DEF ReadyLast
  <2>3. "ops" \notin DOMAIN queue[1]
    <3>1. queue[1] \in Msg /\ What(queue[1]) = "ready" /\ "ready" \in Statuses
      BY <1>1, <2>1, LenProperties DEF IInv, Queued, Statuses
    <3> QED
      BY <3>1, MsgIs
  <2>4. ASSUME NEW j \in 1..Len(queue), ChunkOf(queue, j, ev)
        PROVE  FALSE
    <3>1. j = 1
      BY <2>2, <2>4 DEF ChunkOf
    <3> QED
      BY <2>3, <2>4, <3>1 DEF ChunkOf
  <2> QED
    BY <2>2, <2>4
<1>10. /\ n = Len(s) /\ DOMAIN s = 1..n /\ n \in Nat
       /\ \A k \in 1..n : Heard(s[k])
  <2>1. DOMAIN s = 1..Len(s) /\ Len(s) \in Nat
    BY <1>7, ScriptIs
  <2> QED
    BY <1>1, <1>9, <2>1 DEF AllSaid, s, n
<1>11. ASSUME NEW i \in DOMAIN calls
       PROVE  CallSaid(r, i, calls[i].args)
  <2> DEFINE args == calls[i].args
             once == Good(s, i)
  <2>1. i \in 1..MaxCalls /\ i \in 1..Len(calls) /\ i <= Len(calls)
    <3>1. i \in 1..Len(calls)
      BY <1>3
    <3> QED
      BY <1>3, <1>8, <3>1
  <2>2. ArgsOf(doc, i) = args /\ OpenedIn(doc, i)
    BY <1>5, <2>1 DEF ArgsOf, OpenedIn, calls
  <2>3. args \in Seq(Nat) /\ DOMAIN args = 1..Len(args)
    <3>1. args \in Seq(Nat)
      <4>1. calls[i] \in Entry
        BY <1>3, <2>1, LenProperties
      <4> QED
        BY <4>1 DEF Entry
    <3> HIDE DEF args
    <3> QED
      BY <3>1, LenProperties
  <2>4. /\ Ordered(once, args)
        /\ ArgsSaidOnly(s, n, args, i)
        /\ once => ArgsKept(ev, s, n, queue, doc, i)
    BY <1>2, <2>1, <2>2 DEF CallsKept, ArgsInOrder
  <2>5. Alone(r, i) => once
    BY <1>2, <2>1, <2>2 DEF Alone, Good, AloneIn, Entries, s
  <2> HIDE DEF args, once
  <2>6. ToSet(args) \subseteq ArgsSaid(r, i)
    <3> SUFFICES ASSUME NEW x \in ToSet(args)
                 PROVE  x \in ArgsSaid(r, i)
      OBVIOUS
    <3>1. PICK a \in 1..Len(args) : args[a] = x
      BY <2>3 DEF ToSet
    <3>2. SaysArgs(s, x, i)
      BY <2>4, <3>1 DEF ArgsSaidOnly
    <3> QED
      BY <3>2 DEF SaysArgs, ArgsSaid, s
  <2>7. \A a \in 1..Len(args) : args[a] \in Nat
    BY <1>10, <2>4 DEF ArgsSaidOnly
  <2>8. \A a, b \in DOMAIN args : a < b => args[a] <= args[b] /\ (once => args[a] < args[b])
    BY <2>3, <2>4, <2>7 DEF Ordered, Lt
  <2>9. ASSUME once, NEW k \in ArgsSaid(r, i) \ Objects(r, i)
        PROVE  k \in ToSet(args)
    <3>1. Owed(s, k, i) /\ k \in DOMAIN s
      BY DEF Owed, SaysArgs, ObjectAt, ArgsSaid, Objects, s
    <3>2. k \in 1..n /\ Heard(s[k])
      BY <1>10, <3>1
    <3>3. \/ Has(ArgsOf(doc, i), k)
          \/ \E j \in 1..Len(queue) : ArgsAt(queue, j, ev, i) /\ queue[j].ops[1].v = k
          \/ ~OpenQueued(ev, queue, i) /\ ~OpenedIn(doc, i)
          \/ doc.root = "list"
      BY <2>4, <2>9, <3>1, <3>2 DEF ArgsKept
    <3>4. Has(args, k)
      BY <1>4, <1>9, <2>2, <3>3 DEF ArgsAt
    <3> QED
      BY <2>3, <3>4 DEF Has, ToSet
  <2> QED
    BY <2>5, <2>6, <2>8, <2>9 DEF CallSaid, args
<1> QED
  BY <1>4, <1>11 DEF calls, doc, ev

\* A message that is ready and has all it takes says what the model said.
LEMMA FinalSaid ==
  ASSUME SInv, NEW r \in Runs, Queued(queue, 1, Message(r), "ready"), Builds(Message(r))
  PROVE  MessageSaid(r, Final(docs[Message(r)]))
<1> DEFINE ev == Message(r)
           doc == docs[ev]
<1>1. doc # Absent /\ doc.root # "none"
  BY DEF Builds
<1>2. Document(ev) = doc /\ doc \in Doc
  <2>1. IInv /\ ev \in Events
    BY EventsAre DEF SInv
  <2> QED
    BY <1>1, <2>1, DocumentIs
<1>3. Says(doc.text, TextSaid(r))
  BY <1>2, AllText
<1>4. doc.root = "dict" => doc.calls # <<>> /\ \A i \in DOMAIN doc.calls : CallSaid(r, i, doc.calls[i].args)
  BY <1>1, AllCalls
<1> HIDE DEF doc
<1>5. CASE doc.root = "list"
  <2> DEFINE f == [text |-> doc.text]
  <2>1. Final(doc) = f /\ DOMAIN f = {"text"} /\ f.text = doc.text
    BY <1>5 DEF Final
  <2> HIDE DEF f
  <2>2. MessageSaid(r, f)
    BY <1>3, <2>1 DEF MessageSaid
  <2> QED
    BY <2>1, <2>2 DEF doc
<1>6. CASE doc.root = "dict"
  <2> DEFINE given == [i \in DOMAIN doc.calls |-> doc.calls[i].args]
             f == [calls |-> given]
  <2>1. doc.root # "list" /\ doc.calls # <<>>
    BY <1>4, <1>6
  <2>2. Final(doc) = f
    BY <2>1 DEF Final
  <2>3. DOMAIN given = DOMAIN doc.calls /\ \A i \in DOMAIN given : given[i] = doc.calls[i].args
    OBVIOUS
  <2> HIDE DEF given
  <2>4. DOMAIN f = {"calls"} /\ f.calls = given
    OBVIOUS
  <2> HIDE DEF f
  <2>5. \A i \in DOMAIN f.calls : CallSaid(r, i, f.calls[i])
    BY <1>4, <1>6, <2>3, <2>4
  <2>6. MessageSaid(r, f)
    BY <2>4, <2>5 DEF MessageSaid
  <2> QED
    BY <2>2, <2>6 DEF doc
<1> QED
  BY <1>1, <1>2, <1>5, <1>6 DEF Doc
-----------------------------------------------------------------------------
\* The invariant holds at first.
LEMMA SInvInit ==
  ASSUME Init
  PROVE  SInv
<1>1. IInv /\ queue = <<>> /\ queue \in Seq(Msg) /\ Len(queue) = 0
  BY IInvInit DEF Init
<1>2. ASSUME NEW r \in Runs
      PROVE  RunInv(r) /\ \A i \in 1..MaxCalls : ResultInv(r, i)
  <2>1. /\ script[r] = <<>> /\ said[r] = 0 /\ stage[r] = "unborn" /\ docs[Message(r)] = Absent
        /\ \A i \in 1..MaxCalls : docs[Result(r, i)] = Absent
    BY <1>2, EventsAre DEF Init
  <2>2. \A open : Kept(Message(r), <<>>, 0, open, FALSE, FALSE, NewDoc, queue)
    <3> DEFINE s == <<>>
    <3>1. ASSUME NEW j \in 1..Len(queue)
          PROVE  FALSE
      BY <1>1
    <3>2. 0 \in Nat /\ s = <<>>
      OBVIOUS
    <3> HIDE DEF s
    <3>3. \A open : Kept(Message(r), s, 0, open, FALSE, FALSE, NewDoc, queue)
      BY <1>1, <3>1, <3>2, KeptFresh
    <3> QED
      BY <3>3 DEF s
  <2>3. (stage[r] = "ended") = FALSE /\ (docs[Message(r)] # Absent) = FALSE /\ Document(Message(r)) = NewDoc
    BY <2>1 DEF Document
  <2>4. Kept(Message(r), script[r], said[r], phase = "running" /\ stage[r] = "open", stage[r] = "ended",
             docs[Message(r)] # Absent, Document(Message(r)), queue)
    BY <2>1, <2>2, <2>3
  <2>5. AllSaid(r)
    BY <2>1 DEF AllSaid
  <2>6. \A i \in 1..MaxCalls : ResultInv(r, i)
    BY <1>1, <2>1 DEF ResultInv, ChunkOf
  <2> QED
    BY <2>4, <2>5, <2>6 DEF RunInv
<1> QED
  BY <1>1, <1>2 DEF SInv

\* Every step keeps the invariant.
LEMMA SInvStep ==
  ASSUME SInv, [Next]_vars
  PROVE  SInv'
<1>1. IInv'
  BY IInvStep DEF SInv
<1>2. ASSUME NEW h \in Runs
      PROVE  RunInv(h)' /\ \A i \in 1..MaxCalls : ResultInv(h, i)'
  <2>1. ASSUME NEW r \in Runs, Stream(r)
        PROVE  RunInv(h)' /\ \A i \in 1..MaxCalls : ResultInv(h, i)'
    BY <2>1, StreamRun
  <2>2. ASSUME NEW r \in Runs, End(r)
        PROVE  RunInv(h)' /\ \A i \in 1..MaxCalls : ResultInv(h, i)'
    BY <2>2, EndRun
  <2>3. ASSUME NEW r \in Runs, NEW s \in Scripts[r], Start(r, s)
        PROVE  RunInv(h)' /\ \A i \in 1..MaxCalls : ResultInv(h, i)'
    BY <2>3, StartRun
  <2>4. ASSUME NEW r \in Runs, NEW i \in 1..MaxCalls, ToolEnd(r, i)
        PROVE  RunInv(h)' /\ \A g \in 1..MaxCalls : ResultInv(h, g)'
    BY <2>4, ToolEndRun
  <2>5. CASE Done \/ Cancelled
    BY <2>5, OverRun
  <2>6. CASE WorkerStep
    BY <2>6, WorkerRun, WorkerResult
  <2>7. CASE UNCHANGED vars
    <3>1. UNCHANGED <<phase, stage, script, said, queue, docs>>
      BY <2>7 DEF vars, agent
    <3>2. RunInv(h) /\ \A i \in 1..MaxCalls : ResultInv(h, i)
      BY DEF SInv
    <3>3. Document(Message(h))' = Document(Message(h))
      BY <3>1 DEF Document
    <3>4. RunInv(h)'
      BY <3>1, <3>2, <3>3 DEF RunInv, AllSaid
    <3>5. \A i \in 1..MaxCalls : ResultInv(h, i)'
      BY <3>1, <3>2 DEF ResultInv
    <3> QED
      BY <3>4, <3>5
  <2> QED
    BY <2>1, <2>2, <2>3, <2>4, <2>5, <2>6, <2>7 DEF Next
<1> QED
  BY <1>1, <1>2 DEF SInv

\* Of the same script, a message says what it said.
LEMMA SaidSame ==
  ASSUME NEW r \in Runs, script'[r] = script[r], NEW f, MessageSaid(r, f)
  PROVE  MessageSaid(r, f)'
<1>1. TextSaid(r)' = TextSaid(r)
  BY DEF TextSaid
<1>2. ASSUME NEW i
      PROVE  ArgsSaid(r, i)' = ArgsSaid(r, i) /\ Alone(r, i)' = Alone(r, i) /\ Objects(r, i)' = Objects(r, i)
  BY DEF ArgsSaid, Alone, Objects
<1>3. CASE DOMAIN f = {"text"} /\ Says(f.text, TextSaid(r))
  BY <1>1, <1>3 DEF MessageSaid
<1>4. CASE DOMAIN f = {"calls"} /\ \A i \in DOMAIN f.calls : CallSaid(r, i, f.calls[i])
  <2>1. \A i, q : CallSaid(r, i, q) => CallSaid(r, i, q)'
    BY <1>2 DEF CallSaid
  <2> QED
    BY <1>4, <2>1 DEF MessageSaid
<1> QED
  BY <1>3, <1>4 DEF MessageSaid

\* A step of the agent says nothing to subscribers, and a run's script is chosen before
\* anything is said of it.
LEMMA AgentSaid ==
  ASSUME SInv, NEW r \in Runs, shown' = shown, script'[r] = script[r] \/ stage[r] = "unborn",
         NEW f \in Finals(Message(r))', MessageSaid(r, f)
  PROVE  MessageSaid(r, f)'
<1>1. f \in Finals(Message(r))
  BY DEF Finals
<1>2. stage[r] # "unborn"
  <2> SUFFICES ASSUME stage[r] = "unborn"
               PROVE  FALSE
    OBVIOUS
  <2>1. shown[Message(r)] = <<>>
    BY DEF SInv, IInv, StartFirst
  <2>2. ToSet(<<>>) = {}
    BY DEF ToSet
  <2> QED
    BY <1>1, <2>1, <2>2 DEF Finals
<1>3. script'[r] = script[r]
  BY <1>2
<1> QED
  BY <1>3, SaidSame

\* Every step keeps what is kept of a run as it was said.
LEMMA SaidStep ==
  ASSUME SInv, FinalIsSaid, [Next]_vars, NEW r \in Runs
  PROVE  /\ \A f \in Finals(Message(r))' : MessageSaid(r, f)'
         /\ \A i \in 1..MaxCalls : Finals(Result(r, i))' \subseteq {[results |-> <<i>>]}
<1>1. /\ \A f \in Finals(Message(r)) : MessageSaid(r, f)
      /\ \A i \in 1..MaxCalls : Finals(Result(r, i)) \subseteq {[results |-> <<i>>]}
  BY DEF FinalIsSaid, MessageSaid, CallSaid
<1>2. ASSUME shown' = shown, script'[r] = script[r] \/ stage[r] = "unborn"
      PROVE  /\ \A f \in Finals(Message(r))' : MessageSaid(r, f)'
             /\ \A i \in 1..MaxCalls : Finals(Result(r, i))' \subseteq {[results |-> <<i>>]}
  <2>1. \A ev : Finals(ev)' = Finals(ev)
    BY <1>2 DEF Finals
  <2> QED
    BY <1>1, <1>2, <2>1, AgentSaid
<1>3. CASE WorkerStep
  <2>1. IInv /\ script' = script
    BY <1>3 DEF SInv, WorkerStep, agent
  <2>2. ASSUME NEW f \in Finals(Message(r))'
        PROVE  MessageSaid(r, f)'
    <3>1. \/ f \in Finals(Message(r))
          \/ /\ Queued(queue, 1, Message(r), "ready") /\ Builds(Message(r))
             /\ f = Final(docs[Message(r)])
      BY <1>3, <2>1, EventsAre, WorkerFinals
    <3>2. MessageSaid(r, f)
      BY <1>1, <3>1, FinalSaid
    <3> QED
      BY <2>1, <3>2, SaidSame
  <2>3. ASSUME NEW i \in 1..MaxCalls, NEW f \in Finals(Result(r, i))'
        PROVE  f = [results |-> <<i>>]
    <3> DEFINE ev == Result(r, i)
    <3>1. \/ f \in Finals(ev)
          \/ Builds(ev) /\ f = Final(docs[ev])
      BY <1>3, <2>1, EventsAre, WorkerFinals
    <3>2. CASE f \in Finals(ev)
      BY <1>1, <3>2
    <3>3. CASE Builds(ev) /\ f = Final(docs[ev])
      <4>1. docs[ev].root = "dict" /\ docs[ev].calls = <<>> /\ docs[ev].results = <<i>>
        BY <3>3 DEF SInv, ResultInv, Builds
      <4> QED
        BY <3>3, <4>1 DEF Final
    <3> QED
      BY <3>1, <3>2, <3>3
  <2> QED
    BY <2>2, <2>3
<1>4. ASSUME NEW h \in Runs, NEW s \in Scripts[h], Start(h, s)
      PROVE  shown' = shown /\ (script'[r] = script[r] \/ stage[r] = "unborn")
  <2>1. script \in [Runs -> (UNION {Scripts[g] : g \in Runs}) \cup {<<>>}]
    BY DEF SInv, IInv, TypeOK
  <2> QED
    BY <1>4, <2>1 DEF Start
<1>5. CASE \/ \E h \in Runs : Stream(h) \/ End(h)
           \/ \E h \in Runs, i \in 1..MaxCalls : ToolEnd(h, i)
           \/ Done \/ Cancelled \/ UNCHANGED vars
  <2>1. shown' = shown /\ script' = script
    BY <1>5 DEF Stream, End, ToolEnd, Done, Cancelled, vars, agent
  <2> QED
    BY <1>2, <2>1
<1> QED
  BY <1>2, <1>3, <1>4, <1>5 DEF Next

(* For any runs, scripts and number of calls: a message that is kept says   *)
(* what the model said.  A text is all of its text, in order; the arguments *)
(* of a call are from the chunks that have some for it, in their order, and *)
(* if these come one to a chunk none is repeated or missing but objects;    *)
(* and a kept result is that of its own call: whichever patches the store   *)
(* refused or applied out of place, and whatever json.loads makes of them.  *)
THEOREM KeptIsSaid == Spec => []FinalIsSaid
<1>1. Init => SInv /\ FinalIsSaid
  <2> SUFFICES ASSUME Init
               PROVE  SInv /\ FinalIsSaid
    OBVIOUS
  <2>1. \A ev \in Events : Finals(ev) = {}
    <3>1. \A ev \in Events : shown[ev] = <<>>
      BY DEF Init
    <3>2. ToSet(<<>>) = {}
      BY DEF ToSet
    <3> QED
      BY <3>1, <3>2 DEF Finals
  <2> QED
    BY <2>1, SInvInit, EventsAre DEF FinalIsSaid
<1>2. SInv /\ FinalIsSaid /\ [Next]_vars => SInv' /\ FinalIsSaid'
  <2> SUFFICES ASSUME SInv, FinalIsSaid, [Next]_vars
               PROVE  SInv' /\ FinalIsSaid'
    OBVIOUS
  <2>1. ASSUME NEW r \in Runs
        PROVE  /\ \A f \in Finals(Message(r))' : MessageSaid(r, f)'
               /\ \A i \in 1..MaxCalls : Finals(Result(r, i))' \subseteq {[results |-> <<i>>]}
    BY SaidStep
  <2>2. FinalIsSaid'
    BY <2>1 DEF FinalIsSaid, MessageSaid, CallSaid
  <2> QED
    BY <2>2, SInvStep
<1> QED
  BY <1>1, <1>2, PTL DEF Spec
=============================================================================
