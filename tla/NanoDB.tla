------------------------------- MODULE NanoDB -------------------------------
(***************************************************************************)
(* A collection of NanoDB, packages/nanodb/src/flux0_nanodb: memory.py,    *)
(* query.py, projection.py, common.py.  No operation suspends, so each is  *)
(* one step.  What can go wrong is in what a call leaves behind: find      *)
(* sorts and projects documents it shares with the collection, insertions  *)
(* and updates fail midway.                                                *)
(*                                                                         *)
(* A document is a function from keys to values: a number, a Boolean, a    *)
(* string, or one level of a nested document.  A path is a sequence of one *)
(* or two keys.                                                            *)
(***************************************************************************)
EXTENDS Naturals, Integers, FiniteSets, SequencesExt

CONSTANTS Names,        \* keys of documents, of either level
          Inserts,      \* documents that are inserted
          Required,     \* the required keys of the schema
          Queries,      \* filters, closed under their parts
          Depth,        \* how deep each of them is
          Projections,  \* sequences of [path, mode]
          Sorts,        \* sequences of [key, desc]
          Patches,      \* sequences of operations
          Asked,        \* those of them that calls are made with
          NoFilter,     \* filters=None
          MaxDocs       \* bound: documents of the collection

Scalar == [t : {"num", "bool", "str"}, v : {0, 1}]
Path == [1..1 -> Names] \cup [1..2 -> Names]

IsNested(x) == "nested" \in DOMAIN x
IsNumber(x) == ~IsNested(x) /\ x.t \in {"num", "bool"}     \* bool is a subclass of int
IsString(x) == ~IsNested(x) /\ x.t = "str"

IsLevel(f) == DOMAIN f \subseteq Names /\ f \in [DOMAIN f -> Scalar]
IsValue(x) == x \in Scalar \/ (x = [nested |-> x.nested] /\ IsLevel(x.nested))
IsDoc(d) == DOMAIN d \subseteq Names /\ d = [k \in DOMAIN d |-> d[k]] /\ \A k \in DOMAIN d : IsValue(d[k])

\* A filter is a comparison, or all or any of others: a finite tree of them.
IsComparison(q) == "all" \notin DOMAIN q /\ "any" \notin DOMAIN q
Parts(q) == ToSet(IF "all" \in DOMAIN q THEN q.all ELSE q.any)
Comparison ==
  {c \in [key : Names, op : {"$eq", "$ne", "$gt", "$gte", "$lt", "$lte", "$in"}, values : SUBSET Scalar] :
     c.op # "$in" => Cardinality(c.values) = 1}

\* An operation of a patch leaves one level of nesting.
JSONPatchOperation ==
  [op : {"add", "replace", "test"}, path : Path, value : Scalar] \cup [op : {"remove"}, path : Path]
    \cup {o \in [op : {"move", "copy"}, from_ : Path, path : Path] : Len(o.path) = 1 \/ Len(o.from_) = 2}

ASSUME Sizes == MaxDocs \in Nat /\ IsFiniteSet(Queries)
ASSUME InsertsAreDocs == \A d \in Inserts : IsDoc(d)
ASSUME QueriesAreTrees ==
  /\ Asked \subseteq Queries /\ Depth \in [Queries -> 0..Cardinality(Queries)]
  /\ \A q \in Queries : IF IsComparison(q) THEN q \in Comparison
                        ELSE Parts(q) \subseteq Queries /\ \A part \in Parts(q) : Depth[part] < Depth[q]
ASSUME ProjectionsAreTyped == Projections \subseteq Seq([path : Path, mode : {"include", "exclude"}])
ASSUME SortsAreTyped == Sorts \subseteq Seq([key : Names, desc : BOOLEAN])
ASSUME PatchesAreTyped == Patches \subseteq Seq(JSONPatchOperation)

VARIABLES docs,  \* _documents
          last   \* the last call: what it was, and whether it returned

vars == <<docs, last>>

Init == docs = <<>> /\ last = [call |-> "none", ok |-> TRUE]

---------------------------------------------------------------------------
\* Paths into a document.
Keys(doc) == DOMAIN doc
Without(f, k) == [x \in DOMAIN f \ {k} |-> f[x]]
With(f, k, x) == [y \in DOMAIN f \cup {k} |-> IF y = k THEN x ELSE f[y]]
NestedAt(doc, k) == k \in Keys(doc) /\ IsNested(doc[k])

Has(doc, p) == IF Len(p) = 1 THEN p[1] \in Keys(doc)
               ELSE NestedAt(doc, p[1]) /\ p[2] \in DOMAIN doc[p[1]].nested
At(doc, p) == IF Len(p) = 1 THEN doc[p[1]] ELSE doc[p[1]].nested[p[2]]
Put(doc, p, x) == IF Len(p) = 1 THEN With(doc, p[1], x)
                  ELSE With(doc, p[1], [nested |-> With(doc[p[1]].nested, p[2], x)])
Pop(doc, p) == IF Len(p) = 1 THEN Without(doc, p[1])
               ELSE With(doc, p[1], [nested |-> Without(doc[p[1]].nested, p[2])])

---------------------------------------------------------------------------
\* query.py.  True == 1 in Python, and a bool is an int.
Equal(x, y) == x.v = y.v /\ (x.t = y.t \/ (IsNumber(x) /\ IsNumber(y)))

\* Mutant of Ordered: a Boolean is not taken for a number.
Ordered_NoBool(op, x, y) ==
  /\ x.t = "num" /\ y.t = "num"
  /\ CASE op = "$gt" -> x.v > y.v [] op = "$gte" -> x.v >= y.v
       [] op = "$lt" -> x.v < y.v [] op = "$lte" -> x.v <= y.v

Ordered(op, x, y) ==
  /\ IsNumber(x) /\ IsNumber(y)
  /\ CASE op = "$gt" -> x.v > y.v [] op = "$gte" -> x.v >= y.v
       [] op = "$lt" -> x.v < y.v [] op = "$lte" -> x.v <= y.v

\* values: what the comparison is with, a list for "$in", else one value.
Compares(q, doc) ==
  /\ q.key \in Keys(doc)
  /\ ~IsNested(doc[q.key])
  /\ LET x == doc[q.key] IN
     CASE q.op \in {"$eq", "$in"} -> \E y \in q.values : Equal(x, y)
       [] q.op = "$ne" -> \A y \in q.values : ~Equal(x, y)
       [] OTHER -> \A y \in q.values : Ordered(q.op, x, y)

Matches(query, doc) ==
  LET m[q \in Queries] ==
        IF "all" \in DOMAIN q THEN \A i \in DOMAIN q.all : m[q.all[i]]
        ELSE IF "any" \in DOMAIN q THEN \E i \in DOMAIN q.any : m[q.any[i]]
        ELSE Compares(q, doc)
  IN m[query]

---------------------------------------------------------------------------
\* Sorting: list.sort is stable, also when it is reversed, and raises on two keys
\* it cannot compare (a missing one is None, which compares with nothing).
Sortable(s, key) ==
  Len(s) < 2 \/ \A i \in DOMAIN s : /\ key \in Keys(s[i])
                                    /\ IsNumber(s[i][key]) \/ (\A j \in DOMAIN s : key \in Keys(s[j]) /\ IsString(s[j][key]))

Before(d, e, k) == IF k.desc THEN d[k.key].v > e[k.key].v ELSE d[k.key].v < e[k.key].v

StableSort(s, k) ==
  FoldLeft(LAMBDA acc, d : InsertAt(acc, 1 + Cardinality({i \in DOMAIN acc : ~Before(d, acc[i], k)}), d),
           <<>>, s)

\* Mutant of SortBy: the keys are taken in the order given.
SortBy_Forward(s, sort) == FoldLeft(StableSort, s, sort)

\* One pass for each key, the least significant first.
SortBy(s, sort) == FoldLeft(StableSort, s, Reverse(sort))

---------------------------------------------------------------------------
\* projection.py.  "_id" is taken along unless it is excluded.
IsId(e) == e.path = <<"_id">>
Takes(e) == e.mode = "include" /\ ~IsId(e)
Drops(e) == e.mode = "exclude" /\ ~IsId(e)
IsInclusion(proj) == \E i \in DOMAIN proj : Takes(proj[i])
IsMixed(proj) == IsInclusion(proj) /\ \E i \in DOMAIN proj : Drops(proj[i])
DropsId(proj) == \E i \in DOMAIN proj : IsId(proj[i]) /\ proj[i].mode = "exclude"

\* Mutant of IncludeStep: a second inclusion under one key replaces the first.
IncludeStep_Replaces(res, doc, e) ==
  IF ~Takes(e) \/ ~Has(doc, e.path) THEN res
  ELSE IF Len(e.path) = 1 THEN Put(res, e.path, At(doc, e.path))
  ELSE Put(With(res, e.path[1], [nested |-> <<>>]), e.path, At(doc, e.path))

IncludeStep(res, doc, e) ==
  IF ~Takes(e) \/ ~Has(doc, e.path) THEN res
  ELSE IF Len(e.path) = 1 \/ NestedAt(res, e.path[1]) THEN Put(res, e.path, At(doc, e.path))
  ELSE Put(With(res, e.path[1], [nested |-> <<>>]), e.path, At(doc, e.path))

\* Mutant of ExcludeStep: no copy is made.
ExcludeStep_NoCopy(acc, e) ==
  IF ~Drops(e) THEN acc
  ELSE IF Len(e.path) = 1 THEN [res |-> Without(acc.res, e.path[1]), stored |-> Without(acc.stored, e.path[1])]
  ELSE IF NestedAt(acc.res, e.path[1]) THEN [res |-> Pop(acc.res, e.path), stored |-> Pop(acc.stored, e.path)]
  ELSE acc

\* The result is a copy of the document, but what is nested in it is the
\* document's own: a key removed there is removed from the collection.
ExcludeStep(acc, e) ==
  IF ~Drops(e) THEN acc
  ELSE IF Len(e.path) = 1 THEN [acc EXCEPT !.res = Without(@, e.path[1])]
  ELSE IF NestedAt(acc.res, e.path[1]) THEN [res |-> Pop(acc.res, e.path), stored |-> Pop(acc.stored, e.path)]
  ELSE acc

Project(doc, proj) ==
  IF IsInclusion(proj)
  THEN [stored |-> doc,
        res |-> FoldLeft(LAMBDA res, e : IncludeStep(res, doc, e),
                         IF ~DropsId(proj) /\ "_id" \in Keys(doc) THEN With(<<>>, "_id", doc["_id"])
                         ELSE <<>>, proj)]
  ELSE FoldLeft(ExcludeStep, [res |-> IF DropsId(proj) THEN Without(doc, "_id") ELSE doc, stored |-> doc], proj)

---------------------------------------------------------------------------
\* find.
Found(f, s) ==
  IF f = NoFilter THEN s
  ELSE FoldLeft(LAMBDA acc, d : IF Matches(f, d) THEN Append(acc, d) ELSE acc, <<>>, s)
SortFails(s, sort) == \E i \in DOMAIN sort : ~Sortable(s, sort[i].key)

\* Mutant of Page: the limit is applied before the offset.
Page_LimitFirst(s, offset, limit) == [i \in 1..(Min({limit, Len(s)}) - offset) |-> s[offset + i]]
Page(s, offset, limit) == [i \in 1..Min({limit, Len(s) - offset}) |-> s[offset + i]]

Answer(f, proj, sort, offset, limit) ==
  LET sorted == SortBy(Found(f, docs), sort)
  IN Page([i \in DOMAIN sorted |-> Project(sorted[i], proj).res], offset, limit)

IsPermutation(s, u) == \E g \in [DOMAIN s -> DOMAIN u] : IsInjective(g) /\ Len(s) = Len(u)
                                                          /\ \A i \in DOMAIN s : s[i] = u[g[i]]

Returns(call, ok) == last' = [call |-> call, ok |-> ok]

\* What projecting leaves of a stored document.
Touched(doc, f, proj) == IF f = NoFilter \/ Matches(f, doc) THEN Project(doc, proj).stored ELSE doc

\* Without a filter it is the list of the collection that is sorted.  (Offset and
\* limit come last and change nothing; a negative one raises after all the rest.)
Find(f, proj, sort) ==
  LET found == Found(f, docs) IN
  IF SortFails(found, sort)
  THEN /\ docs' \in IF f = NoFilter THEN {s \in [DOMAIN docs -> ToSet(docs)] : IsPermutation(s, docs)}
                    ELSE {docs}
       /\ Returns("find", FALSE)
  ELSE LET kept == IF f = NoFilter THEN SortBy(docs, sort) ELSE docs
           mixed == IsMixed(proj) /\ found # <<>>
       IN /\ docs' = IF mixed THEN kept ELSE [i \in DOMAIN kept |-> Touched(kept[i], f, proj)]
          /\ \E negative \in BOOLEAN : Returns("find", ~mixed /\ ~negative)

---------------------------------------------------------------------------
\* insert_one appends, then validates.
IsTotal(doc) == Required \subseteq Keys(doc)

Insert(doc) ==
  /\ Len(docs) < MaxDocs
  /\ docs' = Append(docs, doc)
  /\ Returns("insert", IsTotal(doc) /\ "id" \in Keys(doc))

\* JSON patch operations: whether one applies to a document, and what it makes of it.
Reachable(doc, p) == Len(p) = 1 \/ NestedAt(doc, p[1])
OpApplies(doc, o) ==
  CASE o.op = "add" -> Reachable(doc, o.path)
    [] o.op \in {"remove", "replace"} -> Has(doc, o.path)
    [] o.op = "test" -> Has(doc, o.path) /\ At(doc, o.path) = o.value
    [] o.op = "move" -> Has(doc, o.from) /\ Reachable(Pop(doc, o.from), o.path)
    [] o.op = "copy" -> Has(doc, o.from) /\ Reachable(doc, o.path)

ApplyOp(doc, o) ==
  CASE o.op \in {"add", "replace"} -> Put(doc, o.path, o.value)
    [] o.op = "remove" -> Pop(doc, o.path)
    [] o.op = "test" -> doc
    [] o.op = "move" -> Put(Pop(doc, o.from), o.path, At(doc, o.from))
    [] o.op = "copy" -> Put(doc, o.path, At(doc, o.from))

\* What a caller's operation calls from_ the standard calls from.
convert_patch(patch) ==
  [i \in DOMAIN patch |->
     LET o == patch[i]
     IN IF "from_" \in DOMAIN o THEN [op |-> o.op, from |-> o.from_, path |-> o.path] ELSE o]

apply_patch(doc, patch) ==
  FoldLeft(LAMBDA acc, o : IF acc.ok /\ OpApplies(acc.doc, o)
                           THEN [ok |-> TRUE, doc |-> ApplyOp(acc.doc, o)]
                           ELSE [ok |-> FALSE, doc |-> acc.doc],
           [ok |-> TRUE, doc |-> doc], patch)

Patched(doc, patch) == apply_patch(doc, convert_patch(patch))

First(f) == {i \in DOMAIN docs : Matches(f, docs[i]) /\ \A j \in 1..(i - 1) : ~Matches(f, docs[j])}

\* Mutant of Update: the document is patched in place.
Update_InPlace(f, patch) ==
  /\ First(f) # {}
  /\ LET res == Patched(docs[Min(First(f))], patch)
     IN docs' = [docs EXCEPT ![Min(First(f))] = res.doc] /\ Returns("update", res.ok)

\* A copy is patched and takes the place of the first match; it is not validated.
Update(f, patch) ==
  /\ First(f) # {}
  /\ LET res == Patched(docs[Min(First(f))], patch)
     IN /\ docs' = IF res.ok THEN [docs EXCEPT ![Min(First(f))] = res.doc] ELSE docs
        /\ Returns("update", res.ok)

\* Mutant of Upsert: the new document is not validated.
Upsert_Unchecked(f, patch) ==
  /\ First(f) = {} /\ Len(docs) < MaxDocs
  /\ LET res == Patched(<<>>, patch)
     IN /\ docs' = IF res.ok THEN Append(docs, res.doc) ELSE docs
        /\ Returns("upsert", res.ok)

\* Without a match, an upsert patches an empty document and validates it.
Upsert(f, patch) ==
  /\ First(f) = {} /\ Len(docs) < MaxDocs
  /\ LET res == Patched(<<>>, patch)
         ok == res.ok /\ "id" \in Keys(res.doc) /\ IsTotal(res.doc)
     IN /\ docs' = IF ok THEN Append(docs, res.doc) ELSE docs
        /\ Returns("upsert", ok)

\* Mutant of Delete: the document is emptied in its place.
Delete_LeavesHole(f) ==
  /\ docs' = IF First(f) = {} THEN docs ELSE [docs EXCEPT ![Min(First(f))] = <<>>]
  /\ Returns("delete", TRUE)

Delete(f) ==
  /\ docs' = IF First(f) = {} THEN docs ELSE RemoveAt(docs, Min(First(f)))
  /\ Returns("delete", TRUE)

Next == \/ \E f \in Asked \cup {NoFilter}, proj \in Projections, sort \in Sorts : Find(f, proj, sort)
        \/ \E doc \in Inserts : Insert(doc)
        \/ \E f \in Asked, patch \in Patches : Update(f, patch) \/ Upsert(f, patch)
        \/ \E f \in Asked : Delete(f)

Spec == Init /\ [][Next]_vars

---------------------------------------------------------------------------
TypeOK ==
  /\ docs \in Seq(ToSet(docs)) /\ Len(docs) <= MaxDocs
  /\ \A i \in DOMAIN docs : IsDoc(docs[i])
  /\ last.call \in {"none", "find", "insert", "update", "upsert", "delete"} /\ last.ok \in BOOLEAN

Selected(q) == {i \in DOMAIN docs : Matches(q, docs[i])}
Passing(c) == {i \in DOMAIN docs : Compares(c, docs[i])}

\* What the operators of a query mean together: "$ne" selects the scalars "$eq" does
\* not; a number divides the numbers, Booleans included, into less, equal and greater,
\* and a string orders nothing; a conjunction and a disjunction intersect and unite.
QueryIsLogic ==
  \A q \in Queries :
    LET as(op) == Passing([q EXCEPT !.op = op])
        scalars == {i \in DOMAIN docs : q.key \in Keys(docs[i]) /\ ~IsNested(docs[i][q.key])}
        numbers == {i \in scalars : IsNumber(docs[i][q.key]) /\ \A v \in q.values : IsNumber(v)}
    IN /\ "all" \in DOMAIN q =>
            Selected(q) = DOMAIN docs \ UNION {DOMAIN docs \ Selected(part) : part \in Parts(q)}
       /\ "all" \notin DOMAIN q /\ "any" \in DOMAIN q => Selected(q) = UNION {Selected(part) : part \in Parts(q)}
       /\ IsComparison(q) /\ q.op = "$in" =>
            Selected(q) = UNION {Passing([q EXCEPT !.op = "$eq", !.values = {v}]) : v \in q.values}
       /\ IsComparison(q) /\ q.op = "$eq" =>
            /\ as("$ne") = scalars \ Selected(q)
            /\ as("$gte") = numbers \ as("$lt") /\ as("$lte") = numbers \ as("$gt")
            /\ as("$gte") \cap as("$lte") = Selected(q) \cap numbers

\* Sorting on several keys: by the first, within it by the second, and documents equal
\* in all keys stay in the order they were in, whichever directions are asked for.
SortIsLexicographic ==
  \A sort \in Sorts : ~SortFails(docs, sort) =>
    LET differ(i, j) == {k \in DOMAIN sort : docs[i][sort[k].key].v # docs[j][sort[k].key].v}
        precedes(i, j) == IF differ(i, j) = {} THEN i < j
                          ELSE Before(docs[i], docs[j], sort[Min(differ(i, j))])
    IN Len(docs) > 1 =>
         \A i \in DOMAIN docs :
           SortBy(docs, sort)[1 + Cardinality({j \in DOMAIN docs : precedes(j, i)})] = docs[i]

\* Reading a collection page by page returns what reading it at once does.
PagesCover ==
  \A f \in {NoFilter} \cup Queries, sort \in Sorts, size \in 1..2 :
    ~SortFails(Found(f, docs), sort) =>
      FlattenSeq([k \in 1..MaxDocs |-> Answer(f, <<>>, sort, (k - 1) * size, size)])
        = Answer(f, <<>>, sort, 0, MaxDocs)

\* The collection is well typed, and filters, sorting and paging compose on it as their
\* users expect: Find(filter, sort, offset, limit) is the set-theoretic answer, cut.
Inv == TypeOK /\ QueryIsLogic /\ SortIsLexicographic /\ PagesCover

Leaves(doc) ==
  UNION {IF IsNested(doc[k]) THEN {<<k, x, doc[k].nested[x]>> : x \in DOMAIN doc[k].nested}
         ELSE {<<k, doc[k]>>} : k \in Keys(doc) \ {"_id"}}

Turned(proj) == [i \in DOMAIN proj |-> [proj[i] EXCEPT !.mode = IF @ = "include" THEN "exclude" ELSE "include"]]

\* Including some paths and excluding the same ones divide a document: every value is
\* in exactly one of the results, however the paths overlap and in whatever order.
ProjectionsDivide ==
  \A i \in DOMAIN docs : \A proj \in Projections :
    (\E j \in DOMAIN proj : ~IsId(proj[j])) /\ ~IsMixed(proj) =>
      LET one == Leaves(Project(docs[i], proj).res)
          other == Leaves(Project(docs[i], Turned(proj)).res)
      IN one \cup other = Leaves(docs[i]) /\ one \cap other = {}

DeepExcluded == UNION {{e.path : e \in {x \in ToSet(proj) : x.mode = "exclude" /\ Len(x.path) = 2}} : proj \in Projections}

\* Of a document a reader may only take nested keys that it excludes.
LostOnlyExcluded(d, was) ==
  /\ Keys(d) = Keys(was)
  /\ \A k \in Keys(d) :
       \/ d[k] = was[k]
       \/ /\ IsNested(d[k]) /\ IsNested(was[k])
          /\ \A x \in DOMAIN was[k].nested :
               IF x \in DOMAIN d[k].nested THEN d[k].nested[x] = was[k].nested[x]
               ELSE <<k, x>> \in DeepExcluded

\* Reading adds, drops and changes no document.  It does reorder the collection when it
\* sorts all of it, and it does remove nested keys that a projection excludes.
ReadsKeepDocs ==
  [][last'.call = "find" =>
       /\ Len(docs') = Len(docs)
       /\ \E g \in [DOMAIN docs -> DOMAIN docs] :
            IsInjective(g) /\ \A i \in DOMAIN docs : LostOnlyExcluded(docs'[i], docs[g[i]])]_vars

\* A patch is applied to one document and all of it, or not at all.
UpdateIsAllOrNothing ==
  last'.call = "update" =>
    IF last'.ok THEN /\ Len(docs') = Len(docs)
                     /\ Cardinality({i \in DOMAIN docs : docs'[i] # docs[i]}) <= 1
    ELSE docs' = docs

Invalid(s) == Cardinality({i \in DOMAIN s : ~IsTotal(s[i])})

\* The collection comes to hold a document that lacks required keys in two ways only:
\* from an insertion that raised, and from an update, which is not validated.
HowInvalidDocsCome ==
  Invalid(docs') > Invalid(docs) =>
    last' \in {[call |-> "insert", ok |-> FALSE], [call |-> "update", ok |-> TRUE]}

\* What a call that writes may do to the collection, in case of failure above all.
WritesAreWhole == [][UpdateIsAllOrNothing /\ HowInvalidDocsCome]_vars
=============================================================================
