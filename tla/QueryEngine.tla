----------------------------- MODULE QueryEngine ----------------------------
(***************************************************************************)
(* Queries: what the backend runs, what is left to do in memory, joins and *)
(* updates that return documents.                                          *)
(*                                                                         *)
(* A document maps paths to values, and a path is a sequence of names.     *)
(* Numbers and texts are naturals, texts those of the constant IdTexts,    *)
(* and NoValue is nil.  A filter is a condition, a group or a text search; *)
(* a condition has a list of values, a field it refers to or a subquery.   *)
(*                                                                         *)
(* A backend either computes a new version of what it updates, as the SQL  *)
(* ones do, or takes the system fields of the update for those of the      *)
(* document, as the in-memory one does.                                    *)
(*                                                                         *)
(* Left out: contains, function calls, computed and case expressions,      *)
(* nested projections, hints, raw queries and the cursor type of pages,    *)
(* each of which is passed on or refused without a decision of its own.    *)
(***************************************************************************)
EXTENDS Integers, SequencesExt, FiniteSetsExt

CONSTANTS
  Capabilities,                   \* what each backend can do
  Stores,                         \* the documents of a collection to begin with
  OtherRows,                      \* the documents of the collection it is joined with
  Queries,                        \* the queries asked
  Changes,                        \* the filters of the updates
  NewId,                          \* the id of the document an update is built as
  JoinConditions,                 \* conditions on joined documents
  Editors,                        \* callers that update with a version
  IdTexts,                        \* the naturals that stand for texts
  IdPath, VersionPath, DataPath,  \* fields of a document
  NoValue,                        \* nil
  MaxEdits                        \* bound on the updates

ASSUME CapabilitiesAssumption ==
  \A b \in Capabilities :
    {"compares", "joins", "aggregates", "sorts", "pages", "computes"} \subseteq DOMAIN b

VARIABLES
  backend,  \* the capabilities of the backend in use
  rows,     \* the documents of the collection
  answer,   \* what was asked last, what came back, what was there to come back
  expects,  \* expects[e]: the document editor e has read, if any
  edits     \* the updates made (bounds the model)

queryVars == <<backend, rows, answer, expects, edits>>

----------------------------------------------------------------------------
(* QueryHelper: conditions and groups on one document.                     *)

ValueOf(doc, path) == IF path \in DOMAIN doc THEN doc[path] ELSE NoValue

(* A missing value is less than any other, whichever side it is on, and    *)
(* values of two kinds are never equal.                                    *)
CompareValues(a, b) ==
  CASE a = NoValue /\ b = NoValue -> 0
    [] a = NoValue \/ b = NoValue \/ (a \in IdTexts) # (b \in IdTexts) -> -1
    [] OTHER -> IF a < b THEN -1 ELSE IF a > b THEN 1 ELSE 0

Equals(a, b) == CompareValues(a, b) = 0
OneOf(a, list) == \E i \in DOMAIN list : Equals(a, list[i])

(* list holds the values the condition names; one that is not a list is    *)
(* its first value.                                                        *)
ConditionHolds(op, a, list) ==
  LET c == CompareValues(a, IF list = <<>> THEN NoValue ELSE list[1])
  IN CASE op = "eq" -> c = 0
       [] op = "neq" -> c # 0
       [] op = "lt" -> c < 0
       [] op = "lte" -> c <= 0
       [] op = "gt" -> c > 0
       [] op = "gte" -> c >= 0
       [] op = "in" -> OneOf(a, list)
       [] op = "nin" -> ~OneOf(a, list)
       [] op = "exists" -> a # NoValue
       [] op = "nexists" -> a = NoValue

GroupHolds(logic, truths) ==
  LET true == Cardinality({i \in DOMAIN truths : truths[i]})
  IN CASE logic = "and" -> true = Len(truths)
       [] logic = "or" -> true > 0
       [] logic \in {"not", "nor"} -> true = 0
       [] logic = "xor" -> true = 1
       [] logic = "nand" -> true < Len(truths)
       [] logic = "xnor" -> true % 2 = 0

Ascending(doc1, doc2, key) ==
  LET c == CompareValues(ValueOf(doc1, key.field), ValueOf(doc2, key.field))
  IN [differ |-> c # 0, less |-> IF key.dir = "asc" THEN c < 0 ELSE c > 0]

(* The less function of Sort.                                              *)
SortsBefore(keys, doc1, doc2) ==
  \E i \in DOMAIN keys :
    /\ Ascending(doc1, doc2, keys[i]).less
    /\ \A j \in 1 .. i - 1 : ~Ascending(doc1, doc2, keys[j]).differ

(* sort.Slice sorts up to twelve elements by insertion.                    *)
Inserted(keys, sorted, doc) ==
  LET beyond == {n \in 0 .. Len(sorted) :
                   \A m \in n + 1 .. Len(sorted) : SortsBefore(keys, doc, sorted[m])}
  IN InsertAt(sorted, Min(beyond) + 1, doc)

Sorted(keys, docs) ==
  IF keys = <<>> THEN docs
  ELSE FoldLeft(LAMBDA sorted, doc : Inserted(keys, sorted, doc), <<>>, docs)

NoPage == [offset |-> 0, limit |-> 0]

Paged(page, docs) ==
  IF page = NoPage THEN docs
  ELSE SubSeq(docs, page.offset + 1, Min({page.offset + page.limit, Len(docs)}))

NoProjection == [include |-> {}, exclude |-> {}]

ProjectRecord(projection, doc) ==
  LET kept == (IF projection.include = {} THEN DOMAIN doc
               ELSE DOMAIN doc \intersect projection.include) \ projection.exclude
  IN [path \in kept |-> doc[path]]

Projected(projection, docs) ==
  [i \in DOMAIN docs |-> ProjectRecord(projection, docs[i])]

----------------------------------------------------------------------------
(* A filter on a document.  A subquery's values are the ones of the fields *)
(* it projects, in the documents it selects.                               *)

Condition(op, field, values) ==
  [is |-> "condition", op |-> op, field |-> field, values |-> values,
   ref |-> <<>>, sub |-> <<>>]
Group(logic, parts) == [is |-> "group", logic |-> logic, parts |-> parts]
TextSearch == [is |-> "text"]

EmptyQuery ==
  [filter |-> <<>>, joins |-> <<>>, aggregates |-> <<>>, sort |-> <<>>,
   page |-> NoPage, projection |-> NoProjection, union |-> <<>>]

RECURSIVE Match(_, _)
Match(f, doc) ==
  CASE f.is = "group" ->
         GroupHolds(f.logic, [i \in DOMAIN f.parts |-> Match(f.parts[i], doc)])
    [] f.is = "condition" ->
         LET Values(sub, chosen) ==
               [i \in DOMAIN chosen |->
                  ValueOf(chosen[i], CHOOSE p \in sub.projection.include : TRUE)]
             subValues ==
               IF f.sub = <<>> THEN <<>>
               ELSE Values(f.sub[1],
                      SelectSeq(OtherRows, LAMBDA r :
                        \A j \in DOMAIN f.sub[1].filter : Match(f.sub[1].filter[j], r)))
         IN ConditionHolds(f.op, ValueOf(doc, f.field),
                           f.values \o [i \in DOMAIN f.ref |-> ValueOf(doc, f.ref[i])]
                             \o subValues)
    [] OTHER -> FALSE

(* A filter is optional: a sequence of one or none.                        *)
Matches(filter, doc) == \A i \in DOMAIN filter : Match(filter[i], doc)
Filtered(filter, docs) == SelectSeq(docs, LAMBDA doc : Matches(filter, doc))

----------------------------------------------------------------------------
(* Joins: each pairs the documents of both sides that satisfy a condition, *)
(* and keeps the ones without a partner as its type says.                  *)

Under(side, doc) ==
  [path \in {<<side>> \o p : p \in DOMAIN doc} |-> doc[Tail(path)]]
NoDocument == [path \in {} |-> NoValue]
CombineDocs(l, r) ==
  LET left == Under("left", l)
      right == Under("right", r)
  IN [path \in DOMAIN left \union DOMAIN right |->
        IF path \in DOMAIN left THEN left[path] ELSE right[path]]

KeepsLeft(type) == type \in {"left", "full"}
KeepsRight(type) == type \in {"right", "full"}

(* The partners of l, or l alone.                                          *)
LeftRows(type, l, right, on) ==
  LET OrAlone(pairs) ==
        IF pairs = <<>> /\ KeepsLeft(type) THEN <<CombineDocs(l, NoDocument)>> ELSE pairs
  IN OrAlone(Filtered(on, [j \in DOMAIN right |-> CombineDocs(l, right[j])]))

Partnerless(left, right, on) ==
  SelectSeq(right, LAMBDA r :
    \A i \in DOMAIN left : ~Matches(on, CombineDocs(left[i], r)))

WithoutLeft(alone) == [i \in DOMAIN alone |-> CombineDocs(NoDocument, alone[i])]
WithoutRight(lone) == [i \in DOMAIN lone |-> CombineDocs(lone[i], NoDocument)]

JoinBatch(type, left, right, on) ==
  FlattenSeq([i \in DOMAIN left |-> LeftRows(type, left[i], right, on)])
  \o (IF KeepsRight(type)
      THEN WithoutLeft(Partnerless(left, right, on)) ELSE <<>>)

(* JoinStreams buffers the right side, the left side of a right join, or   *)
(* both sides of a full join, and sends the rest through.                  *)
RightRows(r, left, on) ==
  LET OrAlone(pairs) == IF pairs = <<>> THEN <<CombineDocs(NoDocument, r)>> ELSE pairs
  IN OrAlone(Filtered(on, [i \in DOMAIN left |-> CombineDocs(left[i], r)]))

StreamFull(left, right, on) ==
  FlattenSeq([i \in DOMAIN left |-> LeftRows("inner", left[i], right, on)])
  \o WithoutRight(SelectSeq(left, LAMBDA l :
                    \A j \in DOMAIN right : ~Matches(on, CombineDocs(l, right[j]))))
  \o WithoutLeft(Partnerless(left, right, on))

JoinStreams(type, left, right, on) ==
  CASE type \in {"inner", "left"} ->
         FlattenSeq([i \in DOMAIN left |-> LeftRows(type, left[i], right, on)])
    [] type = "right" ->
         FlattenSeq([j \in DOMAIN right |-> RightRows(right[j], left, on)])
    [] type = "full" -> StreamFull(left, right, on)

----------------------------------------------------------------------------
(* SelectDocuments of a backend that does what a query asks with the       *)
(* helper, as the ephemeral backend does.                                  *)

Aggregate(a, chosen) ==
  LET known == {i \in DOMAIN chosen : ValueOf(chosen[i], a.field) # NoValue}
      values == {ValueOf(chosen[i], a.field) : i \in known}
  IN CASE a.type = "count" -> Cardinality(IF a.field = <<>> THEN DOMAIN chosen ELSE known)
       [] a.type = "max" -> IF values = {} THEN NoValue ELSE Max(values)

Aggregated(aggregates, docs) ==
  [path \in {<<aggregates[i].type>> : i \in DOMAIN aggregates} |->
     LET i == CHOOSE j \in DOMAIN aggregates : <<aggregates[j].type>> = path
     IN Aggregate(aggregates[i], Filtered(aggregates[i].filter, docs))]

SelectDocuments(q, docs) ==
  LET Finished(joined) ==
        IF q.aggregates # <<>> THEN <<Aggregated(q.aggregates, joined)>>
        ELSE Projected(q.projection, Paged(q.page, Sorted(q.sort, joined)))
  IN Finished(FoldLeft(LAMBDA left, j : JoinBatch(j.type, left, OtherRows, j.on),
                       Filtered(q.filter, docs), q.joins))

----------------------------------------------------------------------------
(* QueryPartitioner: [db, post], the part of a query for the backend and   *)
(* the part left for memory.                                               *)

Both(db, post) == [db |-> db, post |-> post]

ConditionSupported(f) == f.op \in backend.compares

SplitGroup(f, dbParts, postParts) ==
  Both(IF dbParts = <<>> THEN <<>> ELSE <<Group(f.logic, dbParts)>>,
       IF postParts = <<>> THEN <<>> ELSE <<Group(f.logic, postParts)>>)

(* Mutant: an "or" is split as an "and" is.                                *)
PartitionAnyGroup(f, dbParts, postParts) == SplitGroup(f, dbParts, postParts)

(* The groups that mix parts of both kinds: an "or" goes to memory whole.  *)
PartitionGroup(f, dbParts, postParts) ==
  IF f.logic = "or" /\ dbParts # <<>> /\ postParts # <<>> THEN Both(<<>>, <<f>>)
  ELSE SplitGroup(f, dbParts, postParts)

RECURSIVE PathsOf(_)
PathsOf(f) ==
  CASE f.is = "condition" -> {f.field} \union {f.ref[i] : i \in DOMAIN f.ref}
    [] f.is = "group" -> UNION {PathsOf(f.parts[i]) : i \in DOMAIN f.parts}
    [] OTHER -> {}

OptionalPaths(filter) == UNION {PathsOf(filter[i]) : i \in DOMAIN filter}

CollectDependencies(post) ==
  OptionalPaths(post.filter)
  \union UNION {OptionalPaths(post.joins[i].on) : i \in DOMAIN post.joins}
  \union UNION {{post.aggregates[i].field} \union OptionalPaths(post.aggregates[i].filter) :
                i \in DOMAIN post.aggregates}
  \union {post.sort[i].field : i \in DOMAIN post.sort}

(* The database's projection: what memory needs and what was asked for.    *)
AugmentProjection(q, post) ==
  [NoProjection EXCEPT !.include = CollectDependencies(post)
                                   \union q.projection.include]

(* Items whose type is supported, and whose filter leaves nothing to       *)
(* memory, are the database's.                                             *)
RECURSIVE PartitionFilter(_), Partition(_)

OptionalSplit(filter) == IF filter = <<>> THEN Both(<<>>, <<>>) ELSE PartitionFilter(filter[1])

PartitionFilter(f) ==
  CASE f.is = "condition" ->
         IF (\E i \in DOMAIN f.sub : Partition(f.sub[i]).post # EmptyQuery)
            \/ ~ConditionSupported(f)
         THEN Both(<<>>, <<f>>) ELSE Both(<<f>>, <<>>)
    [] f.is = "group" ->
         LET Regroup(split) ==
               PartitionGroup(f, FlattenSeq([i \in DOMAIN split |-> split[i].db]),
                              FlattenSeq([i \in DOMAIN split |-> split[i].post]))
         IN Regroup([i \in DOMAIN f.parts |-> PartitionFilter(f.parts[i])])
    [] f.is = "text" -> Both(<<>>, <<f>>)

SplitItems(items, supported, clause) ==
  LET mine(x) == x.type \in supported /\ OptionalSplit(x[clause]).post = <<>>
  IN Both(SelectSeq(items, mine), SelectSeq(items, LAMBDA x : ~mine(x)))

UnionOfSplits(queries, splits) ==
  IF \E i \in DOMAIN splits : splits[i].post # EmptyQuery
  THEN Both(<<>>, queries)
  ELSE Both([i \in DOMAIN splits |-> splits[i].db], <<>>)

UnionSplit(queries) == UnionOfSplits(queries, [i \in DOMAIN queries |-> Partition(queries[i])])

SortSplit(keys) == IF backend.sorts THEN Both(keys, <<>>) ELSE Both(<<>>, keys)

PageSplit(page) == IF backend.pages THEN Both(page, NoPage) ELSE Both(NoPage, page)

(* The split of a query from the splits of its clauses.                    *)
SplitQuery(q, filter, joins, aggregates, sort, page, union) ==
  LET post == [filter |-> filter.post, joins |-> joins.post,
               aggregates |-> aggregates.post, sort |-> sort.post,
               page |-> page.post, projection |-> NoProjection, union |-> union.post]
  IN Both([filter |-> filter.db, joins |-> joins.db, aggregates |-> aggregates.db,
           sort |-> sort.db, page |-> page.db,
           projection |-> AugmentProjection(q, post), union |-> union.db],
          post)

Partition(q) ==
  SplitQuery(q, OptionalSplit(q.filter), SplitItems(q.joins, backend.joins, "on"),
             SplitItems(q.aggregates, backend.aggregates, "filter"),
             SortSplit(q.sort), PageSplit(q.page), UnionSplit(q.union))

----------------------------------------------------------------------------
(* QueryEngine.Query.                                                      *)

(* The helper refuses text searches and subqueries wherever they are.      *)
RECURSIVE Refused(_)
Refused(f) ==
  CASE f.is = "text" -> TRUE
    [] f.is = "condition" -> f.sub # <<>>
    [] f.is = "group" -> \E i \in DOMAIN f.parts : Refused(f.parts[i])

OptionalRefused(filter) == \E i \in DOMAIN filter : Refused(filter[i])

Answer(is, docs) == [is |-> is, docs |-> docs]

(* Joins left to memory are not made, and the aggregates left to memory    *)
(* are looked up in a map the engine does not have.                        *)
PostProcessed(q, post, docs) ==
  IF \/ OptionalRefused(post.filter)
     \/ \E i \in DOMAIN post.aggregates : OptionalRefused(post.aggregates[i].filter)
  THEN Answer("error", <<>>)
  ELSE IF post.aggregates # <<>> THEN Answer("panic", <<>>)
  ELSE Answer("documents",
              Projected(q.projection,
                        Paged(post.page, Sorted(post.sort, Filtered(post.filter, docs)))))

Query(q, docs) ==
  LET Returned(post, selected) ==
        IF post = EmptyQuery THEN Answer("documents", selected)
        ELSE PostProcessed(q, post, selected)
      Run(split) == Returned(split.post, SelectDocuments(split.db, docs))
  IN Run(Partition(q))

----------------------------------------------------------------------------
(* Updates.                                                                *)

WithoutField(doc, path) == [p \in DOMAIN doc \ {path} |-> doc[p]]
SetPath(doc, path, v) ==
  [p \in DOMAIN doc \union {path} |-> IF p = path THEN v ELSE doc[p]]

(* What an update sets: a value, and an id and a version if it carries     *)
(* them.  A patch carries neither, a document built for the update has an  *)
(* id of its own, and a document read and replaced those it was read with. *)
Carrying(v, id, version) == [value |-> v, id |-> id, version |-> version]
Patch(v) == Carrying(v, NoValue, NoValue)
BuiltUpdate(v) == Carrying(v, NewId, NoValue)
Replacement(doc, v) == Carrying(v, doc[IdPath], ValueOf(doc, VersionPath))

(* The SQL backends set the user's fields and compute the version.         *)
ComputedVersion(doc) == SetPath(doc, VersionPath, doc[VersionPath] + 1)

(* The in-memory one leaves what is computed out, and puts the update's id *)
(* and metadata, with a version or without one, in place of the document's.*)
CarriedVersion(doc, set) ==
  LET named == IF set.id = NoValue THEN doc ELSE SetPath(doc, IdPath, set.id)
  IN IF set.version = NoValue THEN WithoutField(named, VersionPath)
     ELSE SetPath(named, VersionPath, set.version)

Updated(doc, set) ==
  SetPath(IF backend.computes THEN ComputedVersion(doc) ELSE CarriedVersion(doc, set),
          DataPath, set.value)

UpdateDocuments(docs, filter, set) ==
  [i \in DOMAIN docs |-> IF Match(filter, docs[i]) THEN Updated(docs[i], set) ELSE docs[i]]

(* findCandidateIDs: the ids a filter bounds its documents to, if any.     *)
Unbounded == [found |-> FALSE, ids |-> {}]
BoundedTo(ids) == [found |-> TRUE, ids |-> ids]

(* Mutant: a branch of an "or" without ids is passed over.                 *)
AnyBound(bounds, found) ==
  IF found = {} THEN Unbounded ELSE BoundedTo(UNION {c.ids : c \in found})

(* Every branch of an "or" must bound its documents.                       *)
OrBound(bounds, found) ==
  IF found = bounds THEN BoundedTo(UNION {c.ids : c \in found}) ELSE Unbounded

RECURSIVE FindCandidateIds(_)
FindCandidateIds(f) ==
  CASE f.is = "condition" /\ f.field = IdPath /\ f.ref = <<>> /\ f.sub = <<>> ->
         IF f.op \in {"eq", "in"} /\ f.values # <<>> THEN BoundedTo(ToSet(f.values))
         ELSE Unbounded
    [] f.is = "group" ->
         LET bounds == {FindCandidateIds(f.parts[i]) : i \in DOMAIN f.parts}
             found == {c \in bounds : c.found}
         IN CASE f.logic = "and" /\ found # {} ->
                   BoundedTo({id \in UNION {c.ids : c \in found} :
                                \A c \in found : id \in c.ids})
              [] f.logic = "or" -> OrBound(bounds, found)
              [] OTHER -> Unbounded
    [] OTHER -> Unbounded

ChangedIn(filter, docs) == {i \in DOMAIN docs : Match(filter, docs[i])}

(* An optimistic lock: the document is still in the version it was read in.*)
(* Mutant: its id alone.                                                   *)
ById(doc) == Condition("eq", IdPath, <<doc[IdPath]>>)
VersionFilter(doc) ==
  Group("and", <<ById(doc), Condition("eq", VersionPath, <<ValueOf(doc, VersionPath)>>)>>)

IdQuery(f) ==
  [EmptyQuery EXCEPT !.filter = <<f>>, !.projection.include = {IdPath}]

(* The ids to fetch after the update: the ones the filter bounds it to, or *)
(* the ones a read returns.                                                *)
AffectedIds(f) ==
  LET bound == FindCandidateIds(f)
      IdsOf(docs) == {ValueOf(docs[i], IdPath) : i \in DOMAIN docs}
  IN IF bound.found THEN bound.ids ELSE IdsOf(Query(IdQuery(f), rows).docs)

----------------------------------------------------------------------------
(* The system: one engine and the collection it reads.                     *)

Outcome(is, query, got, want) == [is |-> is, query |-> query, got |-> got, want |-> want]
NoAnswer == Outcome("none", EmptyQuery, <<>>, <<>>)

QueryOver(capabilities, docs) ==
  /\ backend = capabilities
  /\ rows = docs
  /\ answer = NoAnswer
  /\ expects = [e \in Editors |-> <<>>]
  /\ edits = 0
QueryInit == \E capabilities \in Capabilities, docs \in Stores : QueryOver(capabilities, docs)

Ask(q) ==
  /\ answer = NoAnswer
  /\ \E a \in {Query(q, rows)} :
       answer' = Outcome(a.is, q, a.docs, SelectDocuments(q, rows))
  /\ UNCHANGED <<backend, rows, expects, edits>>

StreamJoin(type, on) ==
  /\ answer = NoAnswer
  /\ answer' = Outcome("joined", EmptyQuery, JoinStreams(type, rows, OtherRows, on),
                       JoinBatch(type, rows, OtherRows, on))
  /\ UNCHANGED <<backend, rows, expects, edits>>

(* polyfillCollection.Update, on a backend that does not return what it    *)
(* updates: read the ids, update, fetch, in one transaction.  A fetch that *)
(* fails leaves the update, and no document is returned.                   *)
UpdateReturning(f, set) ==
  /\ answer = NoAnswer /\ edits < MaxEdits
  /\ \E ids \in {AffectedIds(f)}, fetched \in BOOLEAN :
       \E changed \in {IF ids = {} THEN {} ELSE ChangedIn(f, rows)} :
         /\ fetched \/ changed # {}
         /\ rows' = [i \in DOMAIN rows |->
                       IF i \in changed THEN Updated(rows[i], set) ELSE rows[i]]
         /\ answer' = Outcome(IF fetched THEN "updated" ELSE "unfetched", IdQuery(f),
                              IF ~fetched \/ changed = {} THEN <<>>
                              ELSE SelectSeq(rows', LAMBDA doc : doc[IdPath] \in ids),
                              SelectSeq(rows', LAMBDA doc : doc \notin ToSet(rows)))
  /\ edits' = edits + 1
  /\ UNCHANGED <<backend, expects>>

ReadToEdit(e, i) ==
  /\ answer = NoAnswer
  /\ expects' = [expects EXCEPT ![e] = <<rows[i]>>]
  /\ UNCHANGED <<backend, rows, answer, edits>>

(* managedCollection.Update with the version read: sets a value computed   *)
(* from the one read, as a patch or in a replacement of the document, and  *)
(* is told how many documents it has changed.                              *)
UpdateVersioned(e, whole) ==
  /\ answer = NoAnswer /\ expects[e] # <<>> /\ edits < MaxEdits
  /\ LET read == expects[e][1]
         changed == ChangedIn(VersionFilter(read), rows)
         next == read[DataPath] + 1
         set == IF whole THEN Replacement(read, next) ELSE Patch(next)
     IN /\ rows' = UpdateDocuments(rows, VersionFilter(read), set)
        /\ answer' = Outcome(IF changed = {} THEN "stale" ELSE "edited", EmptyQuery,
                             expects[e], [i \in 1 .. Cardinality(changed) |-> NoDocument])
  /\ expects' = [expects EXCEPT ![e] = <<>>]
  /\ edits' = edits + 1
  /\ UNCHANGED backend

(* The caller has the answer, and the next call may come.                  *)
TakeAnswer ==
  /\ answer # NoAnswer /\ answer' = NoAnswer
  /\ UNCHANGED <<backend, rows, expects, edits>>

QueryNext ==
  \/ TakeAnswer
  \/ answer = NoAnswer /\ \E q \in Queries : Ask(q)
  \/ \E type \in {"inner", "left", "right", "full"}, on \in JoinConditions :
       StreamJoin(type, on)
  \/ \E f \in Changes, set \in {Patch(1), BuiltUpdate(1)} : UpdateReturning(f, set)
  \/ \E e \in Editors, i \in DOMAIN rows : ReadToEdit(e, i)
  \/ \E e \in Editors, whole \in BOOLEAN : UpdateVersioned(e, whole)

QuerySpec == QueryInit /\ [][QueryNext]_queryVars

----------------------------------------------------------------------------
(* Properties.                                                             *)

RECURSIVE SplitsAcross(_)
SplitsAcross(f) ==
  /\ f.is = "group"
  /\ \/ /\ f.logic \notin {"and", "or"}
        /\ PartitionFilter(f).db # <<>> /\ PartitionFilter(f).post # <<>>
     \/ \E i \in DOMAIN f.parts : SplitsAcross(f.parts[i])

(* What a split may lose: joins left to memory, a page the database cuts   *)
(* before memory filters or sorts, fields memory is not asked to keep or   *)
(* the database is not asked to drop, groups that are neither and nor or.  *)
SplitLosesNothing(q, split) ==
  /\ split.post.joins = <<>>
  /\ split.db.page # NoPage => split.post.filter = <<>> /\ split.post.sort = <<>>
  /\ IF split.post = EmptyQuery THEN q.projection.exclude = {}
     ELSE q.projection.include # {}
  /\ \A i \in DOMAIN q.filter : ~SplitsAcross(q.filter[i])

SplitIsExact(q) == SplitLosesNothing(q, Partition(q))

Times(doc, docs) == Cardinality({i \in DOMAIN docs : docs[i] = doc})

(* What is done outside the database does not change the answer.  Whatever *)
(* the backend can do, a query split between it and memory gives the       *)
(* documents, the fields and the order of a backend that does it all       *)
(* (QueryPartitioner.Partition, QueryEngine.Query); and a join of streams  *)
(* sends the documents the join of batches returns, each as often,         *)
(* whichever side it buffers (JoinStreams, Join).                          *)
AnswersWhole ==
  /\ answer.is = "documents" /\ SplitIsExact(answer.query) => answer.got = answer.want
  /\ answer.is = "joined" =>
       \A doc \in ToSet(answer.got) \union ToSet(answer.want) :
         Times(doc, answer.got) = Times(doc, answer.want)

(* An update asked to return documents returns each one it has changed, as *)
(* it is now, though the backend returns none, unless the last read fails  *)
(* or the update has given the document another id                         *)
(* (polyfillCollection.Update, findCandidateIDs).                          *)
ReturnsUpdated ==
  answer.is = "updated" =>
    \A doc \in ToSet(answer.want) : doc[IdPath] = NewId \/ doc \in ToSet(answer.got)

(* An update with a version is acknowledged only when the document is      *)
(* still the one its editor has read (managedCollection.Update), on a      *)
(* backend that computes the new version; on the in-memory one the version *)
(* is what the update carries, and the lock guards nothing.                *)
NoLostUpdate ==
  [][answer'.is = "edited" /\ backend.computes =>
       \E i \in DOMAIN rows : <<rows[i]>> = answer'.got]_queryVars

=============================================================================
