--------------------------------- MODULE Sql --------------------------------
(***************************************************************************)
(* The SQLite query factory: the text and the parameters of SELECT,        *)
(* INSERT, UPDATE and DELETE, run by a small model of SQLite on a table.   *)
(*                                                                         *)
(* A text is a sequence of tokens: words, columns, marks (placeholders),   *)
(* parentheses holding a sequence, calls and whole statements.  A mark     *)
(* carries the value it stands for, so that what the text means does not   *)
(* depend on the parameters; nextParam never repeats a number and the      *)
(* driver binds the parameters to the marks in the order of the text.      *)
(*                                                                         *)
(* Left out: DISTINCT, column aliases, raw queries, unions (built by       *)
(* nothing), and names that more than one of the tables has which one      *)
(* scope knows: those a statement joins and those that the subqueries of   *)
(* one SET select from, where the scope picks the first in a map.          *)
(***************************************************************************)
EXTENDS Integers, SequencesExt, FiniteSetsExt, TLC

CONSTANTS
  SqlFields,     \* SqlFields[t]: the kind of each field of table t
  FieldOrder,    \* FieldOrder[t]: its fields in the order of FieldNames
  PathOrder,     \* the paths that are assigned, sorted as texts
  MainTable,     \* the table that is written
  SideRows,      \* the rows of the other tables
  StartRows,     \* the rows of the main table to begin with
  Inserts, Updates, Deletes, Selects,   \* the statements asked
  Unsafe,        \* names and texts the factory refuses
  Within,        \* pairs of texts, the first in the second whatever the case
  LowerCase,     \* the lower case of the texts that have capitals
  SqlNull,       \* NULL
  NoAlias,       \* a target without an alias
  MaxStatements  \* bound on the statements run

VARIABLES
  sqlRows,    \* the rows of the main table
  meantRows,  \* the rows it has if every statement means what was asked
  sent,       \* the last statement
  reply,      \* the rows it gave, and the rows that were meant
  ran         \* the number of statements run (bounds the model)

sqlVars == <<sqlRows, meantRows, sent, reply, ran>>

----------------------------------------------------------------------------
(* Fragments of text with their parameters.                                *)

Token(kind, of) == [is |-> kind, of |-> of]
Fragment(tokens) == [ok |-> TRUE, text |-> tokens, params |-> <<>>]
Word(w) == Fragment(<<Token("word", w)>>)
NotBuilt == [ok |-> FALSE, text |-> <<>>, params |-> <<>>]

(* nextParam and the parameter it numbers: a kind and a value.             *)
NextParam(kind, value) ==
  [ok |-> TRUE, text |-> <<Token("mark", <<kind, value>>)>>, params |-> <<<<kind, value>>>>]

Follow(a, b) ==
  IF a.ok /\ b.ok
    THEN [ok |-> TRUE, text |-> a.text \o b.text, params |-> a.params \o b.params]
    ELSE NotBuilt

Chain(parts) == FoldLeft(Follow, Fragment(<<>>), parts)

(* strings.Join                                                            *)
Separated(parts, w) ==
  Chain([i \in 1 .. 2 * Len(parts) - 1 |->
           IF i % 2 = 1 THEN parts[(i + 1) \div 2] ELSE Word(w)])

(* The fragment as the content of one token.                               *)
Wrap(kind, a) == IF a.ok THEN [a EXCEPT !.text = <<Token(kind, a.text)>>] ELSE NotBuilt
InParens(a) == Wrap("paren", a)

TextsOf(parts) == [i \in DOMAIN parts |-> parts[i].text]

----------------------------------------------------------------------------
(* Columns.  A scope has the schemas a clause resolves names in and, from  *)
(* the inside out, those of its factory and of the factory's parents.      *)

Column(tableName, field, path) ==
  Fragment(<<Token("column", [table |-> tableName, field |-> field, path |-> path])>>)

IsComplex(tableName, field) ==
  field \in DOMAIN SqlFields[tableName] /\ SqlFields[tableName][field] = "complex"

Quoted(parts) == Column(Front(parts), Last(parts), <<>>)

RECURSIVE ResolveFieldReference(_, _, _)
ResolveFieldReference(scope, parts, qualify) ==
  LET first == parts[1]
      parents == Tail(scope.factory)
      parent == [schemas |-> Head(parents), factory |-> parents]
      Holders(schemas, Has(_, _)) == {a \in DOMAIN schemas : Has(schemas[a], first)}
      HasField(tableName, field) == field \in DOMAIN SqlFields[tableName]
      owners == Holders(scope.schemas, HasField)
  IN CASE \E i \in DOMAIN parts : parts[i] \in Unsafe -> NotBuilt
       [] Len(parts) = 1 ->
            Column(IF qualify /\ owners # {} THEN <<CHOOSE a \in owners : TRUE>> ELSE <<>>,
                   first, <<>>)
       [] first \in DOMAIN scope.schemas ->
            IF Len(parts) > 2 /\ IsComplex(scope.schemas[first], parts[2])
              THEN Column(<<first>>, parts[2], SubSeq(parts, 3, Len(parts)))
              ELSE Quoted(parts)
       [] parents # <<>> /\ first \in DOMAIN parent.schemas ->
            ResolveFieldReference(parent, parts, qualify)
       [] Holders(scope.schemas, IsComplex) # {} -> Column(<<>>, first, Tail(parts))
       [] parents # <<>> /\ Holders(parent.schemas, IsComplex) # {} ->
            Column(<<>>, first, Tail(parts))
       [] OTHER -> Quoted(parts)

AliasOf(target) == IF target.alias = NoAlias THEN target.name ELSE target.alias

NoSchemas == [a \in {} |-> ""]

(* The scope of the filter of an UPDATE or a DELETE: its schema is known   *)
(* to the clause and not to the factory, which has but those that the      *)
(* subqueries of a SET left there.                                         *)
FilterScope(target, shared) ==
  [schemas |-> AliasOf(target) :> target.name, factory |-> <<shared>>]

----------------------------------------------------------------------------
(* Values, calls, conditions and filters.                                  *)

(* A value, a filter or a statement.                                       *)
RECURSIVE Build(_, _)

BuildProjectionValue(scope, v) ==
  IF v.is = "text" THEN NextParam("text", v.of) ELSE Build(scope, v)

SqlOperator == [ADD |-> "+", SUBTRACT |-> "-", MULTIPLY |-> "*", DIVIDE |-> "/"]

Call(name, args) == Token("call", [name |-> name, args |-> TextsOf(args)])

(* The fragments in order, as what the token is about.                     *)
Gathered(parts, token) ==
  LET all == Chain(parts)
  IN IF all.ok THEN [all EXCEPT !.text = <<token>>] ELSE NotBuilt

CallOf(name, args) ==
  CASE name \notin DOMAIN SqlOperator -> Gathered(args, Call(name, args))
    [] Len(args) # 2 -> NotBuilt
    [] OTHER -> InParens(Separated(args, SqlOperator[name]))

BuildFunctionCall(scope, call) ==
  CallOf(call.name, [i \in DOMAIN call.args |-> BuildProjectionValue(scope, call.args[i])])

BuildCaseExpression(scope, ce) ==
  LET Branch(b) == Chain(<<Word("WHEN"), Build(scope, b.when),
                           Word("THEN"), BuildProjectionValue(scope, b.then)>>)
  IN Chain(<<Word("CASE")>> \o [i \in DOMAIN ce.branches |-> Branch(ce.branches[i])]
             \o <<Word("ELSE"), BuildProjectionValue(scope, ce.else), Word("END")>>)

(* The clauses of a SELECT.                                                *)

AggregateItem(scope, a) ==
  IF a.type \in {"COUNT", "SUM", "AVG", "MIN", "MAX"}
    THEN CallOf(a.type, <<IF a.type = "COUNT" /\ a.field = <<"*">> THEN Word("*")
                          ELSE ResolveFieldReference(scope, a.field, FALSE)>>)
    ELSE NotBuilt

(* Every field of every table.                                             *)
AllColumns(scope) ==
  FoldLeft(LAMBDA items, a : items \o
             [i \in DOMAIN FieldOrder[scope.schemas[a]] |->
                Column(<<a>>, FieldOrder[scope.schemas[a]][i], <<>>)],
           <<>>, SetToSeq(DOMAIN scope.schemas))

ProjectionItems(scope, q) ==
  LET total == IF Len(scope.factory) = 1 /\ q.total THEN <<Word("COUNT(*) OVER()")>> ELSE <<>>
      named == SelectSeq(q.aggregates, LAMBDA a : a.type # "")
      Computed(c) == IF c.is = "case" THEN BuildCaseExpression(scope, c.of)
                     ELSE BuildFunctionCall(scope, c.of)
      chosen == [i \in DOMAIN named |-> AggregateItem(scope, named[i])]
                \o [i \in DOMAIN q.include |-> ResolveFieldReference(scope, q.include[i], FALSE)]
                \o [i \in DOMAIN q.computed |-> Computed(q.computed[i])]
      OrAll(items) == IF items = <<>> THEN AllColumns(scope) ELSE items
  IN total \o OrAll(chosen)

JoinWords == {"inner", "left", "right", "full"}

JoinConditionsOf(scope, joins) ==
  [i \in DOMAIN joins |->
     CASE joins[i].type \notin JoinWords -> NotBuilt
       [] joins[i].on = <<>> -> Fragment(<<>>)
       [] OTHER -> Build(scope, joins[i].on[1])]

(* The filter, and the condition that resumes after a cursor.              *)
WhereClause(scope, q) ==
  LET descending == q.order # <<>> /\ q.order[1].dir = "desc"
      cursor == IF q.page.is = "cursor" /\ q.page.cursor # <<>>
                  THEN <<[is |-> "condition", field |-> q.page.cursor[1].field,
                          op |-> IF descending THEN "lt" ELSE "gt",
                          value |-> q.page.cursor[1].value]>>
                  ELSE <<>>
      conditions == q.filter \o cursor
  IN Separated([i \in DOMAIN conditions |-> Build(scope, conditions[i])], "AND")

GroupColumns(scope, aggregates) ==
  LET fields == FoldLeft(LAMBDA fs, a : fs \o a.groups, <<>>, aggregates)
  IN [i \in DOMAIN fields |-> ResolveFieldReference(scope, fields[i], FALSE)]

HavingClause(scope, aggregates) ==
  LET filters == FoldLeft(LAMBDA fs, a : fs \o a.filter, <<>>, aggregates)
  IN Separated([i \in DOMAIN filters |-> Build(scope, filters[i])], "AND")

(* The sort of the query, then that of its pages.                          *)
SortsOf(q) == q.sort \o q.order

OrderColumns(scope, q) ==
  [i \in DOMAIN SortsOf(q) |-> ResolveFieldReference(scope, SortsOf(q)[i].field, TRUE)]

SqlPage(page) ==
  IF page.is = "none" THEN <<>>
  ELSE <<[limit |-> page.limit, offset |-> IF page.is = "offset" THEN page.offset ELSE 0]>>

(* buildSelectTree and SQLiteSelectStatement.Value: the parameters follow  *)
(* the clauses.  parents: the schemas of the factories around it.          *)
TargetsOf(q) == <<q.target>> \o [i \in DOMAIN q.joins |-> q.joins[i].target]

SchemasOf(targets) ==
  [a \in {AliasOf(targets[i]) : i \in DOMAIN targets} |->
     (CHOOSE t \in Range(targets) : AliasOf(t) = a).name]

SelectStatement(q, items, ons, where, groups, having, order) ==
  IF q.page.is # "none" /\ q.page.limit <= 0
    THEN NotBuilt
    ELSE Gathered(items \o ons \o <<where>> \o groups \o <<having>> \o order,
           Token("select",
             [items |-> TextsOf(items), targets |-> TargetsOf(q),
              joins |-> [i \in DOMAIN q.joins |-> q.joins[i].type],
              ons |-> TextsOf(ons), where |-> where.text, groups |-> TextsOf(groups),
              having |-> having.text, order |-> TextsOf(order),
              dirs |-> [i \in DOMAIN SortsOf(q) |-> SortsOf(q)[i].dir],
              page |-> SqlPage(q.page)]))

SelectIn(scope, q) ==
  SelectStatement(q, ProjectionItems(scope, q), JoinConditionsOf(scope, q.joins),
                  WhereClause(scope, q), GroupColumns(scope, q.aggregates),
                  HavingClause(scope, q.aggregates), OrderColumns(scope, q))

BuildSelect(parents, q) ==
  LET schemas == SchemasOf(TargetsOf(q))
  IN SelectIn([schemas |-> schemas, factory |-> <<schemas>> \o parents], q)


(* buildSubquery: the depth is checked before a scope is added.            *)
MaxSubqueryDepth == 10

BuildSubquery(scope, query) ==
  IF Len(scope.factory) - 1 > MaxSubqueryDepth
    THEN NotBuilt
    ELSE InParens(Build(scope, [is |-> "select", of |-> query]))

BuildFilterValue(scope, v) ==
  CASE v.is = "text" -> IF v.of \in Unsafe THEN NotBuilt ELSE NextParam(v.is, v.of)
    [] v.is \in {"number", "bool", "object"} -> NextParam(v.is, v.of)
    [] v.is = "list" ->
         InParens(Separated([i \in DOMAIN v.of |-> Build(scope, v.of[i])], ","))
    [] v.is = "field" -> ResolveFieldReference(scope, v.of, FALSE)
    [] v.is = "call" -> BuildFunctionCall(scope, v.of)
    [] v.is = "query" -> BuildSubquery(scope, v.of)
    [] v.is = "nothing" -> Word("NULL")

SqlComparison ==
  [eq |-> "=", neq |-> "!=", lt |-> "<", lte |-> "<=", gt |-> ">", gte |-> ">=",
   in |-> "IN", nin |-> "NOT IN", contains |-> "LIKE", ncontains |-> "NOT LIKE"]

Comparison(op, value) ==
  IF op \notin DOMAIN SqlComparison THEN NotBuilt
  ELSE Follow(Word(SqlComparison[op]),
              IF op \in {"contains", "ncontains"} THEN Wrap("around", value) ELSE value)

BuildFilterCondition(scope, c) ==
  LET absent == c.value.is = "nothing"
  IN Follow(ResolveFieldReference(scope, c.field, FALSE),
            CASE (absent /\ c.op = "eq") \/ c.op = "nexists" -> Word("IS NULL")
              [] (absent /\ c.op = "neq") \/ c.op = "exists" -> Word("IS NOT NULL")
              [] OTHER -> Comparison(c.op, Build(scope, c.value)))

LogicWord == [and |-> "AND", or |-> "OR"]

(* Mutant: a group without its parentheses.                                *)
GroupTextBare(parts, w) == Separated(parts, w)

GroupText(parts, w) == InParens(Separated(parts, w))

BuildFilterGroup(scope, g) ==
  IF g.op \in DOMAIN LogicWord
    THEN GroupText([i \in DOMAIN g.parts |-> Build(scope, g.parts[i])], LogicWord[g.op])
    ELSE NotBuilt

LowerOf(t) == IF t \in DOMAIN LowerCase THEN LowerCase[t] ELSE t
Around(t) == <<"%", t>>

BuildTextSearch(scope, s) ==
  LET text == IF s.sensitive THEN s.text ELSE LowerOf(s.text)
      Side(column) == IF s.sensitive THEN column ELSE CallOf("LOWER", <<column>>)
      Sought == IF s.kind = "exact" THEN <<Word("="), NextParam("text", text)>>
                ELSE <<Word("LIKE"), NextParam("pattern", Around(text))>>
      Search(field) == Chain(<<Side(ResolveFieldReference(scope, field, FALSE))>> \o Sought)
  IN IF s.kind \in {"exact", "contains", "phrase"}
       THEN InParens(Separated([i \in DOMAIN s.fields |-> Search(s.fields[i])],
                               IF s.op = "and" THEN "AND" ELSE "OR"))
       ELSE NotBuilt

BuildFilter(scope, f) ==
  CASE f.is = "condition" -> BuildFilterCondition(scope, f)
    [] f.is = "group" -> BuildFilterGroup(scope, f)
    [] f.is = "search" -> BuildTextSearch(scope, f)
    [] OTHER -> NotBuilt


----------------------------------------------------------------------------
(* INSERT, UPDATE and DELETE.                                              *)

(* A boolean is stored as a number, an object as its JSON text.            *)
ToSQLiteValue(tableName, field, v) ==
  IF SqlFields[tableName][field] = "boolean" /\ v \in BOOLEAN THEN IF v THEN 1 ELSE 0 ELSE v

ProcessDocumentFields(tableName, doc) ==
  LET fields == FieldOrder[tableName]
  IN Chain([i \in DOMAIN fields |->
              NextParam("value", IF fields[i] \in DOMAIN doc
                                   THEN ToSQLiteValue(tableName, fields[i], doc[fields[i]])
                                   ELSE SqlNull)])

(* One document, which is not empty, or a batch, which is not empty.       *)
BuildInsert(tableName, docs) ==
  LET each == [i \in DOMAIN docs |-> ProcessDocumentFields(tableName, docs[i])]
  IN IF docs = <<>> \/ (Len(docs) = 1 /\ docs[1] = <<>>)
       THEN NotBuilt
       ELSE Gathered(each, Token("insert", [table |-> tableName, values |-> TextsOf(each)]))

(* buildSetClauseExpression: a scalar subquery or a call on the old row.   *)
(* The subquery is built by the factory of the whole statement, among the  *)
(* schemas that the subqueries before it left there.                       *)
SetClauseExpression(tableName, shared, e) ==
  IF e.is = "query"
    THEN LET schemas == SchemasOf(TargetsOf(e.of)) @@ shared
         IN InParens(SelectIn([schemas |-> schemas, factory |-> <<schemas>>], e.of))
    ELSE Build([schemas |-> tableName :> tableName, factory |-> <<shared>>], e)

IsNested(tableName, path) == Len(path) > 1 /\ IsComplex(tableName, path[1])

(* An expression inside json_set loses its parentheses.                    *)
Stripped(a) ==
  IF a.ok /\ Len(a.text) = 1 /\ a.text[1].is = "paren" THEN [a EXCEPT !.text = a.text[1].of] ELSE a

(* The assignments, sorted by path: set has fields only, compute paths.    *)
SetPaths(call) ==
  SelectSeq(PathOrder, LAMBDA p : (Len(p) = 1 /\ p[1] \in DOMAIN call.set) \/ p \in DOMAIN call.compute)

(* The schemas the factory has after the assignments to these paths.       *)
SharedBy(call, paths) ==
  LET Asks(p) == p \in DOMAIN call.compute /\ call.compute[p].is = "query"
  IN FoldLeft(LAMBDA known, p : SchemasOf(TargetsOf(call.compute[p].of)) @@ known,
              NoSchemas, SelectSeq(paths, Asks))

AssignedValue(tableName, call, path) ==
  IF path \in DOMAIN call.compute
    THEN LET paths == SetPaths(call)
             before == SubSeq(paths, 1, IndexFirstSubSeq(<<path>>, paths) - 1)
         IN SetClauseExpression(tableName, SharedBy(call, before), call.compute[path])
    ELSE NextParam("value", ToSQLiteValue(tableName, path[1], call.set[path[1]]))

(* The columns set as a whole, then one json_set for each column that is   *)
(* set in part.                                                            *)
SetTo(column, expr) == Token("set", [column |-> column, expr |-> expr])

Whole(path, value) == Gathered(<<value>>, SetTo(path, value.text))

Part(f, paths, args) ==
  Gathered(args, SetTo(<<f>>, <<Token("json_set", [column |-> f, args |-> TextsOf(args),
                                        paths |-> [i \in DOMAIN args |-> Tail(paths[i])]])>>))

SetClause(tableName, call) ==
  LET paths == SetPaths(call)
      plain == SelectSeq(paths, LAMBDA p : ~IsNested(tableName, p))
      parts == SelectSeq(paths, LAMBDA p : IsNested(tableName, p))
      parents == SelectSeq(FieldOrder[tableName], LAMBDA f : \E i \in DOMAIN parts : parts[i][1] = f)
      Within1(f) == SelectSeq(parts, LAMBDA p : p[1] = f)
      value == [p \in Range(paths) |-> AssignedValue(tableName, call, p)]
      Parted(f, inside) == Part(f, inside, [i \in DOMAIN inside |-> Stripped(value[inside[i]])])
  IN Chain([i \in DOMAIN plain |-> Whole(plain[i], value[plain[i]])]
             \o [i \in DOMAIN parents |-> Parted(parents[i], Within1(parents[i]))])

FilterClause(target, filter, shared) ==
  IF filter = <<>> THEN Fragment(<<>>) ELSE Build(FilterScope(target, shared), filter[1])

(* Mutant: the parameters of the filter come before those of SET.          *)
UpdateStatementFilterFirst(tableName, set, where) ==
  Gathered(<<where, set>>, Token("update", [table |-> tableName, sets |-> set.text, where |-> where.text]))

UpdateStatement(tableName, set, where) ==
  Gathered(<<set, where>>, Token("update", [table |-> tableName, sets |-> set.text, where |-> where.text]))

BuildUpdate(target, call) ==
  IF DOMAIN call.set = {} /\ DOMAIN call.compute = {}
    THEN NotBuilt
    ELSE UpdateStatement(target.name, SetClause(target.name, call),
                         FilterClause(target, call.filter, SharedBy(call, SetPaths(call))))

DeleteStatement(tableName, where) ==
  Gathered(<<where>>, Token("delete", [table |-> tableName, where |-> where.text]))

BuildDelete(target, filter) == DeleteStatement(target.name, FilterClause(target, filter, NoSchemas))

Build(scope, e) ==
  CASE e.is \in {"condition", "group", "search"} -> BuildFilter(scope, e)
    [] e.is = "select" -> BuildSelect(scope.factory, e.of)
    [] e.is = "insert" -> BuildInsert(e.target, e.docs)
    [] e.is = "update" -> BuildUpdate(e.target, e.call)
    [] e.is = "delete" -> BuildDelete(e.target, e.filter)
    [] OTHER -> BuildFilterValue(scope, e)

----------------------------------------------------------------------------
(* SQLite.  An environment is a sequence, from the inside out, of          *)
(* functions from the aliases of a statement to rows; a stack has, in      *)
(* their place, the fields of each.                                        *)

Children(t) ==
  CASE t.is \in {"paren", "around"} -> <<t.of>>
    [] t.is \in {"call", "json_set"} -> t.of.args
    [] t.is = "set" -> <<t.of.expr>>
    [] t.is = "select" -> t.of.items \o t.of.ons \o <<t.of.where>> \o t.of.groups
                          \o <<t.of.having>> \o t.of.order
    [] t.is = "update" -> <<t.of.sets, t.of.where>>
    [] t.is = "delete" -> <<t.of.where>>
    [] t.is = "insert" -> t.of.values
    [] OTHER -> <<>>

(* What the marks of a text stand for, in the order of the text.           *)
RECURSIVE Marks(_)
Marks(tokens) ==
  LET In(t) == IF t.is = "mark" THEN <<t.of>> ELSE FlattenSeq([i \in DOMAIN Children(t) |-> Marks(Children(t)[i])])
  IN FlattenSeq([i \in DOMAIN tokens |-> In(tokens[i])])

ColumnsOf(tableName) == DOMAIN SqlFields[tableName]

SelectLevel(s) ==
  [a \in {AliasOf(s.targets[i]) : i \in DOMAIN s.targets} |->
     ColumnsOf((CHOOSE t \in Range(s.targets) : AliasOf(t) = a).name)]

Resolvable(c, stack) ==
  IF c.table = <<>>
    THEN \E i \in DOMAIN stack :
           /\ \E a \in DOMAIN stack[i] : c.field \in stack[i][a]
           /\ \A j \in 1 .. i - 1 : \A a \in DOMAIN stack[j] : c.field \notin stack[j][a]
           /\ Cardinality({a \in DOMAIN stack[i] : c.field \in stack[i][a]}) = 1
    ELSE /\ Len(c.table) = 1
         /\ \E i \in DOMAIN stack :
              c.table[1] \in DOMAIN stack[i] /\ c.field \in stack[i][c.table[1]]

(* The text can be prepared: its columns exist, and a list or a subquery   *)
(* is where one may be.                                                    *)
RECURSIVE Prepares(_, _)
Prepares(tokens, stack) ==
  \A i \in DOMAIN tokens :
    LET t == tokens[i]
        afterIn == i > 1 /\ tokens[i - 1].is = "word" /\ tokens[i - 1].of \in {"IN", "NOT IN"}
        Below(inner) == \A j \in DOMAIN Children(t) : Prepares(Children(t)[j], inner)
    IN CASE t.is = "column" -> Resolvable(t.of, stack)
         [] t.is = "paren" /\ Len(t.of) = 1 /\ t.of[1].is = "select" ->
              LET s == t.of[1] IN
              \A j \in DOMAIN Children(s) : Prepares(Children(s)[j], <<SelectLevel(s.of)>> \o stack)
         [] t.is = "paren" -> (t.of # <<>> \/ afterIn) /\ Below(stack)
         [] t.is = "select" -> stack = <<>> /\ Below(<<SelectLevel(t.of)>>)
         [] t.is \in {"update", "delete"} -> Below(<<t.of.table :> ColumnsOf(t.of.table)>>)
         [] t.is = "set" -> /\ Len(t.of.column) = 1
                            /\ \E a \in DOMAIN stack[1] : t.of.column[1] \in stack[1][a]
                            /\ Below(stack)
         [] OTHER -> Below(stack)

(* Three-valued logic: "T", "F" and, when NULL has a say, "U".             *)
Verdict(b) == IF b THEN "T" ELSE "F"
Not3(v) == CASE v = "T" -> "F" [] v = "F" -> "T" [] OTHER -> "U"
Signed3(positive, v) == IF positive THEN v ELSE Not3(v)
And3(vs) ==
  CASE "F" \in Range(vs) -> "F" [] "U" \in Range(vs) -> "U" [] OTHER -> "T"
Or3(vs) ==
  CASE "T" \in Range(vs) -> "T" [] "U" \in Range(vs) -> "U" [] OTHER -> "F"

Like(v, pattern) == v = pattern[2] \/ <<pattern[2], v>> \in Within

Compare3(op, v, w) ==
  CASE v = SqlNull \/ w = SqlNull -> "U"
    [] op = "=" -> Verdict(v = w)
    [] op = "!=" -> Verdict(v # w)
    [] op = "<" -> Verdict(v < w)
    [] op = "<=" -> Verdict(v <= w)
    [] op = ">" -> Verdict(v > w)
    [] op = ">=" -> Verdict(v >= w)
    [] op = "LIKE" -> Verdict(Like(v, w))
    [] op = "NOT LIKE" -> Verdict(~Like(v, w))

In3(v, list) == Or3([i \in DOMAIN list |-> Compare3("=", v, list[i])])

(* Of integers, so that a quotient drops what is after the point.          *)
Magnitude(v) == IF v < 0 THEN -v ELSE v

Arithmetic(op, v, w) ==
  CASE v = SqlNull \/ w = SqlNull -> SqlNull
    [] op = "+" -> v + w
    [] op = "-" -> v - w
    [] op = "*" -> v * w
    [] w = 0 -> SqlNull
    [] OTHER -> (v - (IF v < 0 THEN -1 ELSE 1) * (Magnitude(v) % Magnitude(w))) \div w

Called(name, v) == IF name = "LOWER" /\ v # SqlNull THEN LowerOf(v) ELSE v

AggregateOf(name, values) ==
  LET known == SelectSeq(values, LAMBDA v : v # SqlNull)
  IN CASE name = "COUNT" -> Len(known)
       [] known = <<>> -> SqlNull
       [] name = "SUM" -> FoldLeft(+, 0, known)
       [] name = "MIN" -> Min(Range(known))
       [] name = "MAX" -> Max(Range(known))

(* The value at a path of a row or of a JSON object.                       *)
CellAt(v, path) ==
  FoldLeft(LAMBDA x, name : IF x # SqlNull /\ name \in DOMAIN x THEN x[name] ELSE SqlNull, v, path)

TableRows(tableName, data) == IF tableName = MainTable THEN data ELSE SideRows[tableName]
NullRow(tableName) == [f \in ColumnsOf(tableName) |-> SqlNull]
WithRow(level, alias, was) == (alias :> was) @@ level

(* The combinations of rows of a SELECT, in order.  Holds(i, level): join  *)
(* condition i holds, or with i = 0 the filter; Key(i, level): sort key i. *)
SelectedRows(targets, types, data, dirs, page, Holds(_, _), Key(_, _)) ==
  LET Levels(i) == TableRows(targets[i].name, data)
      alias == [i \in DOMAIN targets |-> AliasOf(targets[i])]
      Joined(left, i) ==
        LET pairs == {p \in left \X Levels(i + 1) : Holds(i, WithRow(p[1], alias[i + 1], p[2]))}
            noLeft == [a \in {alias[j] : j \in 1 .. i} |->
                         NullRow(targets[CHOOSE j \in 1 .. i : alias[j] = a].name)]
        IN {WithRow(p[1], alias[i + 1], p[2]) : p \in pairs}
           \union (IF types[i] \in {"left", "full"}
                     THEN {WithRow(l, alias[i + 1], NullRow(targets[i + 1].name)) :
                             l \in left \ {p[1] : p \in pairs}} ELSE {})
           \union (IF types[i] \in {"right", "full"}
                     THEN {WithRow(noLeft, alias[i + 1], r) :
                             r \in Levels(i + 1) \ {p[2] : p \in pairs}} ELSE {})
      combined == FoldLeft(Joined, {alias[1] :> r : r \in Levels(1)}, [i \in DOMAIN types |-> i])
      chosen == {l \in combined : Holds(0, l)}
      Less(v, w) == v # w /\ (v = SqlNull \/ (w # SqlNull /\ v < w))
      KeysOf(l) == [i \in DOMAIN dirs |-> Key(i, l)]
      KeysBefore(k, h) ==
        \E i \in DOMAIN dirs :
          /\ IF dirs[i] = "desc" THEN Less(h[i], k[i]) ELSE Less(k[i], h[i])
          /\ SubSeq(k, 1, i - 1) = SubSeq(h, 1, i - 1)
      Before(l, m) == KeysBefore(KeysOf(l), KeysOf(m))
      Paged(rows) ==
        IF page = <<>> THEN rows
        ELSE SubSeq(rows, page[1].offset + 1, Min({Len(rows), page[1].offset + page[1].limit}))
  IN Paged(SetToSortSeq(chosen, Before))

(* The value of a column.                                                  *)
Fetch(c, envs) ==
  LET has(i) == IF c.table = <<>> THEN \E a \in DOMAIN envs[i] : c.field \in DOMAIN envs[i][a]
                ELSE c.table[1] \in DOMAIN envs[i] /\ c.field \in DOMAIN envs[i][c.table[1]]
      env == envs[Min({i \in DOMAIN envs : has(i)})]
      alias == IF c.table # <<>> THEN c.table[1]
               ELSE CHOOSE a \in DOMAIN env : c.field \in DOMAIN env[a]
  IN CellAt(env[alias][c.field], c.path)

Cut(tokens, w) ==
  FoldLeft(LAMBDA parts, t : IF t.is = "word" /\ t.of = w THEN Append(parts, <<>>)
                             ELSE Append(Front(parts), Append(Last(parts), t)),
           <<<<>>>>, tokens)

RECURSIVE SqlValue(_, _, _)

SqlSelect(s, envs, data) ==
  LET Holds(i, level) ==
        LET condition == IF i = 0 THEN s.where ELSE s.ons[i]
        IN condition = <<>> \/ SqlValue(condition, <<level>> \o envs, data) = "T"
      Key(i, level) == SqlValue(s.order[i], <<level>> \o envs, data)
  IN SelectedRows(s.targets, s.joins, data, s.dirs, s.page, Holds, Key)

(* An aggregate, or "" for none.                                           *)
Reduced(name, values) == IF name = "" THEN values ELSE <<AggregateOf(name, values)>>

ItemValues(item, found, envs, data) ==
  [i \in DOMAIN found |-> SqlValue(item, <<found[i]>> \o envs, data)]

(* The first column of a SELECT: first is the head of its text.            *)
SqlColumn(s, first, envs, data) ==
  LET aggregate == first.is = "call" /\ first.of.name \in {"COUNT", "SUM", "AVG", "MIN", "MAX"}
      item == IF ~aggregate THEN s.items[1]
              ELSE IF first.of.args[1][1].is = "word" THEN <<Token("mark", <<"number", 1>>)>>
              ELSE first.of.args[1]
  IN Reduced(IF aggregate THEN first.of.name ELSE "",
             ItemValues(item, SqlSelect(s, envs, data), envs, data))

EachValue(parts, envs, data) == [i \in DOMAIN parts |-> SqlValue(parts[i], envs, data)]

ListedValues(tokens, envs, data) ==
  IF tokens = <<>> THEN <<>> ELSE EachValue(Cut(tokens, ","), envs, data)

FirstOf(values) == IF values = <<>> THEN SqlNull ELSE values[1]
Infix(op, v, w) == IF op \in {"+", "-", "*"} THEN Arithmetic(op, v, w) ELSE Compare3(op, v, w)
AroundValue(v) == IF v = SqlNull THEN v ELSE Around(v)

(* json_set of a NULL is NULL.                                             *)
JsonSet(json, paths, values) ==
  IF json = SqlNull THEN SqlNull
  ELSE FoldLeft(LAMBDA j, i : (paths[i][1] :> values[i]) @@ j, json, [i \in DOMAIN paths |-> i])

SingleToken(t, envs, data) ==
  CASE t.is = "mark" -> t.of[2]
    [] t.is = "word" -> SqlNull
    [] t.is = "column" -> Fetch(t.of, envs)
    [] t.is = "around" -> AroundValue(SqlValue(t.of, envs, data))
    [] t.is = "call" -> Called(t.of.name, SqlValue(t.of.args[1], envs, data))
    [] t.is = "json_set" ->
         JsonSet(Fetch([table |-> <<>>, field |-> t.of.column, path |-> <<>>], envs),
                 t.of.paths, EachValue(t.of.args, envs, data))
    [] t.is = "paren" -> SqlValue(t.of, envs, data)
    [] t.is = "select" -> FirstOf(SqlColumn(t.of, t.of.items[1][1], envs, data))

(* The list after IN: a subquery or values.                                *)
InList(inner, envs, data) ==
  IF inner # <<>> /\ inner[1].is = "select"
    THEN SqlColumn(inner[1].of, inner[1].of.items[1][1], envs, data)
    ELSE ListedValues(inner, envs, data)

(* The operator op after v, and what follows them.                         *)
Compared(v, op, rest, envs, data) ==
  CASE op = "IS NULL" -> Verdict(v = SqlNull)
    [] op = "IS NOT NULL" -> Verdict(v # SqlNull)
    [] op \in {"IN", "NOT IN"} -> Signed3(op = "IN", In3(v, InList(rest[1].of, envs, data)))
    [] OTHER -> Infix(op, v, SqlValue(rest, envs, data))

HasWord(tokens, w) == \E i \in DOMAIN tokens : tokens[i].is = "word" /\ tokens[i].of = w

(* AND binds tighter than OR, a comparison tighter than both.              *)
SqlValue(tokens, envs, data) ==
  CASE Len(tokens) = 1 -> SingleToken(tokens[1], envs, data)
    [] HasWord(tokens, "OR") -> Or3(EachValue(Cut(tokens, "OR"), envs, data))
    [] HasWord(tokens, "AND") -> And3(EachValue(Cut(tokens, "AND"), envs, data))
    [] OTHER -> Compared(SqlValue(<<tokens[1]>>, envs, data), tokens[2].of,
                         SubSeq(tokens, 3, Len(tokens)), envs, data)

Meets(where, tableName, was, data) ==
  where = <<>> \/ SqlValue(where, <<tableName :> was>>, data) = "T"

(* Every expression of SET reads the row as it was; of two assignments to  *)
(* a column the last one holds.                                            *)
SqlAssigned(u, was, data) ==
  FoldLeft(LAMBDA r, s : [r EXCEPT ![s.of.column[1]] =
                            SqlValue(s.of.expr, <<u.table :> was>>, data)], was, u.sets)

SqlRun(t, data) ==
  CASE t.is = "insert" ->
         data \union {LET fields == FieldOrder[t.of.table]
                      IN [f \in Range(fields) |-> SqlValue(<<t.of.values[i][CHOOSE n \in DOMAIN fields : fields[n] = f]>>, <<>>, data)] :
                        i \in DOMAIN t.of.values}
    [] t.is = "update" ->
         {IF Meets(t.of.where, t.of.table, r, data) THEN SqlAssigned(t.of, r, data) ELSE r : r \in data}
    [] t.is = "delete" -> {r \in data : ~Meets(t.of.where, t.of.table, r, data)}
    [] OTHER -> data

----------------------------------------------------------------------------
(* What the query means, with no text in between.                          *)

MeantReference(parts, envs) ==
  LET named == {i \in DOMAIN envs : parts[1] \in DOMAIN envs[i]}
      holders(i) == {a \in DOMAIN envs[i] : parts[1] \in DOMAIN envs[i][a]}
      level == Min({i \in DOMAIN envs : holders(i) # {}})
  IN IF named # {} THEN CellAt(envs[Min(named)][parts[1]], Tail(parts))
     ELSE CellAt(envs[level][CHOOSE a \in holders(level) : TRUE], parts)

(* A value, or whether a filter holds.                                     *)
RECURSIVE Meant(_, _, _)

Wanted(filter, envs, data) == \A i \in DOMAIN filter : Meant(filter[i], envs, data) = "T"

(* After a cursor: the rows beyond it in the order of the pages.           *)
BeyondCursor(q, envs, data) ==
  q.page.is = "cursor" =>
    \A i \in DOMAIN q.page.cursor :
      Compare3(IF q.order # <<>> /\ q.order[1].dir = "desc" THEN "<" ELSE ">",
               MeantReference(q.page.cursor[i].field, envs),
               Meant(q.page.cursor[i].value, envs, data)) = "T"

MeantSelect(q, envs, data) ==
  LET keys == SortsOf(q)
      Holds(i, level) ==
        /\ Wanted(IF i = 0 THEN q.filter ELSE q.joins[i].on, <<level>> \o envs, data)
        /\ i = 0 => BeyondCursor(q, <<level>> \o envs, data)
      Key(i, level) == MeantReference(keys[i].field, <<level>> \o envs)
  IN SelectedRows(TargetsOf(q), [i \in DOMAIN q.joins |-> q.joins[i].type], data,
                  [i \in DOMAIN keys |-> keys[i].dir], SqlPage(q.page), Holds, Key)

MeantColumn(q, envs, data) ==
  LET field == IF q.aggregates # <<>> THEN q.aggregates[1].field ELSE q.include[1]
      ValuesIn(found) == [i \in DOMAIN found |-> IF field = <<"*">> THEN 1
                                                ELSE MeantReference(field, <<found[i]>> \o envs)]
  IN Reduced(IF q.aggregates # <<>> THEN q.aggregates[1].type ELSE "",
             ValuesIn(MeantSelect(q, envs, data)))

MeantCall(name, args) ==
  IF name \in DOMAIN SqlOperator THEN Arithmetic(SqlOperator[name], args[1], args[2])
  ELSE Called(name, args[1])

MeantList(v, envs, data) ==
  IF v.is = "query" THEN MeantColumn(v.of, envs, data)
  ELSE [i \in DOMAIN v.of |-> Meant(v.of[i], envs, data)]

MeantCondition(c, v, envs, data) ==
  CASE c.op = "exists" -> Verdict(v # SqlNull)
    [] c.op = "nexists" -> Verdict(v = SqlNull)
    [] c.value.is = "nothing" /\ c.op = "eq" -> Verdict(v = SqlNull)
    [] c.value.is = "nothing" /\ c.op = "neq" -> Verdict(v # SqlNull)
    [] c.op \in {"in", "nin"} -> Signed3(c.op = "in", In3(v, MeantList(c.value, envs, data)))
    [] c.op \in {"contains", "ncontains"} ->
         Compare3(SqlComparison[c.op], v, AroundValue(Meant(c.value, envs, data)))
    [] OTHER -> Compare3(SqlComparison[c.op], v, Meant(c.value, envs, data))

MeantSearch(s, envs) ==
  LET asked == IF s.sensitive THEN s.text ELSE LowerOf(s.text)
      Lowered(v) == IF s.sensitive \/ v = SqlNull THEN v ELSE LowerOf(v)
      Search(field) ==
        Compare3(IF s.kind = "exact" THEN "=" ELSE "LIKE", Lowered(MeantReference(field, envs)),
                 IF s.kind = "exact" THEN asked ELSE Around(asked))
      Both3(each) == IF s.op = "and" THEN And3(each) ELSE Or3(each)
  IN Both3([i \in DOMAIN s.fields |-> Search(s.fields[i])])

Meant(e, envs, data) ==
  CASE e.is = "condition" -> MeantCondition(e, MeantReference(e.field, envs), envs, data)
    [] e.is = "search" -> MeantSearch(e, envs)
    [] e.is = "group" ->
         LET Both3(each) == IF e.op = "and" THEN And3(each) ELSE Or3(each)
         IN Both3([i \in DOMAIN e.parts |-> Meant(e.parts[i], envs, data)])
    [] e.is = "field" -> MeantReference(e.of, envs)
    [] e.is = "query" -> FirstOf(MeantColumn(e.of, envs, data))
    [] e.is = "call" -> MeantCall(e.of.name, [i \in DOMAIN e.of.args |-> Meant(e.of.args[i], envs, data)])
    [] e.is = "nothing" -> SqlNull
    [] OTHER -> e.of

MeantInsert(docs, data) ==
  data \union {[f \in ColumnsOf(MainTable) |->
                  IF f \in DOMAIN docs[i] THEN ToSQLiteValue(MainTable, f, docs[i][f]) ELSE SqlNull] :
                 i \in DOMAIN docs}

(* A path inside a column that is NULL cannot be set.                      *)
MeantAt(r, was, path, v) ==
  IF Len(path) = 1 THEN [r EXCEPT ![path[1]] = v]
  ELSE IF was[path[1]] = SqlNull THEN r
  ELSE [r EXCEPT ![path[1]] = (path[2] :> v) @@ r[path[1]]]

MeantAssigned(call, was, data) ==
  FoldLeft(LAMBDA r, path : MeantAt(r, was, path, Meant(call.compute[path], <<MainTable :> was>>, data)),
           [f \in DOMAIN was |->
              IF f \in DOMAIN call.set THEN ToSQLiteValue(MainTable, f, call.set[f]) ELSE was[f]],
           SetToSeq(DOMAIN call.compute))

MeantUpdate(call, data) ==
  {IF Wanted(call.filter, <<MainTable :> r>>, data) THEN MeantAssigned(call, r, data) ELSE r : r \in data}

MeantDelete(filter, data) ==
  {r \in data : ~Wanted(filter, <<MainTable :> r>>, data)}

----------------------------------------------------------------------------
(* A statement the factory builds and SQLite prepares is run; any other    *)
(* is an error and changes nothing.                                        *)

NoScope == [schemas |-> NoSchemas, factory |-> <<>>]
NoStatement == [text |-> <<>>, params |-> <<>>]
NoReply == [given |-> <<>>, meant |-> <<>>]

TableOf(rows) ==
  /\ sqlRows = rows
  /\ meantRows = rows
  /\ sent = NoStatement
  /\ reply = NoReply
  /\ ran = 0
SqlInit == TableOf(StartRows)

Send(built) ==
  /\ ran < MaxStatements
  /\ built.ok /\ Prepares(built.text, <<>>)
  /\ sent' = [text |-> built.text, params |-> built.params]
  /\ ran' = ran + 1

RunInsert ==
  \E docs \in Inserts :
    \E built \in {Build(NoScope, [is |-> "insert", target |-> MainTable, docs |-> docs])} :
    /\ Send(built)
    /\ \A i \in DOMAIN docs : \A r \in sqlRows : r.id # docs[i].id
    /\ sqlRows' = SqlRun(built.text[1], sqlRows)
    /\ meantRows' = MeantInsert(docs, meantRows)
    /\ reply' = NoReply

(* A column is set as a whole or in part, not both.                        *)
SeparateColumns(call) ==
  \A path \in DOMAIN call.compute : path[1] \notin DOMAIN call.set

RunUpdate ==
  \E u \in Updates :
    \E built \in {Build(NoScope, [is |-> "update", target |-> u.target, call |-> u.call])} :
    /\ SeparateColumns(u.call)
    /\ Send(built)
    /\ sqlRows' = SqlRun(built.text[1], sqlRows)
    /\ meantRows' = MeantUpdate(u.call, meantRows)
    /\ reply' = NoReply

RunDelete ==
  \E d \in Deletes :
    \E built \in {Build(NoScope, [is |-> "delete", target |-> d.target, filter |-> d.filter])} :
    /\ Send(built)
    /\ sqlRows' = SqlRun(built.text[1], sqlRows)
    /\ meantRows' = MeantDelete(d.filter, meantRows)
    /\ reply' = NoReply

(* The rows of a grouped query are not compared, its parameters are.       *)
RunSelect ==
  \E q \in Selects :
    \E built \in {Build(NoScope, [is |-> "select", of |-> q])} :
    /\ Send(built)
    /\ reply' = IF q.aggregates # <<>> THEN NoReply
                ELSE [given |-> SqlSelect(built.text[1].of, <<>>, sqlRows),
                      meant |-> MeantSelect(q, <<>>, meantRows)]
    /\ UNCHANGED <<sqlRows, meantRows>>

SqlNext == RunInsert \/ RunUpdate \/ RunDelete \/ RunSelect

SqlSpec == SqlInit /\ [][SqlNext]_sqlVars

----------------------------------------------------------------------------
(* A statement does what was asked: each placeholder of its text is bound  *)
(* to the value meant for it, through joins, subqueries, JSON columns set  *)
(* in part and CASE branches; the text, read with SQLite's precedence and  *)
(* its three-valued logic, selects, sorts, pages and changes the rows the  *)
(* query and the assignments select and change.                            *)
StatementsMean ==
  /\ Marks(sent.text) = sent.params
  /\ sqlRows = meantRows
  /\ reply.given = reply.meant
=============================================================================
