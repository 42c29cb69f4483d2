------------------------------- MODULE MCSql -------------------------------
(***************************************************************************)
(* Instances for TLC of Sql: three items with nulls and nested values, the *)
(* tags of two of them in a second table, and statements with each clause, *)
(* operator and kind of value.                                             *)
(***************************************************************************)
EXTENDS Sql

MCSqlFields ==
  [items |-> [id |-> "number", name |-> "text", n |-> "number", ok |-> "boolean",
              home |-> "complex", meta |-> "complex"],
   tags |-> [item |-> "number", k |-> "number"]]
MCFieldOrder ==
  [items |-> <<"home", "id", "meta", "n", "name", "ok">>, tags |-> <<"item", "k">>]
MCPathOrder ==
  <<<<"home">>, <<"home", "a">>, <<"home", "b">>, <<"meta", "version">>, <<"n">>, <<"ok">>>>

ItemRow(id, name, n, home) ==
  [id |-> id, name |-> name, n |-> n, ok |-> 1, home |-> home, meta |-> [version |-> 1]]
MCStartRows ==
  {ItemRow(1, "ann", 1, [a |-> 5, b |-> 7]), ItemRow(2, "bob", 2, [a |-> 6]),
   ItemRow(3, "Zed", SqlNull, SqlNull)}
MCSideRows ==
  [tags |-> {[item |-> 1, k |-> 1], [item |-> 2, k |-> 2], [item |-> 2, k |-> 3]}]
MCWithin == {<<"b", "bob">>, <<"b", "b">>}
MCLowerCase == [Zed |-> "zed", B |-> "b"]

Table(name, alias) == [name |-> name, alias |-> alias]
ItemTable == Table("items", NoAlias)
TagTable == Table("tags", NoAlias)
NumberValue(n) == [is |-> "number", of |-> n]
TextValue(t) == [is |-> "text", of |-> t]
NullValue == [is |-> "nothing", of |-> SqlNull]
ListOf(values) == [is |-> "list", of |-> values]
PathValue(path) == [is |-> "field", of |-> path]
CallWith(name, args) == [is |-> "call", of |-> [name |-> name, args |-> args]]
Plus(path, n) == CallWith("ADD", <<PathValue(path), NumberValue(n)>>)
QueryOf(q) == [is |-> "query", of |-> q]
On(field, op, value) == [is |-> "condition", field |-> field, op |-> op, value |-> value]
GroupOf(op, parts) == [is |-> "group", op |-> op, parts |-> parts]
SearchFor(fields, kind, text, sensitive, op) ==
  [is |-> "search", fields |-> fields, kind |-> kind, text |-> text,
   sensitive |-> sensitive, op |-> op]
PlainSelect(target) ==
  [target |-> target, joins |-> <<>>, include |-> <<>>, computed |-> <<>>,
   aggregates |-> <<>>, filter |-> <<>>, sort |-> <<>>, order |-> <<>>,
   page |-> [is |-> "none"], total |-> FALSE]
JoinOn(type, target, f) == [type |-> type, target |-> target, on |-> <<f>>]
SortBy(field, dir) == [field |-> field, dir |-> dir]
OffsetPage(limit, offset) == [is |-> "offset", limit |-> limit, offset |-> offset]
CursorPage(limit, cursor) ==
  [is |-> "cursor", limit |-> limit, offset |-> 0, cursor |-> <<cursor>>]
PlainAggregate(type, field) == [type |-> type, field |-> field, groups |-> <<>>, filter |-> <<>>]

ItemsOfTags(f) == [PlainSelect(TagTable) EXCEPT !.include = <<<<"item">>>>, !.filter = <<f>>]
MaxKOf2 ==
  [PlainSelect(TagTable) EXCEPT !.aggregates = <<PlainAggregate("MAX", <<"k">>)>>,
                                !.filter = <<On(<<"item">>, "eq", NumberValue(2))>>]
TagsOfItem ==
  [PlainSelect(TagTable) EXCEPT !.aggregates = <<PlainAggregate("COUNT", <<"*">>)>>,
                                !.filter = <<On(<<"item">>, "eq", PathValue(<<"id">>))>>]
TopN == [PlainSelect(ItemTable) EXCEPT !.aggregates = <<PlainAggregate("MAX", <<"n">>)>>]
NAbove1 == On(<<"n">>, "gt", NumberValue(1))
AIs5 == On(<<"home", "a">>, "eq", NumberValue(5))
VersionIs1 == On(<<"meta", "version">>, "eq", NumberValue(1))
IdIs(x) == On(<<"id">>, "eq", NumberValue(x))

Comparing ==
  {NAbove1, On(<<"n">>, "neq", NumberValue(1)), On(<<"n">>, "eq", NullValue),
   On(<<"n">>, "exists", NullValue),
   On(<<"id">>, "in", ListOf(<<NumberValue(1), NumberValue(2)>>)),
   On(<<"id">>, "nin", ListOf(<<>>)),
   On(<<"n">>, "nin", ListOf(<<NumberValue(1), NullValue>>)),
   On(<<"name">>, "contains", TextValue("b")), On(<<"name">>, "ncontains", TextValue("b")),
   On(<<"name">>, "eq", TextValue("a;b")),
   On(<<"n">>, "lt", CallWith("ADD", <<NumberValue(1), PathValue(<<"home", "a">>)>>))}
Grouping ==
  {GroupOf("and", <<GroupOf("or", <<NAbove1, AIs5>>), VersionIs1>>),
   GroupOf("or", <<GroupOf("and", <<NAbove1, VersionIs1>>), AIs5>>),
   GroupOf("or", <<>>), GroupOf("nor", <<NAbove1>>),
   SearchFor(<<<<"name">>>>, "contains", "B", FALSE, "or"),
   SearchFor(<<<<"name">>, <<"name">>>>, "exact", "Zed", TRUE, "and")}
Asking ==
  {On(<<"id">>, "in", QueryOf(ItemsOfTags(On(<<"k">>, "gte", NumberValue(2))))),
   On(<<"n">>, "lte", QueryOf(TagsOfItem)),
   On(<<"id">>, "in", QueryOf(ItemsOfTags(
        GroupOf("and", <<On(<<"k">>, "eq", PathValue(<<"n">>)),
                         On(<<"k">>, "lt", PathValue(<<"items", "home", "a">>))>>))))}

MCInserts ==
  {<<[id |-> 4, name |-> "new", n |-> 4, ok |-> TRUE, home |-> [a |-> 1]]>>,
   <<[id |-> 5, n |-> 1], [id |-> 6, ok |-> FALSE, meta |-> [version |-> 2]]>>, <<>>}

NothingSet == [f \in {} |-> 0]
Changing(set, compute, filter) == [set |-> set, compute |-> compute, filter |-> filter]
NextVersion == <<"meta", "version">> :> Plus(<<"meta", "version">>, 1)
HomeA(value) == <<"home", "a">> :> value
ItemChanges ==
  {Changing([n |-> 9, ok |-> FALSE], NextVersion, <<GroupOf("and", <<AIs5, VersionIs1>>)>>),
   Changing(NothingSet,
            NextVersion @@ (<<"home", "b">> :> Plus(<<"n">>, 2))
              @@ HomeA(CallWith("MULTIPLY", <<Plus(<<"home", "a">>, 1), NumberValue(3)>>)),
            <<NAbove1>>),
   Changing([ok |-> TRUE], <<"n">> :> QueryOf(MaxKOf2),
            <<On(<<"id">>, "in", ListOf(<<NumberValue(1), NumberValue(2)>>))>>),
   Changing(NothingSet, <<"n">> :> QueryOf(TagsOfItem), <<>>),
   Changing(NothingSet, HomeA(QueryOf(MaxKOf2)), <<>>),
   Changing(NothingSet, HomeA(QueryOf(TopN)) @@ (<<"n">> :> QueryOf(MaxKOf2)),
            <<On(<<"id">>, "in", QueryOf(ItemsOfTags(On(<<"k">>, "gte", NumberValue(2)))))>>),
   Changing([home |-> [b |-> 2]], NextVersion, <<On(<<"n">>, "eq", NullValue)>>),
   Changing([home |-> [b |-> 2]], HomeA(Plus(<<"n">>, 2)), <<>>)}
MCUpdates ==
  [target : {ItemTable}, call : ItemChanges]
  \union [target : {Table("items", "i")},
          call : {Changing([n |-> 3], NextVersion,
                           <<On(<<"i", "n">>, "gt", NumberValue(1))>>)}]
MCDeletes ==
  [target : {ItemTable},
   filter : {<<f>> : f \in
     {NAbove1, IdIs(1), GroupOf("or", <<NAbove1, AIs5>>),
      On(<<"id">>, "in",
         QueryOf(ItemsOfTags(On(<<"k">>, "lt", PathValue(<<"items", "home", "a">>)))))}}]

IdSort == SortBy(<<"id">>, "asc")
Sized ==
  [is |-> "case",
   of |-> [branches |-> <<[when |-> NAbove1, then |-> TextValue("big")],
                          [when |-> AIs5, then |-> NumberValue(2)]>>,
           else |-> TextValue("small")]]
Computed(call) == [is |-> "expression", of |-> call.of]
SumByOk(f) == [type |-> "SUM", field |-> <<"n">>, groups |-> <<<<"ok">>>>, filter |-> f]
TagOfItem ==
  GroupOf("and", <<On(<<"t", "item">>, "eq", PathValue(<<"i", "id">>)),
                   On(<<"k">>, "lt", NumberValue(3))>>)
ItemSelect == PlainSelect(ItemTable)
MCSelects ==
  {[ItemSelect EXCEPT !.filter = <<f>>] : f \in Comparing \union Grouping \union Asking}
  \union
  {[ItemSelect EXCEPT !.filter = <<NAbove1>>, !.total = TRUE,
                      !.computed = <<Sized, Computed(Plus(<<"n">>, 4))>>],
   [ItemSelect EXCEPT !.sort = <<SortBy(<<"n">>, "desc")>>, !.order = <<IdSort>>,
                      !.page = OffsetPage(2, 1),
                      !.computed =
                        <<Computed(CallWith("DIVIDE", <<PathValue(<<"home", "a">>), NumberValue(2)>>))>>,
                      !.filter = <<On(<<"n">>, "neq", NumberValue(7))>>],
   [ItemSelect EXCEPT !.sort = <<SortBy(<<"n">>, "desc"), IdSort>>, !.page = OffsetPage(2, 0)],
   [ItemSelect EXCEPT !.page = OffsetPage(0, 0)],
   [ItemSelect EXCEPT !.order = <<SortBy(<<"n">>, "desc")>>,
                      !.filter = <<GroupOf("or", <<NAbove1, AIs5>>)>>,
                      !.page = CursorPage(5, [field |-> <<"n">>, value |-> NumberValue(2)])],
   [PlainSelect(Table("items", "i")) EXCEPT
      !.joins = <<JoinOn("left", Table("tags", "t"), TagOfItem)>>,
      !.filter = <<On(<<"i", "home", "a">>, "gt", NumberValue(4))>>,
      !.computed = <<Computed(Plus(<<"i", "n">>, 4))>>],
   [ItemSelect EXCEPT
      !.joins = <<JoinOn("full", TagTable, On(<<"item">>, "eq", PathValue(<<"id">>)))>>,
      !.sort = <<SortBy(<<"k">>, "asc"), IdSort>>, !.page = OffsetPage(3, 0)],
   [ItemSelect EXCEPT !.joins = <<JoinOn("cross", TagTable, NAbove1)>>],
   [ItemSelect EXCEPT
      !.aggregates = <<SumByOk(<<On(<<"ok">>, "gt", NumberValue(0))>>), SumByOk(<<>>)>>,
      !.filter = <<NAbove1>>, !.include = <<<<"ok">>>>]}
============================================================================
