---------------------------- MODULE MCEvolution ----------------------------
(***************************************************************************)
(* Instances for TLC of SchemaEvolution: a schema of two fields and an     *)
(* index, and revisions that differ from it in each of the ways Diff       *)
(* tells apart, those of a nested schema included.                         *)
(***************************************************************************)
EXTENDS SchemaEvolution

TextField(name) == EvolvingField(name, "string")
BaseRevision ==
  [EmptySchema EXCEPT
     !.fields = ("fa" :> TextField("a")) @@ ("fb" :> TextField("b")),
     !.indexes = "ib" :> EvolvingIndex("by_b", <<"b">>),
     !.metadata = "owner" :> [value |-> "x"]]
NestedPart == [EmptyNested EXCEPT !.name = "Part", !.fields = "pn" :> TextField("n")]
WithNested(part) ==
  [BaseRevision EXCEPT
     !.fields = ("fa" :> TextField("a"))
                  @@ ("fc" :> [EvolvingField("c", "object") EXCEPT !.schema = "sp"]),
     !.indexes = <<>>,
     !.schemas = "sp" :> part]

FieldRevisions ==
  {[BaseRevision EXCEPT !.fields.fa.nullable = TRUE, !.description = "x"],
   [BaseRevision EXCEPT !.fields.fa.required = TRUE, !.metadata = "owner" :> [value |-> "y"]],
   [BaseRevision EXCEPT !.fields.fa.unique = TRUE, !.fields.fa.deprecated = TRUE],
   [BaseRevision EXCEPT !.fields = ("fb" :> TextField("b")), !.metadata = <<>>],
   [BaseRevision EXCEPT !.fields = ("fa" :> TextField("a")), !.indexes = <<>>],
   [BaseRevision EXCEPT
      !.fields = ("fd" :> [TextField("a") EXCEPT !.default = "z", !.required = TRUE])
                   @@ ("fb" :> TextField("b"))],
   [BaseRevision EXCEPT !.fields.fa.name = "d", !.name = "renamed"],
   [BaseRevision EXCEPT !.fields.fa.type = "integer"]}
IndexRevisions ==
  {[BaseRevision EXCEPT !.indexes = <<>>],
   [BaseRevision EXCEPT !.indexes.ib.unique = TRUE],
   [BaseRevision EXCEPT !.indexes.ib.fields = <<"a", "b">>],
   [BaseRevision EXCEPT !.indexes.ib.name = "by_x"],
   [BaseRevision EXCEPT !.indexes = ("ic" :> EvolvingIndex("by_b", <<"a">>))],
   [BaseRevision EXCEPT
      !.indexes = ("ib" :> EvolvingIndex("by_x", <<"b">>)) @@ ("ic" :> EvolvingIndex("by_b", <<"a">>))],
   [BaseRevision EXCEPT
      !.indexes = ("ib" :> EvolvingIndex("by_b", <<"b">>))
                    @@ ("ia" :> [EvolvingIndex("by_a", <<"a">>) EXCEPT !.unique = TRUE])]}
Indexed(id, index) ==
  [BaseRevision EXCEPT !.indexes = ("ib" :> EvolvingIndex("by_b", <<"b">>)) @@ (id :> index)]
KeyedRevisions ==
  {[BaseRevision EXCEPT !.fields = ("fb" :> TextField("b"))],
   Indexed("iu", [EvolvingIndex("by_a", <<"a">>) EXCEPT !.type = "unique"]),
   Indexed("ip", [EvolvingIndex("by_a", <<"a">>) EXCEPT !.type = "primary"])}
WithLevels(fields, values) ==
  [BaseRevision EXCEPT
     !.fields = ("fb" :> TextField("b"))
                  @@ [id \in fields |-> [EvolvingField(id, "enum") EXCEPT !.schema = "sl"]],
     !.schemas = "sl" :> [EmptyNested EXCEPT !.name = "Level", !.type = "string", !.values = values]]
LevelRevisions ==
  {WithLevels({"fl"}, <<"low">>), WithLevels({"fl"}, <<"low", "high">>),
   WithLevels({"fl", "fm"}, <<"low">>)}
ConstraintRevisions ==
  {[BaseRevision EXCEPT !.constraints = "cr" :> c] :
     c \in {EvolvingRule("both", "both", <<"a", "b">>), EvolvingRule("both", "both", <<"a">>),
            EvolvingGroup("both", "any")}}
NestedRevisions ==
  {WithNested(part) : part \in
     {NestedPart,
      [NestedPart EXCEPT !.fields.pn.required = TRUE],
      [NestedPart EXCEPT !.type = "string"],
      [NestedPart EXCEPT
         !.fields = ("pn" :> TextField("n")) @@ ("pm" :> TextField("m")),
         !.constraints = "pr" :> EvolvingRule("p", "both", <<"n">>)]}}
MCRevisions ==
  {BaseRevision} \union FieldRevisions \union IndexRevisions
    \union ConstraintRevisions \union NestedRevisions
    \union KeyedRevisions \union LevelRevisions

StoredValue(type, keys) == [is |-> type, keys |-> keys]
MCDocumentsOf ==
  UNION {[s -> {StoredValue("string", {}), StoredValue("null", {})}] : s \in SUBSET {"a", "b"}}
    \union {"a" :> StoredValue("integer", {})}
    \union {"c" :> StoredValue("object", keys) : keys \in SUBSET {"n"}}
MCStored == {<<x>> : x \in MCDocumentsOf} \union (MCDocumentsOf \X MCDocumentsOf)
============================================================================
