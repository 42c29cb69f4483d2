------------------------------ MODULE MCForms ------------------------------
(***************************************************************************)
(* Instances for TLC of SchemaForms: fields with each default and each     *)
(* reference, constraints and indexes with groups inside groups, nested    *)
(* schemas of values and of fields.                                        *)
(***************************************************************************)
EXTENDS SchemaForms

UnsetForm == GoValue("zero", "")
X1 == GoValue("string", "x")
Two == GoValue("int64", 2)
NoReference == [kind |-> "none"]
Refers(id) == [RefOf(JsonObject(<<>>)) EXCEPT !.id = id]
One(ref) == [kind |-> "single", of |-> ref]
Several(refs) == [kind |-> "multiple", of |-> refs]
Described(type, values) == [Refers("") EXCEPT !.type = type, !.values = values]

RuleForm(literal) ==
  [kind |-> "rule", body |-> [predicate |-> "p", fields |-> <<"f">>, parameters |-> literal]]
GroupForm(rules) == [kind |-> "group", body |-> [operator |-> "and", rules |-> rules]]
ConstraintForm(c) == c @@ [name |-> "c", description |-> ""]
ConditionForm(literal) ==
  [kind |-> "single", body |-> [field |-> "f", operator |-> "eq", value |-> literal]]
ConditionsForm(conditions) ==
  [kind |-> "group", body |-> [operator |-> "or", conditions |-> conditions]]
IndexForm(condition) ==
  [name |-> "i", description |-> "", type |-> "normal", order |-> "asc", unique |-> TRUE,
   fields |-> <<"f">>, condition |-> condition]
FieldForm ==
  [name |-> "f", description |-> "", required |-> FALSE, deprecated |-> FALSE,
   unique |-> FALSE, nullable |-> FALSE, type |-> "string", default |-> UnsetForm,
   schema |-> NoReference, metadata |-> <<>>]
BaseForm ==
  [name |-> "", description |-> "", fields |-> <<>>, constraints |-> <<>>,
   indexes |-> <<>>, metadata |-> <<>>]
NestedForm ==
  BaseForm @@ [concrete |-> FALSE, type |-> "", schema |-> NoReference,
               default |-> UnsetForm, values |-> <<>>]
SchemaForm == BaseForm @@ [version |-> "", schemas |-> <<>>]

MCLiterals ==
  {UnsetForm, GoValue("null", ""), X1, GoValue("bool", FALSE), GoValue("int64", 4),
   GoValue("int", 10), GoValue("uint64", 4), GoValue("float64", 3), GoValue("float64", 4),
   GoValue("float32", 3), GoValue("slice", <<>>),
   GoValue("slice", <<GoValue("int", 2), GoValue("null", ""), GoValue("map", <<>>), X1>>),
   GoValue("map", [a |-> GoValue("uint", 2),
                   b |-> GoValue("slice", <<GoValue("float64", 1),
                                            GoValue("typed", JsonTexts(<<"x">>))>>),
                   c |-> Two])}
MCRefForms ==
  {NoReference, One(Refers("s")),
   One(Described("integer", <<>>)), One(Described("", <<X1, Two>>)),
   One(Described("string", <<X1, GoValue("int", 2), GoValue("null", "")>>)),
   Several(<<>>), Several(<<Refers("s"), Refers("t")>>),
   Several(<<Described("string", <<X1>>)>>),
   One([Refers("s") EXCEPT !.indexes = "i" :> IndexForm(NoReference),
                           !.constraints = "c" :> ConstraintForm(RuleForm(UnsetForm))])}
MCConditions ==
  {NoReference, ConditionForm(UnsetForm), ConditionsForm(<<>>),
   ConditionsForm(<<ConditionForm(Two),
                    ConditionsForm(<<ConditionForm(UnsetForm), ConditionsForm(<<>>)>>),
                    ConditionForm(X1)>>)}
DeepGroup(one, two) ==
  GroupForm(<<GroupForm(<<>>), one, GroupForm(<<two, GroupForm(<<one>>)>>), two>>)
MCRules ==
  {RuleForm(UnsetForm), GroupForm(<<>>),
   GroupForm(<<RuleForm(Two), GroupForm(<<RuleForm(UnsetForm)>>)>>),
   DeepGroup(RuleForm(GoValue("float64", 3)), RuleForm(UnsetForm))}
MCMetadata ==
  {<<>>, [m |-> Two, n |-> GoValue("slice", <<X1>>)], [m |-> GoValue("float64", 2)]}

WithField ==
  {[SchemaForm EXCEPT
      !.version = "1.0.0",
      !.fields = "f" :> [FieldForm EXCEPT !.default = l, !.schema = r, !.required = TRUE]] :
     l \in MCLiterals, r \in MCRefForms}
WithRuleForms ==
  {[SchemaForm EXCEPT
      !.constraints = ("c" :> ConstraintForm(u))
                        @@ ("d" :> ConstraintForm(RuleForm(UnsetForm))),
      !.metadata = m] : u \in MCRules, m \in MCMetadata}
WithConditionForms ==
  {[SchemaForm EXCEPT
      !.fields = "f" :> FieldForm,
      !.constraints = "c" :> ConstraintForm(GroupForm(<<RuleForm(UnsetForm)>>)),
      !.indexes = ("i" :> IndexForm(c)) @@ ("j" :> IndexForm(NoReference))] : c \in MCConditions}
WithNestedForm ==
  {[SchemaForm EXCEPT
      !.version = "2.0.0",
      !.schemas =
        ("s" :> [NestedForm EXCEPT !.name = "s", !.type = "enum", !.schema = r,
                   !.default = l, !.values = <<l, X1>>, !.metadata = [m |-> X1]])
        @@ ("t" :> [NestedForm EXCEPT !.concrete = TRUE,
                      !.fields = "g" :> [FieldForm EXCEPT !.metadata = m],
                      !.constraints = "c" :> ConstraintForm(GroupForm(<<RuleForm(l)>>)),
                      !.indexes = "i" :> IndexForm(ConditionsForm(<<ConditionForm(l)>>))])] :
     r \in MCRefForms, l \in MCLiterals, m \in MCMetadata}
MCSchemaForms == WithField \union WithRuleForms \union WithConditionForms \union WithNestedForm
============================================================================
