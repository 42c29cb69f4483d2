----------------------------- MODULE MCCompiled ----------------------------
(***************************************************************************)
(* Instances for TLC of CompiledForm: compiled schemas with nothing in     *)
(* them, with fields and default values of each shape, with rules, indexes *)
(* and conditions of each kind, and with a constraint that is not set.     *)
(***************************************************************************)
EXTENDS CompiledForm

Of(kind, value) == [kind |-> kind, value |-> value]
IntOf(type, n) == Of("integer", Of(type, n))
NotThere == Of("none", "")

RawRule(predicate) ==
  Of("rule", [fields |-> <<"a">>, predicate |-> predicate, parameters |-> IntOf("int", 1)])
RawGroup ==
  Of("group", [operator |-> 2,
               rules |-> <<RawRule("p"), Of("group", [operator |-> 1, rules |-> <<>>])>>])
RawConstraint(name, holds) == [name |-> name, description |-> "", holds |-> holds]

ResolvedOf(holds) ==
  [name |-> "r", scope |-> 1, holds |-> holds, abs |-> <<"x.a">>,
   absParts |-> <<<<"x", "a">>>>, rel |-> <<"a">>, relParts |-> <<<<"a">>>>]
RuleOfTwo ==
  Of("rule", [predicate |-> "p", fields |-> <<"a", "b">>,
              parameters |-> Of("object", "k" :> Of("uint", 9))])
GroupOfOne ==
  Of("group", [operator |-> 1, members |-> <<ResolvedOf(RuleOfTwo)>>,
               paths |-> <<"a">>, parts |-> <<<<"a">>>>])

ConditionOnA == Of("single", [field |-> "a", value |-> Of("string", "s"), operator |-> 3])
IndexOn(condition) ==
  [name |-> "i", description |-> "", order |-> "asc", condition |-> condition,
   fields |-> <<"a">>, type |-> 1, unique |-> TRUE]

ContainerKey(type) == [type |-> type, point |-> 1]
SlotOf(value) == [null |-> FALSE, value |-> value]
InnerContainer == Of("some", ContainerKey("Int") :> SlotOf(7))
FullContainer ==
  Of("some",
     (ContainerKey("Int") :> SlotOf(1))
       @@ (ContainerKey("Unknown") :>
             SlotOf(Of("typed slice", <<Of("int", 2), Of("float32", "f")>>)))
       @@ (ContainerKey("Record") :> SlotOf("k" :> Of("pointer", Of("typed map", <<>>))))
       @@ (ContainerKey("String") :> [null |-> TRUE])
       @@ (ContainerKey("ArrayObject") :> SlotOf(<<InnerContainer, NotThere>>))
       @@ (ContainerKey("Geometry") :> SlotOf(<<<<"f">>, <<>>>>)))

FieldMeta(default) ==
  [id |-> "fa", name |-> "a", path |-> "a", parts |-> <<"a">>, description |-> "",
   metadata |-> "m" :> Of("channel", ""), default |-> default]

EmptyCompiled ==
  [descriptors |-> <<>>, fieldTypes |-> <<>>, localOffsets |-> <<>>, fieldsMeta |-> <<>>,
   schemas |-> <<>>, schemasMeta |-> <<>>, defaults |-> NotThere, enums |-> NotThere,
   variants |-> <<>>, constraints |-> <<>>, indexes |-> <<>>,
   schemaConstraints |-> <<>>, refConstraints |-> <<>>]
WithFields ==
  [EmptyCompiled EXCEPT
     !.descriptors = <<5, 6>>, !.fieldTypes = <<1, 2>>, !.localOffsets = <<0, 1>>,
     !.fieldsMeta = <<FieldMeta(IntOf("int8", 3)),
                      FieldMeta(Of("array", <<Of("uint", 15)>>))>>,
     !.schemas = <<[start |-> 0, count |-> 2, footprint |-> 3]>>,
     !.schemasMeta = <<[id |-> "", name |-> "s", description |-> "d", metadata |-> <<>>]>>,
     !.variants = (3 :> <<1, 2>>) @@ (4 :> <<>>),
     !.defaults = FullContainer]
WithRules ==
  [EmptyCompiled EXCEPT
     !.constraints = <<ResolvedOf(RuleOfTwo), ResolvedOf(GroupOfOne),
                       ResolvedOf(Of("neither", ""))>>,
     !.indexes = ("i1" :> IndexOn(Of("some", Of("group", [operator |-> 1,
                                                 conditions |-> <<ConditionOnA>>]))))
                   @@ ("i2" :> IndexOn(NotThere)),
     !.schemaConstraints = <<<<>>, ("c1" :> RawConstraint("one", RawRule("q")))
                                     @@ ("c2" :> RawConstraint("two", RawGroup))>>,
     !.refConstraints = 5 :> ("c2" :> RawConstraint("two", RawGroup)),
     !.enums = FullContainer]
WithUnset ==
  [EmptyCompiled EXCEPT
     !.schemaConstraints = <<"c1" :> RawConstraint("none", Of("unset", ""))>>]
MCCompiledSchemas == {EmptyCompiled, WithFields, WithRules, WithUnset}
============================================================================
