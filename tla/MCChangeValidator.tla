-------------------------- MODULE MCChangeValidator --------------------------
(***************************************************************************)
(* Model-checking instance of ChangeValidator.  The schemas a version may  *)
(* have are every tree over a set of shapes (the paths present) with every *)
(* choice of attributes per node.                                          *)
(***************************************************************************)
EXTENDS ChangeValidator, TLC

CONSTANTS e1, e2, f1, f2, d1, a

\* the chain kapp builds: enum first, then required; and the reverse order
MCChainOrders == { <<"Enum", "Required">>, <<"Required", "Enum">> }
MCOneOrder == { <<"Enum", "Required">> }

RECURSIVE BuildNode(_, _, _)
BuildNode(shape, attrs, p) ==
  [enum       |-> attrs[p].enum,
   required   |-> attrs[p].required,
   default    |-> attrs[p].default,
   minLength  |-> attrs[p].minLength,
   properties |-> [k \in {j \in PropNames : Append(p, j) \in shape} |-> BuildNode(shape, attrs, Append(p, k))],
   items      |-> IF Append(p, Items) \in shape THEN BuildNode(shape, attrs, Append(p, Items)) ELSE NoItems]

TreesOver(shapes, attrSet) ==
  UNION { { BuildNode(s, at, <<>>) : at \in [s -> attrSet] } : s \in shapes }

\* every combination of enum, required, default and minLength on one node
FullAttrs ==
  [enum: SUBSET {e1, e2}, required: SUBSET {f1, f2}, default: {NoDefault, d1}, minLength: {5, 10}]

\* the attributes the chain's validations judge: every enum and required set
EnumRequiredAttrs ==
  [enum: SUBSET {e1, e2}, required: SUBSET {f1, f2}, default: {NoDefault}, minLength: {5}]

\* one value of each, enough to add, drop or keep it
SmallAttrs ==
  [enum: SUBSET {e1}, required: SUBSET {f1}, default: {NoDefault, d1}, minLength: {5}]

\* a single field: the root
RootOnly == TreesOver({ {<<>>} }, FullAttrs)

\* a single field whose enum and required sets change
RootEnumRequired == TreesOver({ {<<>>} }, EnumRequiredAttrs)

\* per node: an enum value added (safe) or dropped (rejected), minLength changed (unknown)
WalkAttrs ==
  [enum: {{e1}, {e1, e2}}, required: {{}}, default: {NoDefault}, minLength: {5, 10}]

\* a root with or without one property
RootAndProperty == TreesOver({ {<<>>}, {<<>>, <<a>>} }, WalkAttrs)

\* a root with an item schema
RootWithItems == TreesOver({ {<<>>, <<Items>>} }, SmallAttrs)

=============================================================================
