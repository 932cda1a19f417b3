----------------------------- MODULE CRDSchema -----------------------------
(***************************************************************************)
(* The pure part of the CRD upgrade-safety check (package                  *)
(* crdupgradesafety, change_validator.go): schema nodes, FlattenSchema,    *)
(* CalculateFlatSchemaDiff and the two ChangeValidations, as operators.   *)
(*                                                                         *)
(* A schema node (v1.JSONSchemaProps) keeps the attributes the validations *)
(* look at (Enum, Required), two attributes none of them handles (Default, *)
(* MinLength) and its children: Properties, which the differ clears, and   *)
(* Items, which it does not.  Enum and Required are slices in Go; both     *)
(* validations turn them into sets first, and a reordering or duplicate    *)
(* only creates a diff that the same validation then accepts, so they are  *)
(* sets here.  A path is a sequence of child keys; <<>> is the root "^".   *)
(***************************************************************************)
EXTENDS FiniteSets, Sequences

CONSTANTS
  Enums,        \* enum values (v1.JSON raw strings)
  Fields,       \* names that can appear in Required
  Defaults,     \* default values
  MinLengths,   \* minLength values
  PropNames,    \* property names
  Items,        \* the child key of an array's item schema ("[*]")
  NoDefault,    \* Default == nil
  NoItems       \* Items == nil

ASSUME Items \notin PropNames

(***************************************************************************)
(* FlattenSchema (change_validator.go 646-659): manifestcomparators.       *)
(* SchemaHas visits the node and then every child, Properties and Items   *)
(* alike, and the callback stores a DeepCopy of each visited node at its   *)
(* simple path.  The copy still holds the node's children.                 *)
(***************************************************************************)
Children(s) ==
  DOMAIN s.properties \cup (IF s.items = NoItems THEN {} ELSE {Items})

Child(s, k) == IF k = Items THEN s.items ELSE s.properties[k]

RECURSIVE SchemaPaths(_)
SchemaPaths(s) ==
  {<<>>} \cup UNION { { <<k>> \o q : q \in SchemaPaths(Child(s, k)) } : k \in Children(s) }

RECURSIVE SubSchema(_, _)
SubSchema(s, p) == IF p = <<>> THEN s ELSE SubSchema(Child(s, Head(p)), Tail(p))

FlattenSchema(schema) == [p \in SchemaPaths(schema) |-> SubSchema(schema, p)]

(***************************************************************************)
(* CalculateFlatSchemaDiff (664-689).  Any field of the old flat schema    *)
(* missing from the new one is an error and no diff is returned (which     *)
(* missing field the map iteration meets first only changes the message). *)
(* Otherwise both copies get Properties = nil and are compared with        *)
(* reflect.DeepEqual; Items is left in place.                              *)
(***************************************************************************)
WithoutProperties(s) == [s EXCEPT !.properties = <<>>]

\* mutant: the copies keep their Properties, so a child's change shows at its parent too
DiffWithChildren(o, n) ==
  IF ~(DOMAIN o \subseteq DOMAIN n)
  THEN [err |-> TRUE, diffs |-> <<>>]
  ELSE [err |-> FALSE,
        diffs |-> [f \in {g \in DOMAIN o : o[g] # n[g]} |-> [old |-> o[f], new |-> n[f]]]]

CalculateFlatSchemaDiff(o, n) ==
  IF ~(DOMAIN o \subseteq DOMAIN n)
  THEN [err |-> TRUE, diffs |-> <<>>]
  ELSE [err |-> FALSE,
        diffs |-> [f \in {g \in DOMAIN o : WithoutProperties(o[g]) # WithoutProperties(n[g])} |->
                     [old |-> WithoutProperties(o[f]), new |-> WithoutProperties(n[f])]]]

(***************************************************************************)
(* A ChangeValidation returns (handled, err) and, through the FieldDiff's  *)
(* pointers, leaves its attribute cleared on both copies: handled() writes *)
(* Old.Enum = New.Enum = [] before comparing, on every return path.  The   *)
(* cleared diff is returned so the chain can pass it to the next           *)
(* validation, as the shared pointers do in Go.                            *)
(***************************************************************************)
NoErr == "none"

\* mutant: handled() compares the copies without resetting Enum first
EnumNoReset(diff) ==
  LET err == IF diff.old.enum = {} /\ diff.new.enum # {} THEN "EnumsAdded"
             ELSE IF diff.old.enum \ diff.new.enum # {} THEN "EnumsRemoved"
             ELSE NoErr
  IN [handled |-> diff.old = diff.new, err |-> err, diff |-> diff]

\* EnumChangeValidation (463-503)
EnumChangeValidation(diff) ==
  LET cleared == [old |-> [diff.old EXCEPT !.enum = {}], new |-> [diff.new EXCEPT !.enum = {}]]
      err == IF diff.old.enum = {} /\ diff.new.enum # {} THEN "EnumsAdded"
             ELSE IF diff.old.enum \ diff.new.enum # {} THEN "EnumsRemoved"
             ELSE NoErr
  IN [handled |-> cleared.old = cleared.new, err |-> err, diff |-> cleared]

\* RequiredFieldChangeValidation (514-545)
RequiredFieldChangeValidation(diff) ==
  LET cleared == [old |-> [diff.old EXCEPT !.required = {}], new |-> [diff.new EXCEPT !.required = {}]]
      err == IF diff.old.required = {} /\ diff.new.required # {} THEN "RequiredNew"
             ELSE IF diff.new.required \ diff.old.required # {} THEN "RequiredAdded"
             ELSE NoErr
  IN [handled |-> cleared.old = cleared.new, err |-> err, diff |-> cleared]

=============================================================================
