--------------------------- MODULE ChangeValidator ---------------------------
(***************************************************************************)
(* ChangeValidator.Validate (change_validator.go 571-611): for each        *)
(* version of the old CRD that the new CRD also has, flatten both schemas, *)
(* diff them, and run every changed field through the ordered chain of     *)
(* ChangeValidations; a field no validation claims is an "unknown change". *)
(* Every error is collected and joined at the end.                         *)
(*                                                                         *)
(* The two CRDs are an input.  Each version is read only while it is       *)
(* processed, so the model chooses a version's old and new schema when the *)
(* loop reaches it; this yields the same behaviours as fixing the whole    *)
(* input first, with far fewer states.  The loop over the diff map follows *)
(* Go's unspecified map order: any pending field may come next.            *)
(***************************************************************************)
EXTENDS Naturals, Sequences, FiniteSets, CRDSchema

CONSTANTS
  NumVersions,   \* number of versions in the old CRD
  SchemaTrees,   \* the schemas a version may have (MC-defined)
  ChainOrders,   \* the orders in which ChangeValidator.Validations may list the validations
  NoField        \* the field of an error that is not about one field

VARIABLES
  validations,   \* cv.Validations
  vi,            \* index of the old CRD's version being processed
  phase,         \* "versions": at the top of the version loop; "fields": in the diff loop; "done"
  diffs,         \* the diff map of the current version (copies the validations mutate)
  pending,       \* the fields of diffs the range loop has not visited
  field,         \* the field whose chain is running, or NoField
  ci,            \* index of the next validation in the chain
  errs,          \* errs: the collected errors, as [version, field, kind]
  expected,      \* history: the errors the safety rules call for, per version and field
  cited          \* history: the fields the e2e tests expect a dedicated error for, with its kind

vars == <<validations, vi, phase, diffs, pending, field, ci, errs, expected, cited>>

ValidationNames == {"Enum", "Required"}

ErrorKinds == {"SchemaDiff", "Unknown", "EnumsAdded", "EnumsRemoved", "RequiredNew", "RequiredAdded"}

Err(v, f, k) == [version |-> v, field |-> f, kind |-> k]

\* the call validation(diff) in the chain
Apply(name, diff) ==
  IF name = "Enum" THEN EnumChangeValidation(diff) ELSE RequiredFieldChangeValidation(diff)

(***************************************************************************)
(* The reference: what a safe update of one field is, stated per attribute *)
(* of the node itself.  Enum restrictions may not appear where there were  *)
(* none and values may not be dropped; required names may only be         *)
(* dropped; a change of an attribute no validation under src knows        *)
(* (Default, MinLength) is an error of its own.  A field missing from the  *)
(* new schema makes the whole version fail, and nothing else of that       *)
(* version is judged.  Only the location of that error is shared with the  *)
(* e2e tests, which expect dedicated messages for it (see CitedCases).     *)
(***************************************************************************)
OwnAttrs(s) == [enum |-> s.enum, required |-> s.required, default |-> s.default, minLength |-> s.minLength]

RuleKinds(o, n) ==
  { k \in ErrorKinds :
      \/ k = "EnumsAdded"    /\ o.enum = {} /\ n.enum # {}
      \/ k = "EnumsRemoved"  /\ o.enum # {} /\ o.enum \ n.enum # {}
      \/ k = "RequiredNew"   /\ o.required = {} /\ n.required # {}
      \/ k = "RequiredAdded" /\ o.required # {} /\ n.required \ o.required # {}
      \/ k = "Unknown"       /\ (o.default # n.default \/ o.minLength # n.minLength) }

ReferenceErrors(v, old, new) ==
  IF ~(SchemaPaths(old) \subseteq SchemaPaths(new))
  THEN {Err(v, NoField, "SchemaDiff")}
  ELSE UNION { { Err(v, p, k) : k \in RuleKinds(SubSchema(old, p), SubSchema(new, p)) } : p \in SchemaPaths(old) }

\* the e2e tests' cases: a default added where none was, and minLength raised,
\* each being the field's only change
CitedCases(v, old, new) ==
  { <<w, p, k>> \in {v} \X (SchemaPaths(old) \cap SchemaPaths(new)) \X {"DefaultAdded", "MinLengthIncreased"} :
      LET o == SubSchema(old, p) n == SubSchema(new, p)
      IN \/ k = "DefaultAdded" /\ o.default = NoDefault /\ n.default # NoDefault
            /\ [OwnAttrs(o) EXCEPT !.default = n.default] = OwnAttrs(n)
         \/ k = "MinLengthIncreased" /\ o.minLength < n.minLength
            /\ [OwnAttrs(o) EXCEPT !.minLength = n.minLength] = OwnAttrs(n) }

RecordReference(old, new) ==
  /\ expected' = expected \cup ReferenceErrors(vi, old, new)
  /\ cited' = cited \cup CitedCases(vi, old, new)

-----------------------------------------------------------------------------

Init ==
  /\ validations \in ChainOrders
  /\ vi = 1
  /\ phase = "versions"
  /\ diffs = <<>>
  /\ pending = {}
  /\ field = NoField
  /\ ci = 0
  /\ errs = {}
  /\ expected = {}
  /\ cited = {}

\* GetVersionByName returns nil: the version is skipped (574-578)
SkipVersion ==
  /\ phase = "versions" /\ vi <= NumVersions
  /\ vi' = vi + 1
  /\ UNCHANGED <<validations, phase, diffs, pending, field, ci, errs, expected, cited>>

\* the diff fails: one error for the version, and on to the next (579-586)
DiffFailed(old, new) ==
  /\ phase = "versions" /\ vi <= NumVersions
  /\ CalculateFlatSchemaDiff(FlattenSchema(old), FlattenSchema(new)).err
  /\ errs' = errs \cup {Err(vi, NoField, "SchemaDiff")}
  /\ vi' = vi + 1
  /\ RecordReference(old, new)
  /\ UNCHANGED <<validations, phase, diffs, pending, field, ci>>

\* mutant: the field loop ranges over the flattened old schema, not the diff map
StartFieldsOverOld(old, new) ==
  LET d == CalculateFlatSchemaDiff(FlattenSchema(old), FlattenSchema(new)) IN
  /\ phase = "versions" /\ vi <= NumVersions
  /\ ~d.err
  /\ diffs' = d.diffs
  /\ pending' = DOMAIN FlattenSchema(old)
  /\ phase' = "fields"
  /\ RecordReference(old, new)
  /\ UNCHANGED <<validations, vi, field, ci, errs>>

\* the diff succeeds: its fields are visited next (579-588)
StartFields(old, new) ==
  LET d == CalculateFlatSchemaDiff(FlattenSchema(old), FlattenSchema(new)) IN
  /\ phase = "versions" /\ vi <= NumVersions
  /\ ~d.err
  /\ diffs' = d.diffs
  /\ pending' = DOMAIN d.diffs
  /\ phase' = "fields"
  /\ RecordReference(old, new)
  /\ UNCHANGED <<validations, vi, field, ci, errs>>

\* the range loop takes the next field, in any order (588-589)
PickField ==
  /\ phase = "fields" /\ field = NoField
  /\ \E f \in pending : field' = f
  /\ ci' = 1
  /\ UNCHANGED <<validations, vi, phase, diffs, pending, errs, expected, cited>>

\* one validation of the chain; its error is kept, and "handled" ends the chain (590-599)
RunValidation ==
  /\ field # NoField /\ ci <= Len(validations)
  /\ LET r == Apply(validations[ci], diffs[field]) IN
       /\ diffs' = [diffs EXCEPT ![field] = r.diff]
       /\ errs' = IF r.err = NoErr THEN errs ELSE errs \cup {Err(vi, field, r.err)}
       /\ IF r.handled
          THEN /\ pending' = pending \ {field}
               /\ field' = NoField
               /\ ci' = ci
          ELSE /\ ci' = ci + 1
               /\ UNCHANGED <<pending, field>>
  /\ UNCHANGED <<validations, vi, phase, expected, cited>>

\* no validation claimed the field: deny by default (601-603)
UnknownChange ==
  /\ field # NoField /\ ci > Len(validations)
  /\ errs' = errs \cup {Err(vi, field, "Unknown")}
  /\ pending' = pending \ {field}
  /\ field' = NoField
  /\ UNCHANGED <<validations, vi, phase, diffs, ci, expected, cited>>

EndVersion ==
  /\ phase = "fields" /\ field = NoField /\ pending = {}
  /\ phase' = "versions"
  /\ vi' = vi + 1
  /\ diffs' = <<>>
  /\ UNCHANGED <<validations, pending, field, ci, errs, expected, cited>>

\* errors.Join of everything collected, or nil (607-610)
Finish ==
  /\ phase = "versions" /\ vi > NumVersions
  /\ phase' = "done"
  /\ UNCHANGED <<validations, vi, diffs, pending, field, ci, errs, expected, cited>>

Done == phase = "done" /\ UNCHANGED vars

Next ==
  \/ SkipVersion
  \/ \E old, new \in SchemaTrees : DiffFailed(old, new) \/ StartFields(old, new)
  \/ PickField
  \/ RunValidation
  \/ UnknownChange
  \/ EndVersion
  \/ Finish
  \/ Done

Spec == Init /\ [][Next]_vars

-----------------------------------------------------------------------------

TypeOK ==
  /\ validations \in ChainOrders
  /\ vi \in 1..NumVersions + 1
  /\ phase \in {"versions", "fields", "done"}
  /\ pending \subseteq DOMAIN diffs
  /\ field \in DOMAIN diffs \cup {NoField}
  /\ ci \in 0..Len(validations) + 1
  /\ \A e \in errs : e.version \in 1..NumVersions /\ e.kind \in ErrorKinds

(***************************************************************************)
(* Validate reports an error at exactly the versions and fields that the   *)
(* per-attribute safety rules reject: no unsafe field of any version goes  *)
(* unreported (the loops continue past a failed version or field and the   *)
(* chain denies what it cannot explain), and no safe field is rejected     *)
(* (the chain's cumulative clearing lets two validations together explain *)
(* a field whose enum and required set both changed).                      *)
(***************************************************************************)
ErrorsLocateUnsafeFields ==
  phase = "done" =>
    { <<e.version, e.field>> : e \in errs } = { <<e.version, e.field>> : e \in expected }

(***************************************************************************)
(* Field by field, the kinds of error Validate reports are exactly the     *)
(* rules the change breaks, whatever order the validations are chained in: *)
(* a validation that claims a field never hides an error another would    *)
(* have reported.                                                          *)
(***************************************************************************)
ErrorKindsExplainField == phase = "done" => errs = expected

(***************************************************************************)
(* As kapp's e2e tests expect: a field whose only change is a new default  *)
(* is reported as a default added where none existed, and one whose only *)
(* change is a raised minLength as a minimum length constraint increased. *)
(***************************************************************************)
E2EErrorsCited ==
  phase = "done" =>
    \A c \in cited : \E e \in errs : <<e.version, e.field, e.kind>> = c

=============================================================================
