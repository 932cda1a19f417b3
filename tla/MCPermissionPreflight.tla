------------------------ MODULE MCPermissionPreflight ------------------------
(***************************************************************************)
(* Model-checking instance of PermissionPreflight: one namespace besides   *)
(* "default", a ConfigMap-like namespaced resource, a CRD, and a custom    *)
(* resource whose CRD is created in the same graph, so the RESTMapper does *)
(* not know it yet.                                                        *)
(***************************************************************************)
EXTENDS PermissionPreflight, TLC

CONSTANTS ns1, default, cm, crd, cr

\* the grants a caller may hold, by RoleBinding (ns1, default) or ClusterRoleBinding
BaseGrants ==
  { [scope |-> ns1, verb |-> "create", resource |-> cm],
    [scope |-> ns1, verb |-> "update", resource |-> cm],
    [scope |-> default, verb |-> Star, resource |-> cm],
    [scope |-> AllNamespaces, verb |-> "delete", resource |-> Star],
    [scope |-> AllNamespaces, verb |-> Star, resource |-> crd] }

MCGrantWorlds == SUBSET BaseGrants

\* the changes a graph may hold
MCChanges ==
  { [op |-> "delete", resource |-> cm,  ns |-> ns1],
    [op |-> "upsert", resource |-> cm,  ns |-> ns1],
    [op |-> "upsert", resource |-> crd, ns |-> NoNamespace],
    [op |-> "upsert", resource |-> cr,  ns |-> ns1] }

\* graphs of one or two changes
MCChangeGraphs == [1..1 -> MCChanges] \cup [1..2 -> MCChanges]

MCConfigInputs == {SSAR, SSRR, "", "SubjectAccessReview"}

=============================================================================
