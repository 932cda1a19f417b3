-------------------------- MODULE PermissionOracle --------------------------
(***************************************************************************)
(* What a PermissionValidator promises (permissions/validator.go, the doc  *)
(* comments of both ValidatePermissions): a check of a request returns nil *)
(* only if the caller is authorized for it, and "not permitted" only if    *)
(* the caller is not.  When it cannot tell, it returns some other error.   *)
(*                                                                         *)
(* The caller's RBAC grants are fixed for a run.  A grant comes from a     *)
(* RoleBinding in one namespace or from a ClusterRoleBinding (scope        *)
(* AllNamespaces); a namespaced grant never covers a cluster-scoped        *)
(* resource.                                                               *)
(***************************************************************************)
EXTENDS Naturals

CONSTANTS
  Namespaces,     \* namespaces of namespaced resources
  NoNamespace,    \* the empty namespace of a cluster-scoped resource
  AllNamespaces,  \* the scope of a grant made by a ClusterRoleBinding
  Resources,      \* resource types (API group and resource)
  ClusterScoped,  \* the cluster-scoped ones
  Verbs,          \* verbs a check asks about
  Star,           \* "*" in a rule's verbs or resources
  GrantWorlds,    \* the sets of grants the caller may hold
  MaxCalls        \* bound on the number of checks

ASSUME ClusterScoped \subseteq Resources

VARIABLES
  grants,         \* the caller's grants: [scope, verb, resource]
  calls,          \* number of checks answered
  last            \* the last check and its outcome

Requests ==
  { r \in [ns: Namespaces \cup {NoNamespace}, resource: Resources, verb: Verbs] :
      (r.ns = NoNamespace) = (r.resource \in ClusterScoped) }

\* a rule's verb and resource match the request, wildcards included
RuleMatches(g, r) == g.verb \in {r.verb, Star} /\ g.resource \in {r.resource, Star}

Authorized(r) ==
  \E g \in grants :
    /\ RuleMatches(g, r)
    /\ \/ g.scope = AllNamespaces
       \/ r.ns # NoNamespace /\ g.scope = r.ns

Outcomes == {"allowed", "denied", "error"}

TruthfulOutcomes(r) == {"error", IF Authorized(r) THEN "allowed" ELSE "denied"}

NoCheck == [req |-> CHOOSE r \in Requests : TRUE, outcome |-> "error"]

Init ==
  /\ grants \in GrantWorlds
  /\ calls = 0
  /\ last = NoCheck

Answer(r) ==
  /\ calls < MaxCalls
  /\ calls' = calls + 1
  /\ \E o \in TruthfulOutcomes(r) : last' = [req |-> r, outcome |-> o]
  /\ UNCHANGED grants

Next == \E r \in Requests : Answer(r)

Spec == Init /\ [][Next]_<<grants, calls, last>>

=============================================================================
