----------------------- MODULE MCPermissionValidators -----------------------
(***************************************************************************)
(* Model-checking instance of PermissionValidators: two namespaces, one    *)
(* namespaced and one cluster-scoped resource, create and delete, and      *)
(* every subset of a handful of grants as the caller's RBAC.               *)
(***************************************************************************)
EXTENDS PermissionValidators

CONSTANTS ns1, default, cm, crd, create, delete

\* grants that never give a namespace's RoleBinding a cluster-scoped resource
BaseGrants ==
  { [scope |-> ns1,           verb |-> create, resource |-> cm],
    [scope |-> default,       verb |-> Star,   resource |-> cm],
    [scope |-> AllNamespaces, verb |-> delete, resource |-> Star],
    [scope |-> AllNamespaces, verb |-> create, resource |-> crd] }

MCGrantWorlds == SUBSET BaseGrants

\* a RoleBinding in "default" to cluster-admin: every verb on every resource there
DefaultAdmin == [scope |-> default, verb |-> Star, resource |-> Star]

MCDefaultAdminWorlds == { w \cup {DefaultAdmin} : w \in SUBSET BaseGrants }

=============================================================================
