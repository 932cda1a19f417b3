--------------------------- MODULE MCRulesResolver ---------------------------
(***************************************************************************)
(* Model-checking instance of RulesResolver: two namespaces, one role     *)
(* name, two rule lists, and every kind of resource the resolvers are      *)
(* handed, each binding with every reference kind.                         *)
(***************************************************************************)
EXTENDS RulesResolver, TLC

CONSTANTS ns1, ns2, admin, r1, r2

NoRef == "none"

MCResources ==
  { [kind |-> k, ns |-> ns1, rules |-> r1, refKind |-> NoRef, refName |-> admin] :
      k \in {"Role", "ClusterRole", "ConfigMap"} }
  \cup
  { [kind |-> k, ns |-> n, rules |-> Absent, refKind |-> rk, refName |-> admin] :
      k \in BindingKinds, n \in {ns1, ns2}, rk \in {"Role", "ClusterRole", "Group"} }

=============================================================================
