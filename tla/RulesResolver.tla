---------------------------- MODULE RulesResolver ----------------------------
(***************************************************************************)
(* The Role and Binding rule resolvers (unnamed/part_001 302-392):         *)
(* RulesForRole, RulesForBinding, RulesForRoleBinding and                  *)
(* RulesForClusterRoleBinding.  A resource of the change graph is turned   *)
(* into the policy rules it grants: a (Cluster)Role carries them, a        *)
(* (Cluster)RoleBinding names the role whose rules it grants, and that     *)
(* role is fetched from the cluster.  The cluster's roles are read-only    *)
(* here; a fetch may fail (transport, NotFound), and the typed conversion  *)
(* (AsTypedObj) may fail on a malformed object.  A rule list is a model    *)
(* value: the resolvers pass lists through without looking inside.         *)
(***************************************************************************)
EXTENDS Naturals

CONSTANTS
  Namespaces,     \* namespaces roles and bindings live in
  RoleNames,      \* names of roles
  RuleLists,      \* the rule lists a role may hold
  Absent,         \* no role of that name in the cluster
  Resources,      \* the resources the resolvers may be handed (MC-defined)
  MaxCalls        \* bound on the number of resolutions

VARIABLES
  roles,          \* namespace -> name -> rules of the Roles in the cluster
  clusterRoles,   \* name -> rules of the ClusterRoles in the cluster
  calls,          \* resolutions made
  last            \* the last resolution: [res, out]

vars == <<roles, clusterRoles, calls, last>>

\* what a resolver returns: ([]PolicyRule, nil) or (nil, err)
Ok(rules) == [err |-> FALSE, rules |-> rules]
Failed == [err |-> TRUE, rules |-> Absent]

\* mutant: a NotFound is taken as a role with no rules
FetchedNotFoundOk(rules) == Ok(rules)

\* rbacClient.*Roles().Get: NotFound when there is no such role
Fetched(rules) == IF rules = Absent THEN Failed ELSE Ok(rules)

\* RulesForRole (306-328)
RulesForRole(res) ==
  IF res.kind \in {"Role", "ClusterRole"} THEN Ok(res.rules) ELSE Failed

\* mutant: the Role and ClusterRole branches fetch from each other's client
RoleRefBranchesSwapped(rb) ==
  CASE rb.refKind = "Role"        -> Fetched(clusterRoles[rb.refName])
    [] rb.refKind = "ClusterRole" -> Fetched(roles[rb.ns][rb.refName])
    [] OTHER                      -> Failed

\* RulesForRoleBinding (361-380): the reference kind selects where the role is fetched
RulesForRoleBinding(rb) ==
  CASE rb.refKind = "ClusterRole" -> Fetched(clusterRoles[rb.refName])
    [] rb.refKind = "Role"        -> Fetched(roles[rb.ns][rb.refName])
    [] OTHER                      -> Failed

\* RulesForClusterRoleBinding (386-392): the ClusterRole named by the reference
RulesForClusterRoleBinding(crb) == Fetched(clusterRoles[crb.refName])

\* RulesForBinding (334-355)
RulesForBinding(res) ==
  CASE res.kind = "RoleBinding"        -> RulesForRoleBinding(res)
    [] res.kind = "ClusterRoleBinding" -> RulesForClusterRoleBinding(res)
    [] OTHER                           -> Failed

RoleKinds == {"Role", "ClusterRole"}
BindingKinds == {"RoleBinding", "ClusterRoleBinding"}

(***************************************************************************)
(* The reference: the role a binding grants, by the RBAC rules the spec    *)
(* states (4.5): a RoleBinding may reference a Role of its own namespace   *)
(* or a ClusterRole, a ClusterRoleBinding only a ClusterRole.  Any other   *)
(* reference is invalid and grants nothing.                                *)
(***************************************************************************)
Invalid == "invalid"

Referent(b) ==
  CASE b.kind = "RoleBinding" /\ b.refKind = "Role"     -> roles[b.ns][b.refName]
    [] b.refKind = "ClusterRole" /\ b.kind \in BindingKinds -> clusterRoles[b.refName]
    [] OTHER                                             -> Invalid

-----------------------------------------------------------------------------

Init ==
  /\ roles \in [Namespaces -> [RoleNames -> RuleLists \cup {Absent}]]
  /\ clusterRoles \in [RoleNames -> RuleLists \cup {Absent}]
  /\ calls = 0
  /\ last = [res |-> CHOOSE r \in Resources : TRUE, out |-> Failed]

Answer(res, out) ==
  /\ calls < MaxCalls
  /\ calls' = calls + 1
  /\ last' = [res |-> res, out |-> out]
  /\ UNCHANGED <<roles, clusterRoles>>

\* res.AsTypedObj fails: "converting resource to typed ... object"
ConversionFailed(res) ==
  /\ res.kind \in RoleKinds \cup BindingKinds
  /\ Answer(res, Failed)

\* the Get of the referenced role fails for a reason other than NotFound
FetchFailed(res) ==
  /\ res.kind \in BindingKinds
  /\ Answer(res, Failed)

\* a role resource: its own rules
RoleResolved(res) ==
  /\ res.kind \notin BindingKinds
  /\ Answer(res, RulesForRole(res))

\* a binding resource: the rules of the role it references
BindingResolved(res) ==
  /\ res.kind \notin RoleKinds
  /\ Answer(res, RulesForBinding(res))

Exhausted == calls = MaxCalls /\ UNCHANGED vars

Next ==
  \/ Exhausted
  \/ \E res \in Resources :
       ConversionFailed(res) \/ FetchFailed(res) \/ RoleResolved(res) \/ BindingResolved(res)

Spec == Init /\ [][Next]_vars

-----------------------------------------------------------------------------

TypeOK ==
  /\ calls \in 0..MaxCalls
  /\ last.res \in Resources
  /\ last.out \in [err: {TRUE}, rules: {Absent}] \cup [err: {FALSE}, rules: RuleLists]

(***************************************************************************)
(* The rules a binding resolves to are those of the role RBAC says it      *)
(* grants: a RoleBinding's Role is looked up in the binding's namespace,   *)
(* not another, and a ClusterRole reference never yields a namespaced     *)
(* Role's rules; a role resource resolves to its own rules.                *)
(***************************************************************************)
ResolvedRulesAreReferents ==
  ~last.out.err =>
    IF last.res.kind \in BindingKinds
    THEN Referent(last.res) \in {Invalid, last.out.rules}
    ELSE last.out.rules = last.res.rules

(***************************************************************************)
(* A binding whose role reference is not one RBAC allows (spec 4.5: a      *)
(* ClusterRoleBinding may only reference a ClusterRole; an unknown kind is *)
(* rejected) is resolved to an error, never to some role's rules.          *)
(***************************************************************************)
InvalidReferenceRejected ==
  last.res.kind \in BindingKinds /\ Referent(last.res) = Invalid => last.out.err

=============================================================================
