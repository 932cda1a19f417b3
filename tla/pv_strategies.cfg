\* Both strategies against the oracle; the SelfSubjectRulesReview cache and the one-review rule.
CONSTANTS
  ns1 = ns1
  default = default
  cm = cm
  crd = crd
  create = create
  delete = delete
  Namespaces = {ns1, default}
  NoNamespace = NoNamespace
  AllNamespaces = AllNamespaces
  Resources = {cm, crd}
  ClusterScoped = {crd}
  Verbs = {create, delete}
  Star = Star
  DefaultNs = default
  MaxCalls = 4
  GrantWorlds <- MCGrantWorlds
  Strategies = {"SelfSubjectAccessReview", "SelfSubjectRulesReview"}
SPECIFICATION Spec
INVARIANT TypeOK
PROPERTY ImplementsOracle
INVARIANT OneReviewPerNamespace
