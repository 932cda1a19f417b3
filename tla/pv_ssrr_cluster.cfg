\* SelfSubjectRulesReview strategy when the caller administers the "default" namespace: a cluster-scoped check is matched against default's rules.
CONSTANTS
  ns1 = ns1
  default = default
  cm = cm
  crd = crd
  create = create
  delete = delete
  Namespaces = {ns1, default}
  NoNamespace = NoNamespace
  AllNamespaces = AllNamespaces
  Resources = {cm, crd}
  ClusterScoped = {crd}
  Verbs = {create, delete}
  Star = Star
  DefaultNs = default
  MaxCalls = 4
  GrantWorlds <- MCDefaultAdminWorlds
  Strategies = {"SelfSubjectRulesReview"}
SPECIFICATION Spec
PROPERTY ImplementsOracle
