\* Concurrent callers of one SelfSubjectRulesReview validator: the mutex against duplicate reviews, refinement of the atomic model.
CONSTANTS
  ns1 = ns1
  default = default
  cm = cm
  crd = crd
  create = create
  delete = delete
  g1 = g1
  g2 = g2
  g3 = g3
  None = None
  Callers = {g1, g2, g3}
  Namespaces = {ns1, default}
  NoNamespace = NoNamespace
  AllNamespaces = AllNamespaces
  Resources = {cm, crd}
  ClusterScoped = {crd}
  Verbs = {create, delete}
  Star = Star
  DefaultNs = default
  MaxCalls = 3
  GrantWorlds <- MCGrantWorlds
SPECIFICATION Spec
INVARIANT TypeOK
INVARIANT OneReviewPerNamespace
PROPERTY ImplementsAtomic
