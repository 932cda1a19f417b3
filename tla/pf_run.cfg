CONSTANTS
  ns1 = ns1
  default = default
  cm = cm
  crd = crd
  cr = cr
  Namespaces = {ns1, default}
  NoNamespace = NoNamespace
  AllNamespaces = AllNamespaces
  Resources = {cm, crd, cr}
  ClusterScoped = {crd}
  Verbs = {"create", "update", "delete"}
  Star = Star
  DefaultNs = default
  MaxCalls = 4
  MaxRuns = 2
  Unmapped = {cr}
  GrantWorlds <- MCGrantWorlds
  ChangeGraphs <- MCChangeGraphs
  ConfigInputs <- MCConfigInputs
SPECIFICATION Spec
INVARIANT TypeOK
INVARIANT PreflightSound
INVARIANT EveryUnauthorizedCheckReported
