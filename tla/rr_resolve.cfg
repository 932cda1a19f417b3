CONSTANTS
  ns1 = ns1
  ns2 = ns2
  admin = admin
  r1 = r1
  r2 = r2
  Namespaces = {ns1, ns2}
  RoleNames = {admin}
  RuleLists = {r1, r2}
  Absent = Absent
  MaxCalls = 2
  Resources <- MCResources
SPECIFICATION Spec
INVARIANT TypeOK
INVARIANT ResolvedRulesAreReferents
