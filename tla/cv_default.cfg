\* A field whose only change is a new default or a raised minLength, as in the e2e tests.
CONSTANTS
  e1 = e1
  e2 = e2
  f1 = f1
  f2 = f2
  d1 = d1
  a = a
  Enums = {e1, e2}
  Fields = {f1, f2}
  Defaults = {d1}
  MinLengths = {5, 10}
  PropNames = {a}
  Items = Items
  NoDefault = NoDefault
  NoItems = NoItems
  NoField = NoField
  NumVersions = 1
  SchemaTrees <- RootOnly
  ChainOrders <- MCOneOrder
SPECIFICATION Spec
INVARIANT E2EErrorsCited
