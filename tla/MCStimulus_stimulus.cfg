SPECIFICATION FairSpec
CONSTANTS
  outer = outer
  inner = inner
  button = button
  i = i
  j = j
  Page = page
  Out = out
  NoAttr = none
  Element = {outer, inner, button}
  Identifier = {i, j}
  Spots <- SpotsIn
  Lists <- ListsOf
  Acting <- ActingIn
  MaxRecords = 2
INVARIANTS
  TypeOK
  OneLife
  RefsCount
  InSync
  BoundRight
  InvokesInnermost
PROPERTIES
  DetachedDisconnects
