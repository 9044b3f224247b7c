SPECIFICATION Spec
CONSTANTS
  v1 = v1
  v2 = v2
  e1 = e1
  e2 = e2
  Values = {v1, v2}
  Externals = {e1, e2}
  None = None
  MaxFrames = 3
  Behaviours = {}
SYMMETRY Symmetry
INVARIANTS
  TypeOK
  ExternalsKept
  OwnHandles
PROPERTIES
  ExternalDelivered
  AllReleased
