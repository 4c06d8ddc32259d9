SPECIFICATION Spec
CONSTANTS
  ka = ka  kb = kb  ko = ko
  IntKey = {1, 2, 3, 4}
  ObjKey = {ka, ko}
  StrKey = {ka}
  Hash <- MCHash
  Val = {1, 2}
  NIL = NIL
  MAXBITS = 3
  MAX_INT = 4
  NewSizes = {0, 2}
  Traversals = TRUE
  ListSizes = {3}
INVARIANTS MainInvariant EntriesFound RehashFits LengthIsBorder NextFindsKey IsMap
PROPERTIES Traverses
