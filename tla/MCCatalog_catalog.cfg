\* Two clients edit one list, and what is filed under it, from lists and forms that
\* are out of date; any of the four kinds.
SPECIFICATION Spec
CONSTANTS
  NULL = NULL
  a = a
  b = b
  ab = ab
  Kinds = {"priorities", "labels", "domains", "teams"}
  Clients = {c1, c2}
  Names = {a, b, ab}
  Parts <- MCParts
  Seeded <- MCSeeded
  MaxRows = 3
  MaxChanges = 5
  MaxDrags = 2
SYMMETRY Symmetry
CHECK_DEADLOCK FALSE
INVARIANTS HoldersKeepRows OrderAsDropped
PROPERTIES ReassignKeepsHolding SaveKeepsUnedited
