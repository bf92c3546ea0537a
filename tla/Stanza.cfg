SPECIFICATION Spec
CONSTANTS
  Nodes = {n1, n2, n3, n4, n5}
  Null = null
  MaxDepth = 4
INVARIANTS TypeOK ListsAgree RefsExact NothingElseLeaks ParserKeepsLevel
PROPERTY TreeKept
SYMMETRY MCSymmetry
