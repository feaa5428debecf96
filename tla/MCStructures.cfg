SPECIFICATION Spec
CONSTANTS
  QUEUE_SIZE = 3
  Chars = {a, b}
  NoChar = star
  Cells = {l1, l2, l3}
  TableCells = {h1, h2, h3}
  TreeCells = {t1, t2, t3, t4}
  NULL = NULL
  Data = {x, y}
  NoData = none
  HTSIZE = 2
  TreeKeys = {1, 2, 3, 4}
  Values = {1, 2, 3, 4, 5}
  MAXSTACK = 5
VIEW View
INVARIANTS PointersAreSound
PROPERTIES ImplementsQueue ImplementsList ImplementsContainers
