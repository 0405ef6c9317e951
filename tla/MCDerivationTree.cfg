SPECIFICATION Spec
CONSTANTS
  Node = {n1, n2, n3, n4}
  a = a
  b = b
  Label = {a, b}
  none = none
  SliceLabel = slice
  HookinPath <- MCHookinPath
  MaxChildren = 2
INVARIANTS TypeOK HashIsCurrent SizeIsCurrent ParentsAgree ReplacesThatNode SplitsAtNode
CONSTRAINT Small
SYMMETRY Symmetry
