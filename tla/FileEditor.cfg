SPECIFICATION Spec
CONSTANTS
  e1 = e1
  e2 = e2
  Editors <- TwoEditors
  Names = {n}
  Home = home
  Mounts = {home, elsewhere}
  NoMount = NoMount
  Untitled = Untitled
  MaxText = 1
SYMMETRY Perms
INVARIANTS WholeFiles ViewIsFile ListIsStick
PROPERTIES ActsOnShown
