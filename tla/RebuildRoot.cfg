SPECIFICATION Spec
CONSTANTS
  Paths = {"/", "/a", "/a/b", "/a/c", "/d", "/d/e"}
  Above <- Tree
  Slash = "/"
  Protected = {"/d/e"}
INVARIANTS
  TypeOK
  BuiltFromNothing
  LockoutTakesDeath
PROPERTIES
  PreciousSurvive
  ProtectedSurvive
