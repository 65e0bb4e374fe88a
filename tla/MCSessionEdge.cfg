\* A site without any instance of an edge that is frequent elsewhere.
SPECIFICATION Spec
CONSTANTS
  Client <- MCClient
  World <- ApartWorld
  K = 3
INVARIANT SitesSurvive
CHECK_DEADLOCK FALSE
