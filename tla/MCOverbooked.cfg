CONSTANTS
  MediaNodes = {1, 2}
  Scenes <- MCScenes
  Rooms = {"a", "b"}
  Requests = {"p", "q"}
  Limit = 1
  StaleAfter = 1
SPECIFICATION PlacementSpec
INVARIANTS
  NeverOverbooked
