CONSTANTS
  u1 = u1 k0 = k0 k1 = k1 k2 = k2 k3 = k3 g1 = g1 g2 = g2 r1 = r1 r2 = r2
  w1 = w1 w2 = w2 n1 = n1 n2 = n2
  h1 = h1 h2 = h2 x1 = x1 x2 = x2 y1 = y1 y2 = y2 o1 = o1
  Users = {u1}
  Host = u1
  CommandIds = {k0, k1, k2, k3}
  Transactions = {g1, g2}
  IsVod = FALSE
  MaxMembers = 2
  MaxPublishers = 1
  CommandHistoryLimit = 1
  GiftHistoryLimit = 1
  Replicas = {r1, r2}
  Tasks = {w1, w2}
  Home <- TwoHomes
  Creation = k0
  CommandOf <- Gifts
  Sends <- SharedKey
  Notified = {r1}
  MaxAttempts = 2
  Nobody = Nobody
  Unbounded = 100
  Calls = {h1, h2}
  Remotes = {x1, x2}
  MaxSessions = 1
  MaxLosses = 1
  People = {x1, x2}
  Tracks = {y1, y2}
  Ssrcs = {o1}
  Subs = {o1}
  Outs = {o1}
  Sinks = {o1}
  MaxTracks = 2
  MaxSubs = 1
  MaxIngresses = 1
  MaxTasks = 1
  Nodes = {n1, n2}
  MaxGeneration = 3
  LastJob = 2
  Sessions = {"s1", "s2"}
  Leavers = {"s1"}
  Labels = {"room", "other"}
  RoomLabel = "room"
  StreamIds = {0, 2}
  Packets <- MCPackets
  MaxNumber = 1
  MediaNodes = {1, 2}
  Scenes <- PlacementScenes
  Rooms = {"a", "b"}
  Requests = {"p", "q"}
  Limit = 1
  StaleAfter = 1
SPECIFICATION Spec
INVARIANTS StoreAgrees AnswersAreDurable ResourcesAgree PlacementsAgree
   RoomIsSound 
PROPERTIES ImplementsLog DrainedGetsNoRooms 
