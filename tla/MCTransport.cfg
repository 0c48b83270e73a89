CONSTANTS
  u1 = u1 u2 = u2 u3 = u3 k1 = k1 k2 = k2 k3 = k3 g1 = g1 g2 = g2 e1 = e1 e2 = e2
  c1 = c1 c2 = c2 c3 = c3 r1 = r1 w1 = w1 s1 = s1 p1 = p1
  h1 = h1 h2 = h2 x1 = x1 x2 = x2 y1 = y1 y2 = y2 o1 = o1 o2 = o2
  Users = {u1, u2, u3}
  Host = u1
  CommandIds = {k1, k2, k3}
  Transactions = {g1, g2}
  IsVod = FALSE
  MaxMembers = 2
  MaxPublishers = 1
  CommandHistoryLimit = 2
  GiftHistoryLimit = 1
  Creation = k1
  MaxEvents = 4
  CommandKeys = {k1, k2, k3}
  EffectIds = {e1, e2}
  EffectLimit = 1
  KeepFiles = 2
  MaxRevision = 4
  SignalKeys = {c1, c2, c3}
  Private = {c3}
  Replicas = {r1}
  Writers = {w1}
  Cancellable = {}
  Subscribers = {}
  Commanders = {}
  Sockets = {s1}
  Pollers = {p1}
  Home <- OneReplica
  Backlog = 2
  Capacity = 1
  PageLimit = 2
  MaxSignals = 3
  Handlers = {h1, h2}
  Subscriptions = {x1, x2}
  Specs = {o1, o2}
  Keys = {y1, y2}
  Wishes <- MCWishes
  Quota = 1
  MaxFaults = 1
  Begins = {"empty", "published", "shared"}
  TsnMod = 16
  InitialTsn = 15
  PeerTsn = 15
  Scenarios <- ScenariosDef
  MaximumChannels = 1
  MaximumParts = 2
  MaxPendingTsn = 2
  MaxOutstanding = 2
  MaxRetransmissions = 1
  PartialRetransmissions = 0
  Fragments <- FragmentsDef
  Rate = 3
  Ticks = 2
  MaxDatagram = 4
  MaxClock = 6
  Modulus = 6
  Window = 2
  MaxIndex = 9
  MaxControl = 4
  CachePackets = 1
  MaxSent = 3
  Encodings = {0, 1}
  Origins = {0, 5}
  Wrap = 8
  FirstStep = 1
  StepLimit = 2
  MaxJump = 2
  MaxSilence = 1
  Numbers = {0, 1}
  Options <- MCOptions
  Initial = 5
  Minimum = 2
  Maximum = 6
  HistoryLength = 2
  HistoryAge = 1
  Hold = 2
  Deliveries = {3, 8}
  Compounds <- MCCompounds
  Paddings = {4, 8}
SPECIFICATION Spec
INVARIANTS HistoryIsRemembered FilesAreCurrent SocketsMissNothing
   MessagesAreKept RateIsBounded IndicesAreUsedOnce
  LayersAreAffordable DatagramsAreUnderstood
PROPERTIES TimestampsAdvance UpgradesAreEarned
