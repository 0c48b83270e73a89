CONSTANTS
  h1 = h1 h2 = h2 live = live vod = vod
  c1 = c1 c2 = c2 r1 = r1 w1 = w1 b1 = b1 m1 = m1 s1 = s1
  Handlers = {h1, h2}
  Resources = {live, vod}
  Vod = {vod}
  MaxGeneration = 2
  Slots = 2
  MaxJobs = 2
  LastJob = 3
  SignalKeys = {c1, c2}
  Private = {}
  Replicas = {r1}
  Writers = {w1}
  Cancellable = {w1}
  Subscribers = {b1}
  Commanders = {m1}
  Sockets = {s1}
  Pollers = {}
  Home <- OneReplica
  Backlog = 1
  Capacity = 1
  PageLimit = 2
  MaxSignals = 2
SPECIFICATION Spec
INVARIANTS TasksAreAccountedFor
PROPERTIES NoGenerationRevived ReplacedStops EventuallySent
