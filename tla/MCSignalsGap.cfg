CONSTANTS
  c1 = c1
  c2 = c2
  c3 = c3
  r1 = r1
  w1 = w1
  w2 = w2
  b1 = b1
  m1 = m1
  s1 = s1
  p1 = p1
  SignalKeys = {c1, c2}
  Private = {}
  Replicas = {r1}
  Writers = {w1, w2}
  Cancellable = {}
  Subscribers = {}
  Commanders = {}
  Sockets = {s1}
  Pollers = {}
  Home <- OneReplica
  Backlog = 2
  Capacity = 2
  PageLimit = 2
  MaxSignals = 2
SPECIFICATION SignalsSpec
INVARIANTS NoSilentGap
