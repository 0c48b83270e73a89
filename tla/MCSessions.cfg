CONSTANTS
  s1 = s1 s2 = s2 m1 = m1 a1 = a1 a2 = a2
  u1 = u1 t1 = t1 alice = alice bob = bob x = x y = y
  SessionIds = {s1, s2}
  Participants = {m1}
  Ufrags = {1, 2}
  Populations <- MCPopulations
  Remotes = {a1, a2}
  Capacity = 2
  MaxPairs = 1
  ConsentTimeout = 1
  FailureTimeout = 2
  MaxRooms = 2
  UdpClients = {u1}
  TcpClients = {t1}
  IpOf <- OneAddress
  Users = {alice, bob}
  Expired = {bob}
  Peers <- PeersDef
  Channels = {1, 2}
  RelayPorts = 2
  PortWidth = 3
  MaxAllocations = 2
  MaxPerIp = 1
  MaxPermissions = 1
  MaxChannels = 2
  AllowPrivatePeers = FALSE
  NonceLifetime = 1
  MaxIds = 2
SPECIFICATION Spec
INVARIANTS SessionsAreSound AllocationsAgree
PROPERTIES SilenceFails 
CHECK_DEADLOCK FALSE
