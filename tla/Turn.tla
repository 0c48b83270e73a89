-------------------------------- MODULE Turn --------------------------------
(***************************************************************************)
(* The TURN server: relay allocations, their permissions and channels, and *)
(* the tasks that relay what peers send.                                   *)
(*                                                                         *)
(* One loop serves all UDP clients and the expiry of allocations; every    *)
(* TCP or TLS connection has a task of its own.  The allocation table is   *)
(* locked for one look-up at a time: Allocate gives the lock up while it   *)
(* binds the relay socket, and a relay task takes it for each datagram.    *)
(* A lifetime is kept as what is left of it, in units of a permission's.   *)
(***************************************************************************)
EXTENDS Integers, FiniteSets, FiniteSetsExt

CONSTANTS
  UdpClients, TcpClients,  \* 5-tuples of clients, by transport
  IpOf,                    \* the address of each client
  Users, Expired,          \* time-limited credentials, and those past it
  Peers,                   \* peer endpoints [ip, family, kind]
  Channels,                \* channel numbers of the valid range
  RelayPorts,              \* size of the relay port range
  PortWidth,               \* 2^16: the counter of ports wraps here
  MaxAllocations, MaxPerIp,
  MaxPermissions, MaxChannels,
  AllowPrivatePeers,
  NonceLifetime,
  MaxIds                   \* model bound: allocations told apart at once

PermissionLifetime == 1
ChannelLifetime == 2
DefaultLifetime == 2
MaximumLifetime == 12

Clients == UdpClients \cup TcpClients
Ips == {p.ip : p \in Peers}
Ports == 0 .. RelayPorts - 1

ASSUME TurnBounds ==
  /\ UdpClients \cap TcpClients = {}
  /\ RelayPorts \in Nat \ {0} /\ PortWidth \in Nat \ {0}
  /\ MaxAllocations \in 1 .. RelayPorts \* valid_relay_port_range
  /\ MaxPerIp \in 1 .. MaxAllocations
  /\ NonceLifetime \in Nat \ {0} /\ MaxIds \in Nat

VARIABLES
  nonce,      \* per client: what is left of its nonce's lifetime
  table,      \* per client: a set of at most one allocation
  pending,    \* per client: the Allocate between its two looks at the table
  tasks,      \* relay tasks, with the socket each owns
  nextPort,   \* next_relay_port, relative to relay_port_min
  granted,    \* history: <<id, ip>> asked for in the last PermissionLifetime
  leaks,      \* history: <<id, ip>> relayed without having been asked for
  crowded,    \* history: two Allocates were between their looks at once
  broken      \* history: allocations whose socket failed

turnVars == <<nonce, table, pending, tasks, nextPort, granted, leaks,
              crowded, broken>>

TurnInit ==
  /\ nonce = [c \in Clients |-> 0]
  /\ table = [c \in Clients |-> {}] /\ pending = [c \in Clients |-> {}]
  /\ tasks = {} /\ nextPort = 0
  /\ granted = {} /\ leaks = {} /\ crowded = FALSE /\ broken = {}

-----------------------------------------------------------------------------
(* Authentication: a valid nonce, issued to the client's own address.      *)

\* NonceManager::validate, for a client that returns the nonce it was given.
NonceIsFresh(c) == nonce[c] > 0

\* authenticate and credential_key.
Authenticates(c, u) == NonceIsFresh(c) /\ u \notin Expired

\* authenticate fails: challenge_response hands out a nonce.
Challenge(c) ==
  /\ \E u \in Users : ~Authenticates(c, u)
  /\ nonce' = [nonce EXCEPT ![c] = NonceLifetime]
  /\ UNCHANGED <<table, pending, tasks, nextPort, granted,
                 leaks, crowded, broken>>

-----------------------------------------------------------------------------
(* Allocate.                                                               *)

Allocated == {c \in Clients : table[c] # {}}

\* The loop serves one UDP client at a time; a connection, one request.
Free(c) == IF c \in UdpClients THEN \A d \in UdpClients : pending[d] = {}
           ELSE pending[c] = {}

QuotaReached(c) ==
  \/ Cardinality(Allocated) >= MaxAllocations
  \/ Cardinality({d \in Allocated : IpOf[d] = IpOf[c]}) >= MaxPerIp

\* The relay sockets, by who holds them: a relay task, an entry of the table
\* or an Allocate.  External: each keeps its port bound.
Sockets == {[id |-> t.id, port |-> t.port] : t \in tasks} \cup
           UNION {{[id |-> a.id, port |-> a.port] :
                     a \in table[c] \cup pending[c]} : c \in Clients}
Bound == {s.port : s \in Sockets}
Unused == 1 .. MaxIds \ {s.id : s \in Sockets}

\* bind_relay_socket tries as many values of the counter as there are ports.
Candidate(i) == ((nextPort + i) % PortWidth) % RelayPorts

Tries == {i \in Ports : Candidate(i) \notin Bound}

\* handle_allocate up to the socket.  (A repetition of the request that made
\* the allocation is answered as it was, any other is refused: 437.)
StartAllocate(c, u) ==
  /\ Authenticates(c, u) /\ Free(c)
  /\ table[c] = {} /\ ~QuotaReached(c)
  /\ Unused # {} /\ Tries # {}
  /\ LET i == Min(Tries)
         id == Min(Unused) IN
       /\ nextPort' = (nextPort + i + 1) % PortWidth
       /\ pending' = [pending EXCEPT ![c] =
                        {[id |-> id, port |-> Candidate(i), user |-> u]}]
       /\ granted' = {g \in granted : g[1] # id}
       /\ broken' = broken \ {id}
  /\ crowded' = (crowded \/ \E d \in Clients \ {c} : pending[d] # {})
  /\ UNCHANGED <<nonce, table, tasks, leaks>>

\* The port range is exhausted: no answer.
NoPort(c, u) ==
  /\ Authenticates(c, u) /\ Free(c)
  /\ table[c] = {} /\ ~QuotaReached(c) /\ Tries = {}
  /\ nextPort' = (nextPort + RelayPorts) % PortWidth
  /\ UNCHANGED <<nonce, table, pending, tasks, granted, leaks,
                 crowded, broken>>

\* The second look.  A client's requests are served in turn, so its entry is
\* still free, and 437 is never answered here; the quota is not looked at.
FinishAllocate(c) ==
  \E p \in pending[c] :
    /\ pending' = [pending EXCEPT ![c] = {}]
    /\ table' = [table EXCEPT ![c] =
         {[id |-> p.id, user |-> p.user, port |-> p.port,
           expires |-> DefaultLifetime,
           perms |-> [a \in Ips |-> 0],
           chans |-> [n \in Channels |-> {}]]}]
    /\ tasks' = tasks \cup {[client |-> c, id |-> p.id, port |-> p.port,
                             cancelled |-> FALSE, gone |-> FALSE]}
    /\ UNCHANGED <<nonce, nextPort, granted, leaks, crowded,
                   broken>>

-----------------------------------------------------------------------------
(* Requests on an allocation.                                              *)

Cancel(ids) == tasks' = {IF t.id \in ids THEN [t EXCEPT !.cancelled = TRUE]
                         ELSE t : t \in tasks}

\* handle_refresh: a lifetime of 0 removes, any other starts now.
Refresh(c, u, lifetime) ==
  /\ Authenticates(c, u) /\ Free(c)
  /\ \E a \in table[c] :
       /\ a.user = u
       /\ IF lifetime = 0
          THEN table' = [table EXCEPT ![c] = {}] /\ Cancel({a.id})
          ELSE /\ table' = [table EXCEPT ![c] = {[a EXCEPT !.expires =
                              Min({lifetime, MaximumLifetime})]}]
               /\ UNCHANGED tasks
  /\ UNCHANGED <<nonce, pending, nextPort, granted, leaks,
                 crowded, broken>>

\* expire_children: perms and chans hold what has not expired, perms as
\* what is left per address (0: no permission), so that the time of TurnTick
\* expires them.  The code drops the expired ones when it next looks.
Permitted(a) == {i \in Ips : a.perms[i] > 0}

\* safe_peer: no multicast, no address of the server, and private addresses
\* only where they are allowed.
SafePeer(p) ==
  \/ p.kind = "public"
  \/ p.kind = "private" /\ AllowPrivatePeers

\* create_permissions: all of them or none.
CanPermit(a, S) ==
  /\ \A p \in S : p.family = "v4"
  /\ Cardinality(Permitted(a) \cup {p.ip : p \in S}) <= MaxPermissions
WithPermissions(a, S) ==
  [a EXCEPT !.perms = [i \in Ips |-> IF \E p \in S : p.ip = i
                                     THEN PermissionLifetime ELSE @[i]]]
Grants(a, S) == granted' = granted \cup {<<a.id, p.ip>> : p \in S}

\* handle_create_permission.
CreatePermission(c, u, S) ==
  /\ Authenticates(c, u) /\ Free(c)
  /\ \A p \in S : SafePeer(p)
  /\ \E a \in table[c] :
       /\ a.user = u /\ CanPermit(a, S)
       /\ table' = [table EXCEPT ![c] = {WithPermissions(a, S)}]
       /\ Grants(a, S)
  /\ UNCHANGED <<nonce, pending, tasks, nextPort, leaks, crowded, broken>>

Conflict(a, n, p) ==
  \/ \E b \in a.chans[n] : b.peer # p
  \/ \E m \in Channels \ {n} : \E b \in a.chans[m] : b.peer = p

CanBind(a, n, p) ==
  /\ ~Conflict(a, n, p)
  /\ Cardinality({m \in Channels : a.chans[m] # {}} \cup {n}) <= MaxChannels
  /\ CanPermit(a, {p})

\* handle_channel_bind and bind_channel, which also installs a permission.
ChannelBind(c, u, n, p) ==
  /\ Authenticates(c, u) /\ Free(c) /\ SafePeer(p)
  /\ \E a \in table[c] :
       /\ a.user = u /\ CanBind(a, n, p)
       /\ table' = [table EXCEPT ![c] =
             {[WithPermissions(a, {p}) EXCEPT !.chans[n] =
                 {[peer |-> p, expires |-> ChannelLifetime]}]}]
       /\ Grants(a, {p})
  /\ UNCHANGED <<nonce, pending, tasks, nextPort, leaks, crowded, broken>>

-----------------------------------------------------------------------------
(* Datagrams.  They change no state but the history.                      *)

\* Something is relayed between the client of a and the address ip.
Relays(a, ip) == leaks' = leaks \cup ({<<a.id, ip>>} \ granted)

\* peer_route: the channel of the peer, or else a Data indication.
RouteOf(a, p) == {n \in Channels : \E b \in a.chans[n] : b.peer = p}

\* relay_peer_datagrams looks its client up by the client's address, or by
\* its connection: an old task may find the client's next allocation.
Obtained(t) == IF t.gone THEN {} ELSE table[t.client]

\* A peer's datagram arrives at the socket of a task that has not yet seen
\* its cancellation.
PeerDatagram(t, p) ==
  /\ p.family = "v4"
  /\ \E a \in Obtained(t) : p.ip \in Permitted(a) /\ Relays(a, p.ip)
  /\ UNCHANGED <<nonce, table, pending, tasks, nextPort, granted, crowded,
                 broken>>

\* handle_send_indication: the data leaves from the relay socket.
SendIndication(c, p) ==
  /\ Free(c) /\ SafePeer(p) /\ p.family = "v4"
  /\ \E a \in table[c] : p.ip \in Permitted(a) /\ Relays(a, p.ip)
  /\ UNCHANGED <<nonce, table, pending, tasks, nextPort, granted, crowded,
                 broken>>

\* handle_channel_data and channel_peer: the binding outlives the permission
\* it came with.
ChannelData(c, n) ==
  /\ Free(c)
  /\ \E a \in table[c] : \E b \in a.chans[n] :
       b.peer.ip \in Permitted(a) /\ Relays(a, b.peer.ip)
  /\ UNCHANGED <<nonce, table, pending, tasks, nextPort, granted, crowded,
                 broken>>

-----------------------------------------------------------------------------
(* The end of allocations.                                                 *)

\* The relay task sees its cancellation and drops the socket.
TaskEnds(t) ==
  /\ t.cancelled /\ tasks' = tasks \ {t}
  /\ UNCHANGED <<nonce, table, pending, nextPort, granted,
                 leaks, crowded, broken>>

\* recv_from fails: the task ends, the allocation and its socket remain.
ReceiveFails(t) ==
  /\ tasks' = tasks \ {t} /\ broken' = broken \cup {t.id}
  /\ UNCHANGED <<nonce, table, pending, nextPort, granted,
                 leaks, crowded>>

\* Mutant of RemoveExpired: the relay tasks are not told.
RemoveExpiredOnly ==
  LET E == {c \in Clients : \E a \in table[c] : a.expires = 0} IN
  /\ E # {} /\ \A d \in UdpClients : pending[d] = {}
  /\ table' = [c \in Clients |-> IF c \in E THEN {} ELSE table[c]]
  /\ UNCHANGED <<nonce, pending, tasks, nextPort, granted,
                 leaks, crowded, broken>>

\* Mutant of RemoveExpired: connections are left to their end.
RemoveExpiredUdp ==
  LET E == {c \in UdpClients : \E a \in table[c] : a.expires = 0} IN
  /\ E # {} /\ \A d \in UdpClients : pending[d] = {}
  /\ table' = [c \in Clients |-> IF c \in E THEN {} ELSE table[c]]
  /\ Cancel({a.id : a \in UNION {table[c] : c \in E}})
  /\ UNCHANGED <<nonce, pending, nextPort, granted, leaks, crowded, broken>>

\* remove_expired, once a second, by the UDP loop.
RemoveExpired ==
  LET E == {c \in Clients : \E a \in table[c] : a.expires = 0} IN
  /\ E # {} /\ \A d \in UdpClients : pending[d] = {}
  /\ table' = [c \in Clients |-> IF c \in E THEN {} ELSE table[c]]
  /\ Cancel({a.id : a \in UNION {table[c] : c \in E}})
  /\ UNCHANGED <<nonce, pending, nextPort, granted, leaks,
                 crowded, broken>>

\* handle_control_stream at the end of the connection; the next one of this
\* client is another to the tasks that are left.
Disconnect(c) ==
  /\ c \in TcpClients /\ pending[c] = {}
  /\ table' = [table EXCEPT ![c] = {}]
  /\ tasks' = {IF t.client # c THEN t
               ELSE [t EXCEPT !.cancelled = TRUE, !.gone = TRUE] : t \in tasks}
  /\ UNCHANGED <<nonce, pending, nextPort, granted, leaks, crowded, broken>>

\* A unit of time passes.
Less(n) == IF n > 0 THEN n - 1 ELSE 0
TurnTick ==
  /\ nonce' = [c \in Clients |-> Less(nonce[c])]
  /\ table' = [c \in Clients |->
       {[a EXCEPT !.expires = Less(@),
                  !.perms = [i \in Ips |-> Less(@[i])],
                  !.chans = [n \in Channels |->
                    {[b EXCEPT !.expires = @ - 1] :
                       b \in {d \in @[n] : d.expires > 1}}]] :
          a \in table[c]}]
  /\ granted' = {}
  /\ UNCHANGED <<pending, tasks, nextPort, leaks, crowded, broken>>

TurnNext ==
  \/ \E c \in Clients :
       \/ Challenge(c) \/ FinishAllocate(c) \/ Disconnect(c)
       \/ \E u \in Users :
            \/ StartAllocate(c, u) \/ NoPort(c, u)
            \/ \E l \in {0, DefaultLifetime} : Refresh(c, u, l)
            \/ \E p \in Peers : CreatePermission(c, u, {p})
            \/ \E n \in Channels, p \in Peers : ChannelBind(c, u, n, p)
       \/ \E p \in Peers : SendIndication(c, p)
       \/ \E n \in Channels : ChannelData(c, n)
  \/ \E t \in tasks :
       \/ TaskEnds(t) \/ ReceiveFails(t)
       \/ \E p \in Peers : PeerDatagram(t, p)
  \/ RemoveExpired
  \/ TurnTick

\* The executor, the clock, and select!, which chooses at random between the
\* next datagram and the maintenance interval.
TurnFairness ==
  /\ WF_turnVars(RemoveExpired) /\ WF_turnVars(TurnTick)
  /\ \A c \in Clients : WF_turnVars(FinishAllocate(c))
  /\ \A i \in 1 .. MaxIds :
       WF_turnVars(\E t \in tasks : t.id = i /\ TaskEnds(t))

TurnSpec == TurnInit /\ [][TurnNext]_turnVars /\ TurnFairness

-----------------------------------------------------------------------------
(* Properties.                                                             *)

TurnTypeOK ==
  /\ nonce \in [Clients -> 0 .. NonceLifetime]
  /\ \A c \in Clients :
       Cardinality(table[c]) <= 1 /\ Cardinality(pending[c]) <= 1
  /\ \A t \in tasks : t.port \in Ports
  /\ nextPort \in 0 .. PortWidth - 1

\* What is relayed was permitted: no datagram passes between a client and a
\* peer's address unless the client asked for it on the allocation that
\* relays it, and less than the lifetime of a permission ago.
RelayedIsPermitted == leaks = {}

\* Channels and peers correspond one to one among the bindings in force, so
\* that peer_route has a single answer.
ChannelsAreInjective ==
  \A c \in Clients : \A a \in table[c] : \A p \in Peers :
    Cardinality(RouteOf(a, p)) <= 1

\* docs/en/RUNBOOK.md: a relay port is never reused while it is in use: two
\* holders of one port hold the same socket.
PortsAreExclusive ==
  \A s, t \in Sockets : s.port = t.port => s = t

\* Relay tasks and allocations end together: an allocation keeps the task
\* that serves its port, unless its socket failed, and a task without its
\* allocation has been told to stop, whether the client refreshed it away,
\* let it expire or closed the connection.
TasksServeAllocations ==
  /\ \A c \in Clients : \A a \in table[c] :
       \/ a.id \in broken
       \/ \E t \in tasks : /\ t.client = c /\ t.id = a.id /\ t.port = a.port
                           /\ ~t.cancelled
  /\ \A t \in tasks : t.cancelled \/ \E a \in table[t.client] : a.id = t.id

\* The quotas hold, as long as no two Allocates overlap.
QuotaHolds ==
  ~crowded =>
    /\ Cardinality(Allocated) <= MaxAllocations
    /\ \A c \in Clients :
         Cardinality({d \in Allocated : IpOf[d] = IpOf[c]}) <= MaxPerIp

\* No port stays bound for ever without an allocation that is within its
\* lifetime: one that is past it is refreshed, or ends and frees the port.
ExpiredPortsAreFreed ==
  \A i \in 1 .. MaxIds :
    []<>(\/ \A s \in Sockets : s.id # i
         \/ \E c \in Clients : \E a \in table[c] : a.id = i /\ a.expires > 0)

\* Allocations, relay tasks, ports, channels and permissions agree at every
\* moment, and only what was permitted is relayed.
AllocationsAgree ==
  /\ TurnTypeOK /\ RelayedIsPermitted /\ ChannelsAreInjective
  /\ PortsAreExclusive /\ TasksServeAllocations /\ QuotaHolds
=============================================================================
