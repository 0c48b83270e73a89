--------------------------- MODULE MediaSessions ---------------------------
(***************************************************************************)
(* The WebRTC sessions of one media node                                   *)
(* (crates/services/media-node, crates/webrtc/{rtc-session,ice-lite,       *)
(* dtls-adapter}).                                                         *)
(*                                                                         *)
(* A session is provisioned, restarted and deleted by HTTP handlers, and   *)
(* driven by one task that reads the shared UDP socket and one that runs   *)
(* the timers.  They share five tables, each behind a lock of its own: the *)
(* sessions, their two kinds of alias (the local ICE username fragments    *)
(* and the remote addresses), the DTLS state machines, the data-channel    *)
(* associations, and the rooms of the SFU.  No handler holds more than it  *)
(* is using, so that a step here is what one critical section does.        *)
(*                                                                         *)
(* Identifiers and username fragments are drawn at random by the API       *)
(* server and are not used twice.  The peers, and what OpenSSL makes of    *)
(* their records, are external.                                            *)
(***************************************************************************)
EXTENDS Naturals, FiniteSets, FiniteSetsExt

CONSTANTS
  SessionIds,      \* session identifiers
  Participants,    \* participants of the one room
  Ufrags,          \* local ICE username fragments, numbered
  Remotes,         \* addresses of peers
  Populations,     \* the sessions asked for and their peers, one of which
                   \* is chosen: where each sends from, whether it shakes
                   \* hands, whether it checks every second,
                   \* nominating with each check
  Capacity,        \* FLUVORA_MEDIA_MAX_SESSIONS
  MaxPairs,        \* max_candidate_pairs
  ConsentTimeout,  \* consent_timeout, in seconds of the timer
  FailureTimeout,  \* failure_timeout
  MaxRooms         \* bound: times the room is created anew

VARIABLES
  registry,  \* SessionRegistry.sessions: the identifiers it holds
  session,   \* the Session behind each identifier; it outlives its entry
             \* while a task still holds the Arc
  ufrags,    \* local_ufrag_to_session: the owner, if any
  routes,    \* remote_to_session: the owner, if any
  dtls,      \* CryptoRuntime.sessions: the DatagramState of each, if any
  channels,  \* CryptoRuntime.data_channels: the identifiers it holds
  udp,       \* where run_udp is with the datagram it has read, if any
  creating,  \* where provision_session is, for each session
  deleting,  \* where delete_session is, for each session
  restarting,\* the restart_session_ice that is past its lookup, if any
  sfu,       \* the SfuRegistry: the current room, and who is bound in each
  peers,     \* the chosen member of Populations
  spent,     \* the username fragments already drawn
  late,      \* history: sessions touched by a task after their removal
  orphaned,  \* history: sessions bound in a room that had been removed
  disturbed,   \* history: sessions whose ICE state changed before keys
  latest     \* history: the session each participant was last bound to

mediaVars == <<registry, session, ufrags, routes, dtls, channels, udp,
               creating, deleting, restarting, sfu, peers, spent, late,
               orphaned, disturbed, latest>>
tables    == <<registry, ufrags, routes>>
handlers  == <<creating, deleting, restarting>>
history   == <<peers, late, orphaned, disturbed, latest>>

-----------------------------------------------------------------------------
(* Session and Agent.  The pair the agent selected and the tuple the       *)
(* session selected change together and are one field.                     *)

States == {"new", "handshaking", "connected", "disconnected", "failed"}

\* A session around a fresh agent.  No check has been authenticated: age is
\* the set of the seconds since the last one.
NewSession(p) ==
  [owner |-> p, ufrag |-> {}, ice |-> "new", pairs |-> {}, selected |-> {},
   age |-> {}, state |-> "new", srtp |-> FALSE]

\* apply_ice_event for a change of the agent's state, if it is one.
ApplyIceState(s, to) ==
  [s EXCEPT !.ice = to,
            !.state =
     CASE to = s.ice -> @
       [] to = "completed" /\ s.state \in {"new", "disconnected"} ->
            IF s.srtp THEN "connected" ELSE "handshaking"
       [] to \in {"disconnected", "failed"} -> to
       [] OTHER -> @]

\* A check is for this generation of credentials, which has not failed.
Authentic(s, u) == s.ice # "failed" /\ s.ufrag = {u}

\* The agent has room for the pair.
PairFits(s, remote) == remote \in s.pairs \/ Cardinality(s.pairs) < MaxPairs

\* record_valid_pair and transition_after_check: consent is refreshed even
\* when the pair does not fit, but then nothing else changes.
HandleCheck(s, remote, nominated) ==
  LET heard == [s EXCEPT !.age = {0}]
      added == [heard EXCEPT !.pairs = @ \cup {remote},
                             !.selected = IF nominated THEN {remote} ELSE @]
  IN  IF ~PairFits(s, remote) THEN heard
      ELSE ApplyIceState(added, IF added.selected # {} THEN "completed"
                                                       ELSE "connected")

\* Mutant of TickSession: an expired consent only disconnects.
TickSessionDisconnects(s) ==
  IF s.age # {} /\ \E a \in s.age : a >= ConsentTimeout
  THEN ApplyIceState(s, "disconnected") ELSE s

\* Agent::tick and Session::tick.
TickSession(s) ==
  IF \E a \in s.age : a >= FailureTimeout THEN ApplyIceState(s, "failed")
  ELSE IF \E a \in s.age : a >= ConsentTimeout
  THEN ApplyIceState(s, "disconnected") ELSE s

\* Session::restart_ice: a fresh generation that keeps the SRTP keys.
RestartSession(s, u) ==
  [NewSession(s.owner) EXCEPT !.ufrag = {u}, !.srtp = s.srtp]

\* install_dtls_keying_material.
InstallKeys(s) ==
  IF s.state = "handshaking"
  THEN [s EXCEPT !.srtp = TRUE, !.state = "connected"] ELSE s

-----------------------------------------------------------------------------
(* provision_session: the registry, then the room of the SFU.              *)

\* Where a handler is, and the room whose Arc it holds, if any.
At(step) == [at |-> step, room |-> 0]
InRoom(g) == [at |-> "room", room |-> g]

MediaInit ==
  /\ registry = {}
  /\ \E owner \in [SessionIds -> Participants] :
       session = [i \in SessionIds |-> NewSession(owner[i])]
  /\ peers \in Populations
  /\ ufrags = [u \in Ufrags |-> {}]
  /\ routes = [r \in Remotes |-> {}]
  /\ dtls = [i \in SessionIds |-> "none"]
  /\ channels = {}
  /\ udp = {}
  /\ creating = [i \in SessionIds |-> At("none")]
  /\ deleting = [i \in SessionIds |-> At("none")]
  /\ restarting = {}
  /\ sfu = [current |-> 0, created |-> 0,
            bound |-> [g \in 1 .. MaxRooms |-> [p \in Participants |-> {}]]]
  /\ spent = {} /\ late = {} /\ orphaned = {} /\ disturbed = {}
  /\ latest = [p \in Participants |-> {}]

\* The next fragment drawn.
Fresh(u) == u \notin spent /\ u = Min(Ufrags \ spent)

\* SessionRegistry::provision.
Provision(i, u) ==
  /\ i \in DOMAIN peers /\ creating[i].at = "none" /\ Fresh(u)
  /\ ufrags[u] = {} /\ Cardinality(registry) < Capacity
  /\ registry' = registry \cup {i}
  /\ ufrags' = [ufrags EXCEPT ![u] = {i}]
  /\ session' = [session EXCEPT ![i].ufrag = {u}]
  /\ creating' = [creating EXCEPT ![i] = At("provisioned")]
  /\ spent' = spent \cup {u}
  /\ UNCHANGED <<routes, dtls, channels, udp, deleting, restarting, sfu,
                 history>>

\* bind_session, under the lock of the rooms: the room, created if absent.
EnterRoom(i) ==
  /\ creating[i].at = "provisioned"
  /\ sfu.current = 0 => sfu.created < MaxRooms
  /\ sfu' = IF sfu.current # 0 THEN sfu
            ELSE [sfu EXCEPT !.created = @ + 1, !.current = sfu.created + 1]
  /\ creating' = [creating EXCEPT ![i] = InRoom(sfu'.current)]
  /\ UNCHANGED <<tables, session, dtls, channels, udp, deleting, restarting,
                 spent, history>>

\* bind_session, under the lock of the room it entered; 201 Created.
BindSession(i) ==
  LET room == creating[i].room
      p == session[i].owner
  IN  /\ room # 0
      /\ sfu' = [sfu EXCEPT !.bound[room][p] = {i}]
      /\ creating' = [creating EXCEPT ![i] = At("created")]
      /\ latest' = [latest EXCEPT ![p] = {i}]
      /\ late' = IF i \in registry THEN late ELSE late \cup {i}
      /\ orphaned' = IF sfu.current = room THEN orphaned
                     ELSE orphaned \cup {i}
      /\ UNCHANGED <<tables, session, dtls, channels, udp, deleting,
                     restarting, spent, peers, disturbed>>

\* bind_session refuses an identifier that the registry accepted, which
\* removes the session again.
RefuseBinding(i) ==
  /\ creating[i].at = "provisioned"
  /\ registry' = registry \ {i}
  /\ creating' = [creating EXCEPT
       ![i] = At(IF i \in registry THEN "refused" ELSE "created")]
  /\ UNCHANGED <<session, ufrags, routes, dtls, channels, udp, deleting,
                 restarting, sfu, spent, history>>

\* The aliases that SessionRegistry::remove and restart_ice retain.
Without(alias, i) == [a \in DOMAIN alias |-> alias[a] \ {i}]

\* SessionRegistry::remove for it, past the lock of the sessions.
RollBack(i) ==
  /\ creating[i].at = "refused"
  /\ ufrags' = Without(ufrags, i) /\ routes' = Without(routes, i)
  /\ creating' = [creating EXCEPT ![i] = At("created")]
  /\ UNCHANGED <<registry, session, dtls, channels, udp, deleting,
                 restarting, sfu, spent, history>>

-----------------------------------------------------------------------------
(* restart_session_ice.                                                    *)

\* SessionRegistry::restart_ice takes the Arc of the session.
RestartLooksUp(i, u) ==
  /\ restarting = {} /\ i \in registry /\ Fresh(u)
  /\ restarting' = {[id |-> i, ufrag |-> u]}
  /\ spent' = spent \cup {u}
  /\ UNCHANGED <<tables, session, dtls, channels, udp, creating, deleting,
                 sfu, history>>

\* Mutant of Restart: the addresses of the old generation stay routed.
RestartKeepsRoutes(r) ==
  LET i == r.id
  IN  /\ r \in restarting
      /\ ufrags[r.ufrag] \subseteq {i}
      /\ session' = [session EXCEPT ![i] = RestartSession(@, r.ufrag)]
      /\ ufrags' = [Without(ufrags, i) EXCEPT ![r.ufrag] = {i}]
      /\ late' = IF i \in registry THEN late ELSE late \cup {i}
      /\ disturbed' = IF session[i].srtp THEN disturbed
                      ELSE disturbed \cup {i}
      /\ restarting' = {}
      /\ UNCHANGED <<registry, routes, dtls, channels, udp, creating,
                     deleting, sfu, spent, peers, orphaned, latest>>

\* Under the lock of the username fragments, which no check can pass: the
\* new generation, its fragment, and no address routed to it.
Restart(r) ==
  LET i == r.id
  IN  /\ r \in restarting
      /\ ufrags[r.ufrag] \subseteq {i}
      /\ session' = [session EXCEPT ![i] = RestartSession(@, r.ufrag)]
      /\ ufrags' = [Without(ufrags, i) EXCEPT ![r.ufrag] = {i}]
      /\ routes' = Without(routes, i)
      /\ late' = IF i \in registry THEN late ELSE late \cup {i}
      /\ disturbed' = IF session[i].srtp THEN disturbed
                      ELSE disturbed \cup {i}
      /\ restarting' = {}
      /\ UNCHANGED <<registry, dtls, channels, udp, creating, deleting, sfu,
                     spent, peers, orphaned, latest>>

-----------------------------------------------------------------------------
(* delete_session.                                                         *)

\* SessionRegistry::remove, under the lock of the sessions.
Remove(i) ==
  /\ i \in registry /\ deleting[i].at = "none"
  /\ registry' = registry \ {i}
  /\ deleting' = [deleting EXCEPT ![i] = At("aliases")]
  /\ UNCHANGED <<session, ufrags, routes, dtls, channels, udp, creating,
                 restarting, sfu, spent, history>>

\* A task still has the Arc of the session.
Held(i) == \E task \in udp \cup restarting : task.id = i

\* The rest of SessionRegistry::remove.  The session goes with its last Arc.
RemoveAliases(i) ==
  /\ deleting[i].at = "aliases"
  /\ ufrags' = Without(ufrags, i) /\ routes' = Without(routes, i)
  /\ session' = IF Held(i) THEN session
                ELSE [session EXCEPT ![i] = NewSession(@.owner)]
  /\ deleting' = [deleting EXCEPT ![i] = At("crypto")]
  /\ UNCHANGED <<registry, dtls, channels, udp, creating,
                 restarting, sfu, spent, history>>

\* remove_crypto_session and remove_data_channel_session.
RemoveCrypto(i) ==
  /\ deleting[i].at = "crypto"
  /\ dtls' = [dtls EXCEPT ![i] = "none"]
  /\ channels' = channels \ {i}
  /\ deleting' = [deleting EXCEPT ![i] = At("unbind")]
  /\ UNCHANGED <<tables, session, udp, creating, restarting, sfu, spent,
                 history>>

\* unbind_session, under the lock of the current room: the participant, if
\* this session is still the one it is bound to.
Unbind(i) ==
  LET room == sfu.current
      p == session[i].owner
      rest == [sfu EXCEPT !.bound[room][p] = {}]
  IN  /\ deleting[i].at = "unbind"
      /\ IF room = 0 \/ sfu.bound[room][p] # {i}
         THEN /\ deleting' = [deleting EXCEPT ![i] = At("done")]
              /\ UNCHANGED sfu
         ELSE /\ sfu' = rest
              /\ deleting' = [deleting EXCEPT ![i] =
                   IF \A q \in Participants : rest.bound[room][q] = {}
                   THEN InRoom(room) ELSE At("done")]
      /\ UNCHANGED <<tables, session, dtls, channels, udp, creating,
                     restarting, spent, history>>

\* unbind_session, under the lock of the rooms: the room it emptied, if it
\* is still the current one and still empty.
RemoveRoom(i) ==
  LET room == deleting[i].room
  IN  /\ room # 0
      /\ sfu' = IF /\ sfu.current = room
                   /\ \A q \in Participants : sfu.bound[room][q] = {}
                THEN [sfu EXCEPT !.current = 0] ELSE sfu
      /\ deleting' = [deleting EXCEPT ![i] = At("done")]
      /\ UNCHANGED <<tables, session, dtls, channels, udp, creating,
                     restarting, spent, history>>

-----------------------------------------------------------------------------
(* run_udp: one datagram at a time.                                        *)

\* A connectivity check is routed by its username, and the Arc is taken.
ReadCheck(u, remote, nominated) ==
  /\ udp = {}
  /\ \E i \in ufrags[u] \cap registry :
       /\ remote \in peers[i].addresses
       /\ peers[i].steady => nominated
       /\ udp' = {[at |-> "check", id |-> i, ufrag |-> u,
                   remote |-> remote, nominated |-> nominated]}
  /\ UNCHANGED <<tables, session, dtls, channels, handlers, sfu, spent,
                 history>>

\* A DTLS record is routed by the address it comes from.
ReadRecord(remote) ==
  /\ udp = {}
  /\ \E i \in routes[remote] \cap registry :
       /\ peers[i].shakes
       /\ udp' = {[at |-> "record", id |-> i, remote |-> remote]}
  /\ UNCHANGED <<tables, session, dtls, channels, handlers, sfu, spent,
                 history>>

\* SessionRegistry::handle_datagram on a check, under the lock of the
\* session: the address is routed to it once it is the selected one, unless
\* it is routed to another session.
HandleDatagramCheck(d) ==
  LET i == d.id
      after == HandleCheck(session[i], d.remote, d.nominated)
  IN  /\ d \in udp /\ d.at = "check" /\ udp' = {}
      /\ IF Authentic(session[i], d.ufrag)
         THEN /\ session' = [session EXCEPT ![i] = after]
              /\ IF /\ PairFits(session[i], d.remote)
                    /\ after.selected = {d.remote}
                    /\ routes[d.remote] \subseteq {i}
                 THEN /\ routes' = [routes EXCEPT ![d.remote] = {i}]
                      /\ late' = IF i \in registry THEN late
                                 ELSE late \cup {i}
                 ELSE UNCHANGED <<routes, late>>
         ELSE UNCHANGED <<session, routes, late>>
      /\ UNCHANGED <<registry, ufrags, dtls, channels, handlers, sfu, spent,
                     peers, orphaned, disturbed, latest>>

\* SessionRegistry::handle_datagram on a DTLS record, which is only good on
\* the selected tuple, during or after the handshake.
HandleDatagramRecord(d) ==
  LET s == session[d.id]
      good == /\ s.selected = {d.remote}
              /\ s.state \in {"handshaking", "connected"}
  IN  /\ d \in udp /\ d.at = "record"
      /\ udp' = IF good THEN {[at |-> "crypto", id |-> d.id]} ELSE {}
      /\ routes' = IF good THEN [routes EXCEPT ![d.remote] = {d.id}]
                   ELSE routes
      /\ late' = IF good /\ d.id \notin registry THEN late \cup {d.id}
                 ELSE late
      /\ UNCHANGED <<registry, ufrags, session, dtls, channels, handlers,
                     sfu, spent, peers, orphaned, disturbed, latest>>

\* What DatagramDtlsSession::step makes of a record: the handshake takes
\* two flights, fails for good, and later records carry SCTP.  The entry is
\* created by the first.
DtlsSteps(state) ==
  CASE state = "none"        -> {"handshaking", "failed"}
    [] state = "handshaking" -> {"handshaking", "established", "failed"}
    [] state = "established" -> {"established", "failed"}
    [] OTHER                 -> {"failed"}

\* process_dtls, under the lock of the DTLS state machines.
ProcessDtls(d) ==
  /\ d \in udp /\ d.at = "crypto"
  /\ \E to \in DtlsSteps(dtls[d.id]) :
       /\ dtls' = [dtls EXCEPT ![d.id] = to]
       /\ udp' = CASE to # "established" -> {}
                   [] dtls[d.id] = "established" -> {[d EXCEPT !.at = "sctp"]}
                   [] OTHER -> {[d EXCEPT !.at = "keys"]}
  /\ late' = IF d.id \in registry THEN late ELSE late \cup {d.id}
  /\ UNCHANGED <<tables, session, channels, handlers, sfu, spent, orphaned,
                 peers, disturbed, latest>>

\* apply_crypto_progress with the exported keys, which come once.
ApplyKeys(d) ==
  /\ d \in udp /\ d.at = "keys" /\ udp' = {}
  /\ session' = IF d.id \notin registry THEN session
                ELSE [session EXCEPT ![d.id] = InstallKeys(@)]
  /\ UNCHANGED <<tables, dtls, channels, handlers, sfu, spent, history>>

\* process_sctp_packet: the association of the session, created if absent.
ProcessSctp(d) ==
  /\ d \in udp /\ d.at = "sctp" /\ udp' = {}
  /\ channels' = channels \cup {d.id}
  /\ late' = IF d.id \in registry THEN late ELSE late \cup {d.id}
  /\ UNCHANGED <<tables, session, dtls, handlers, sfu, spent, orphaned,
                 peers, disturbed, latest>>

-----------------------------------------------------------------------------
(* run_timers.                                                             *)

\* SessionRegistry::tick for one session, under its lock.
TickTimer(i) ==
  /\ i \in registry
  /\ session' = [session EXCEPT ![i] = TickSession(@)]
  /\ disturbed' = IF session' = session \/ session[i].srtp THEN disturbed
                  ELSE disturbed \cup {i}
  /\ UNCHANGED <<tables, dtls, channels, udp, handlers, sfu, spent, peers,
                 late, orphaned, latest>>

\* poll_crypto: a handshake may time out for good.
PollCrypto(i) ==
  /\ dtls[i] = "handshaking"
  /\ dtls' = [dtls EXCEPT ![i] = "failed"]
  /\ UNCHANGED <<tables, session, channels, udp, handlers, sfu, spent,
                 history>>

\* poll_data_channels: an association that closed or gave up is removed.
PollDataChannels(i) ==
  /\ i \in channels
  /\ channels' = channels \ {i}
  /\ UNCHANGED <<tables, session, dtls, udp, handlers, sfu, spent, history>>

\* A second passes, in which steady peers are heard again; ages
\* beyond the failure timeout look alike.
SecondPasses ==
  /\ session' = [i \in SessionIds |->
       [session[i] EXCEPT !.age =
          IF i \in DOMAIN peers /\ peers[i].steady THEN @
          ELSE {IF a < FailureTimeout THEN a + 1 ELSE a : a \in @}]]
  /\ UNCHANGED <<tables, dtls, channels, udp, handlers, sfu, spent, history>>

MediaNext ==
  \/ \E i \in SessionIds :
       \/ \E u \in Ufrags : Provision(i, u) \/ RestartLooksUp(i, u)
       \/ EnterRoom(i) \/ BindSession(i) \/ RefuseBinding(i) \/ RollBack(i)
       \/ Remove(i) \/ RemoveAliases(i) \/ RemoveCrypto(i) \/ Unbind(i)
       \/ RemoveRoom(i) \/ TickTimer(i) \/ PollCrypto(i)
       \/ PollDataChannels(i)
  \/ \E r \in restarting : Restart(r)
  \/ \E r \in Remotes : \/ ReadRecord(r)
                        \/ \E u \in Ufrags, n \in BOOLEAN : ReadCheck(u, r, n)
  \/ \E d \in udp : \/ HandleDatagramCheck(d) \/ HandleDatagramRecord(d)
                    \/ ProcessDtls(d) \/ ApplyKeys(d) \/ ProcessSctp(d)
  \/ SecondPasses

\* The timers run, and time passes.
MediaFairness ==
  /\ WF_mediaVars(SecondPasses)
  /\ \A i \in SessionIds : WF_mediaVars(TickTimer(i))

MediaSpec == MediaInit /\ [][MediaNext]_mediaVars /\ MediaFairness

-----------------------------------------------------------------------------
(* Properties.                                                             *)

MediaTypeOK ==
  /\ registry \subseteq SessionIds /\ channels \subseteq SessionIds
  /\ \A u \in Ufrags : Cardinality(ufrags[u]) <= 1
  /\ \A r \in Remotes : Cardinality(routes[r]) <= 1
  /\ \A i \in SessionIds :
       /\ session[i].state \in States
       /\ Cardinality(session[i].pairs) <= MaxPairs
  /\ sfu.current \in 0 .. MaxRooms

\* SessionRegistry::remove, "Removes a session and all route aliases", and
\* delete_session: a deleted session leaves nothing behind, in none of the
\* tables, unless a task that still held it acted after its removal.
DeletedSessionIsGone ==
  \A i \in SessionIds :
    deleting[i].at = "done" /\ i \notin late =>
      /\ \A u \in Ufrags : i \notin ufrags[u]
      /\ \A r \in Remotes : i \notin routes[r]
      /\ dtls[i] = "none" /\ i \notin channels
      /\ \A g \in 1 .. MaxRooms : g = sfu.current =>
           \A p \in Participants : i \notin sfu.bound[g][p]

\* An address is routed only to a session whose peer proved, with the
\* credentials of the present generation, that it receives there.
RoutesAreValidated ==
  \A r \in Remotes : \A i \in routes[r] \cap registry :
    r \in session[i].pairs

\* What the state of a session promises: a connected one has keys and a
\* tuple to send to; one that is shaking hands has a tuple and no keys.
StateIsBacked ==
  \A i \in SessionIds :
    /\ session[i].state \in {"handshaking", "connected"} =>
         session[i].selected # {}
    /\ session[i].state = "connected" => session[i].srtp
    /\ session[i].state = "handshaking" => ~session[i].srtp

\* A finished handshake has keyed the session, and keeps it keyed through
\* restarts, unless an expired consent or a restart came before the keys:
\* OpenSSL exports them once, and no other session state takes them.
KeysAreInstalled ==
  \A i \in registry \ disturbed :
    dtls[i] = "established" =>
      session[i].srtp \/ \E d \in udp : d.id = i /\ d.at = "keys"

\* unbind_session, "Replaced transports are protected by matching the
\* current session identifier": a session that is there, and is the last its
\* participant was bound to, is the one the current room sends to, unless
\* it was bound in a room that was already removed.
BoundIsReachable ==
  \A i \in registry \ orphaned :
    creating[i].at = "created" /\ latest[session[i].owner] = {i} =>
      /\ sfu.current # 0
      /\ sfu.bound[sfu.current][session[i].owner] = {i}

\* A session that is no longer checked fails in the end.
SilenceFails ==
  \A i \in SessionIds :
    []<>(\/ i \notin registry
         \/ session[i].age \in {{}, {0}}
         \/ session[i].state = "failed")

\* The six tables of a media node agree on its sessions, however requests,
\* datagrams and timers interleave.
SessionsAreSound ==
  /\ MediaTypeOK /\ DeletedSessionIsGone /\ RoutesAreValidated
  /\ StateIsBacked /\ KeysAreInstalled /\ BoundIsReachable
=============================================================================
