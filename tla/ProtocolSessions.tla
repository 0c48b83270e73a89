-------------------------- MODULE ProtocolSessions --------------------------
(***************************************************************************)
(* WHIP and WHEP sessions of one participant                               *)
(* (crates/services/api-server/src/routes/webrtc.rs, protocol.rs and       *)
(* services/media_sessions.rs).                                            *)
(*                                                                         *)
(* A session is a resource of the API, with a version (the ETag) and the   *)
(* ICE credentials of both sides, and a session of the media node with the *)
(* same credentials.  An offer provisions the node and then records the    *)
(* resource; an ICE restart posts new credentials to the node and then     *)
(* updates it, under the lock of protocol_updates; a delete, and the       *)
(* clean-up after leaving the room, remove it without that lock.           *)
(***************************************************************************)
EXTENDS Naturals, FiniteSets

CONSTANTS
  Calls,         \* requests, each served once
  Remotes,       \* ICE credentials of the client
  MaxSessions,   \* MAX_PROTOCOL_SESSIONS
  MaxLosses      \* bound: calls to the node that fail or lose their answer

ASSUME ProtocolAssumption ==
  /\ MaxSessions \in Nat \ {0} /\ MaxLosses \in Nat
  /\ IsFiniteSet(Calls) /\ Remotes # {}

Ids == 1 .. (Cardinality(Calls) + 1)
Locals == 0 .. (Cardinality(Calls) + 1)
Versions == 1 .. (Cardinality(Calls) + 1)

VARIABLES
  present,   \* the participant is in the room
  table,     \* protocol_sessions
  remote,    \* the sessions of the media node
  updating,  \* the request that holds protocol_updates
  call,      \* the requests
  nextId,    \* random session ids, in the order they are drawn
  nextLocal, \* random credentials, in the order they are drawn
  losses,    \* calls to the node that failed or lost their answer
  strayed,   \* history: sessions the node made or kept unanswered
  torn,      \* history: sessions whose restart was carried out unanswered
  plain,     \* history: sessions of answer_offer, which records none
  gone,      \* history: sessions deleted with success
  hasty      \* history: left while a session was being made

tables == <<present, table, remote, updating, nextId, nextLocal>>
pasts == <<losses, strayed, torn, plain, gone, hasty>>
protocolVars == <<tables, call, pasts>>

NewCall == [op |-> "none", pc |-> "new", id |-> 0, seen |-> {}, local |-> 0,
            client |-> {}, todo |-> {}]

ProtocolInit ==
  \E r \in Remotes, there \in BOOLEAN :
    /\ present = TRUE
    /\ table = [i \in Ids |-> IF there /\ i = 1
                 THEN {[etag |-> 1, local |-> 0, client |-> r]} ELSE {}]
    /\ remote = [i \in Ids |-> IF there /\ i = 1
                  THEN {[local |-> 0, client |-> r]} ELSE {}]
    /\ updating = {} /\ nextId = (IF there THEN 2 ELSE 1) /\ nextLocal = 1
    /\ call = [c \in Calls |-> NewCall]
    /\ losses = 0 /\ strayed = {} /\ torn = {} /\ plain = {} /\ gone = {}
    /\ hasty = FALSE

Doing(c, pc) == call[c].pc = pc
Becomes(c, pc) == call' = [call EXCEPT ![c].pc = pc]
Listed == {i \in Ids : table[i] # {}}

Loses == losses < MaxLosses /\ losses' = losses + 1

-----------------------------------------------------------------------------
(* Offers.                                                                 *)

\* validate_protocol_direction.
RightDirection(protocol, direction) ==
  direction = IF protocol = "whip" THEN "sendonly" ELSE "recvonly"

\* The checks of create_protocol_session and answer_offer, which takes any
\* direction.  A publisher is publishing.
Offer(c, kind, direction, r) ==
  /\ Doing(c, "new") /\ present
  /\ call' = [call EXCEPT ![c] =
       [@ EXCEPT !.op = kind, !.client = {r}, !.id = nextId,
                 !.local = nextLocal,
                 !.pc = IF kind = "plain" \/ RightDirection(kind, direction)
                        THEN "provision" ELSE "over"]]
  /\ nextId' = nextId + 1 /\ nextLocal' = nextLocal + 1
  /\ UNCHANGED <<present, table, remote, updating, pasts>>

\* negotiate_offer: the node learns the session.
Provision(c) ==
  LET id == call[c].id
      made == [remote EXCEPT ![id] =
                 {[local |-> call[c].local, client |-> r] :
                    r \in call[c].client}]
  IN /\ Doing(c, "provision")
     /\ \/ /\ remote' = made
           /\ Becomes(c, IF call[c].op = "plain" THEN "over" ELSE "insert")
           /\ plain' = IF call[c].op = "plain" THEN plain \cup {id}
                       ELSE plain
           /\ UNCHANGED <<losses, strayed>>
        \/ /\ Loses /\ Becomes(c, "over")
           /\ \/ remote' = remote /\ strayed' = strayed
              \/ remote' = made /\ strayed' = strayed \cup {id}
           /\ UNCHANGED plain
     /\ UNCHANGED <<present, table, updating, nextId, nextLocal, torn, gone,
                    hasty>>

\* The resource, or the roll-back when the registry is full.
Insert(c) ==
  LET full == Cardinality(Listed) >= MaxSessions IN
  /\ Doing(c, "insert")
  /\ table' = IF full THEN table
              ELSE [table EXCEPT ![call[c].id] =
                      {[etag |-> 1, local |-> call[c].local, client |-> r] :
                         r \in call[c].client}]
  /\ Becomes(c, IF full THEN "rollback" ELSE "over")
  /\ UNCHANGED <<present, remote, updating, nextId, nextLocal, pasts>>

\* A delete that fails is logged.
RollBack(c) ==
  LET id == call[c].id IN
  /\ Doing(c, "rollback") /\ Becomes(c, "over")
  /\ \/ /\ remote' = [remote EXCEPT ![id] = {}]
        /\ UNCHANGED <<losses, strayed>>
     \/ /\ Loses /\ strayed' = strayed \cup {id}
        /\ UNCHANGED remote
  /\ UNCHANGED <<present, table, updating, nextId, nextLocal, torn, plain,
                 gone, hasty>>

-----------------------------------------------------------------------------
(* Trickle ICE and ICE restart.                                            *)

\* validate_trickle_fragment: what a fragment with these credentials, each
\* of which may be missing, asks of a session.
Fragment(username, password, session) ==
  IF username = {} /\ password = {} THEN "candidates"
  ELSE IF username = {session.client} /\ password = {session.client}
  THEN "candidates"
  ELSE IF /\ username # {} /\ session.client \notin username
          /\ password # {} /\ session.client \notin password
  THEN "restart" ELSE "incomplete"

Locks(c) == updating = {} /\ updating' = {c}

\* require_current_etag: If-Match must be there and name the version.
CurrentEtag(match, session) == match = {session.etag}

\* patch_protocol_session up to the call of the node.  The password of a
\* fragment is drawn with the user name, or is missing, or is another one.
Patch(c, id, match, username, password) ==
  /\ Doing(c, "new")
  /\ \E s \in table[id] :
       LET restarts == /\ CurrentEtag(match, s)
                       /\ Fragment(username, password, s) = "restart"
       IN IF restarts
          THEN /\ Locks(c) /\ nextLocal' = nextLocal + 1
               /\ call' = [call EXCEPT ![c] =
                    [@ EXCEPT !.op = "patch", !.pc = "post", !.id = id,
                              !.seen = {s}, !.client = username,
                              !.local = nextLocal]]
          ELSE /\ updating = {} /\ Becomes(c, "over")
               /\ UNCHANGED <<updating, nextLocal>>
  /\ UNCHANGED <<present, table, remote, nextId, pasts>>

\* restart_protocol_ice: the node takes the new credentials, if it knows the
\* session.
PostRestart(c) ==
  LET id == call[c].id
      taken == [remote EXCEPT ![id] =
                  {[local |-> call[c].local, client |-> r] :
                     r \in call[c].client}]
      known == remote[id] # {}
  IN /\ Doing(c, "post")
     /\ \/ /\ known /\ remote' = taken /\ Becomes(c, "install")
           /\ UNCHANGED <<updating, losses, torn>>
        \/ /\ ~known /\ Becomes(c, "over") /\ updating' = updating \ {c}
           /\ UNCHANGED <<remote, losses, torn>>
        \/ /\ known /\ Loses /\ Becomes(c, "over")
           /\ updating' = updating \ {c}
           /\ \/ remote' = remote /\ torn' = torn
              \/ remote' = taken /\ torn' = torn \cup {id}
     /\ UNCHANGED <<present, table, nextId, nextLocal, strayed, plain, gone,
                    hasty>>

\* Mutant of InstallRestart: the resource is written back, there or not.
InstallRestartAnyway(c) ==
  LET id == call[c].id IN
  /\ Doing(c, "install") /\ Becomes(c, "over")
  /\ updating' = updating \ {c}
  /\ \E old \in call[c].seen, r \in call[c].client :
       /\ table' = [table EXCEPT ![id] =
            {[etag |-> old.etag + 1, local |-> call[c].local, client |-> r]}]
       /\ torn' = torn \ {id}
  /\ UNCHANGED <<present, remote, nextId, nextLocal, losses, strayed, plain,
                 gone, hasty>>

\* The resource takes them too, with the next version, if it is still there
\* and still has the version the request saw.
InstallRestart(c) ==
  LET id == call[c].id
      same == \E s \in table[id], old \in call[c].seen : s.etag = old.etag
  IN /\ Doing(c, "install") /\ Becomes(c, "over")
     /\ updating' = updating \ {c}
     /\ \/ /\ same
           /\ \E s \in table[id], r \in call[c].client :
                table' = [table EXCEPT ![id] =
                  {[etag |-> s.etag + 1, local |-> call[c].local,
                    client |-> r]}]
           /\ torn' = torn \ {id}
        \/ ~same /\ UNCHANGED <<table, torn>>
     /\ UNCHANGED <<present, remote, nextId, nextLocal, losses, strayed,
                    plain, gone, hasty>>

-----------------------------------------------------------------------------
(* Deleting and leaving.                                                   *)

Delete(c, id) ==
  /\ Doing(c, "new") /\ table[id] # {}
  /\ call' = [call EXCEPT ![c] =
       [@ EXCEPT !.op = "delete", !.id = id, !.pc = "detach"]]
  /\ UNCHANGED <<tables, pasts>>

\* cleanup_participant_media: the sessions listed now, one by one.
CleanUpParticipant(c) ==
  /\ Doing(c, "new") /\ present
  /\ present' = FALSE
  /\ hasty' = \E d \in Calls : call[d].pc \in {"provision", "insert"}
  /\ call' = [call EXCEPT ![c] =
       [@ EXCEPT !.op = "leave", !.pc = "next", !.todo = Listed]]
  /\ UNCHANGED <<table, remote, updating, nextId, nextLocal, losses, strayed,
                 torn, plain, gone>>

NextSession(c) ==
  /\ Doing(c, "next")
  /\ \/ call[c].todo = {} /\ Becomes(c, "over")
     \/ \E i \in call[c].todo :
          call' = [call EXCEPT ![c].pc = "detach", ![c].id = i,
                               ![c].todo = @ \ {i}]
  /\ UNCHANGED <<tables, pasts>>

\* delete_media_session: a session the node does not know is deleted.  When
\* the call fails the resource stays.
Detach(c) ==
  LET id == call[c].id
      after == IF call[c].op = "leave" THEN "next" ELSE "over"
      without == [remote EXCEPT ![id] = {}]
  IN /\ Doing(c, "detach")
     /\ \/ /\ remote' = without /\ Becomes(c, "remove")
           /\ UNCHANGED <<losses, strayed>>
        \/ /\ Loses /\ Becomes(c, after)
           /\ remote' \in {remote, without}
           /\ strayed' = strayed \cup {id}
     /\ UNCHANGED <<present, table, updating, nextId, nextLocal, torn, plain,
                    gone, hasty>>

RemoveSession(c) ==
  LET id == call[c].id IN
  /\ Doing(c, "remove")
  /\ table' = [table EXCEPT ![id] = {}]
  /\ gone' = gone \cup {id}
  /\ Becomes(c, IF call[c].op = "leave" THEN "next" ELSE "over")
  /\ UNCHANGED <<present, remote, updating, nextId, nextLocal, losses,
                 strayed, torn, plain, hasty>>

-----------------------------------------------------------------------------

OfferSteps(c) ==
  \/ \E kind \in {"whip", "whep", "plain"},
        direction \in {"sendonly", "recvonly"}, r \in Remotes :
       Offer(c, kind, direction, r)
  \/ Provision(c) \/ Insert(c) \/ RollBack(c)

Optionally(S) == {{}} \cup {{x} : x \in S}

UpdateSteps(c) ==
  \/ \E id \in Ids, match \in Optionally(Versions),
        username \in Optionally(Remotes), password \in Optionally(Remotes) :
       Patch(c, id, match, username, password)
  \/ PostRestart(c) \/ InstallRestart(c)

RemovalSteps(c) ==
  \/ \E id \in Ids : Delete(c, id)
  \/ CleanUpParticipant(c) \/ NextSession(c) \/ Detach(c) \/ RemoveSession(c)

AllRest == \A c \in Calls : call[c].pc \in {"new", "over"}

ProtocolNext ==
  \/ \E c \in Calls : OfferSteps(c) \/ UpdateSteps(c) \/ RemovalSteps(c)
  \/ AllRest /\ UNCHANGED protocolVars

ProtocolSpec == ProtocolInit /\ [][ProtocolNext]_protocolVars

-----------------------------------------------------------------------------
(* Properties.                                                             *)

\* The tables have their types and the registry of sessions its bound.
ProtocolTypeOK ==
  /\ present \in BOOLEAN
  /\ \A i \in Ids :
       /\ table[i] \subseteq [etag : Versions, local : Locals,
                              client : Remotes]
       /\ remote[i] \subseteq [local : Locals, client : Remotes]
       /\ Cardinality(table[i]) <= 1 /\ Cardinality(remote[i]) <= 1
  /\ Cardinality(Listed) <= MaxSessions
  /\ updating \subseteq Calls /\ Cardinality(updating) <= 1
  /\ losses \in 0 .. MaxLosses

\* When the requests rest, a resource and the node's session have the same
\* ICE credentials on both sides (restart_protocol_ice): a client that acts
\* on the answer it got reaches the node.  A restart the node carried out
\* without an answer tears them apart until the next restart.
CredentialsAgree ==
  AllRest => \A i \in Listed \ (torn \cup strayed) :
    remote[i] = {[local |-> s.local, client |-> s.client] : s \in table[i]}

\* When the requests rest, every session of the node is a resource that a
\* delete, or leaving the room, will find: a full registry and a refused
\* restart leave nothing behind.  Sessions of answer_offer are not recorded.
SessionsAreListed ==
  AllRest => \A i \in Ids \ (strayed \cup plain) :
    remote[i] # {} => table[i] # {}

\* A deleted session stays deleted, in the API and on the node, whatever
\* restart was under way (restart_protocol_ice).
DeletedStaysDeleted ==
  \A i \in gone \ strayed : table[i] = {} /\ remote[i] = {}

\* A participant that left has no sessions, unless an offer was under way.
LeavingEndsSessions ==
  AllRest /\ ~present /\ ~hasty =>
    \A i \in Ids \ (strayed \cup plain) : table[i] = {} /\ remote[i] = {}

\* The sessions that the API lists are those of the node, with the same
\* credentials, whatever requests overlap.
ResourcesAgree ==
  /\ ProtocolTypeOK /\ CredentialsAgree /\ SessionsAreListed
  /\ DeletedStaysDeleted /\ LeavingEndsSessions
=============================================================================
