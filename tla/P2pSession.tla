----------------------------- MODULE P2pSession -----------------------------
(***************************************************************************)
(* Two Web SDK clients that negotiate a direct connection through the      *)
(* room's signals (P2pSession).                                            *)
(*                                                                         *)
(* A session runs two things at once: the calls of its user (offer,        *)
(* restartIce, hangup, close) and the poll loop, which applies the other's *)
(* signals one after the other.  Both await the same RTCPeerConnection and *)
(* both post signals; candidates are posted by a third, unawaited call.    *)
(* An error inside the loop ends it for good: running stays set, so start  *)
(* does nothing any more.                                                  *)
(*                                                                         *)
(* A description is the offer's number; the ICE credentials in it are      *)
(* named by the number of the offer that brought them, and a candidate by  *)
(* the credentials it belongs to.  The browser is external and follows     *)
(* W3C's WebRTC: a remote offer rolls a local one back, an answer needs a  *)
(* local offer, and a candidate of unknown credentials is refused.         *)
(***************************************************************************)
EXTENDS Naturals, Sequences, FiniteSets

CONSTANTS
  Peers,          \* the two participants
  PendingLimit,   \* candidates kept before a remote description (256)
  Plans,          \* model bound: who makes how many offers, who may end it
  MaxOffers       \* model bound: offers and restarts made

ASSUME P2pAssumption ==
  /\ Cardinality(Peers) = 2
  /\ PendingLimit \in Nat \ {0} /\ MaxOffers \in Nat
  /\ Plans \subseteq [left : [Peers -> 0 .. MaxOffers], ends : BOOLEAN]

VARIABLES
  inbox,     \* inbox[p]: the other's signals past p's cursor (#after)
  peer,      \* peer[p]: the RTCPeerConnection
  loop,      \* loop[p]: the poll loop, with the rest of its page
  call,      \* call[p]: the user's call that is running
  posting,   \* posting[p]: credentials whose candidate is being posted
  pending,   \* pending[p]: #pendingCandidates
  added,     \* added[p]: candidates handed to the connection
  offers,    \* how many offers were created
  plan,      \* the offers left to make; whether a side may end or fail
  hungUp,    \* history: the sides that hung up
  troubles   \* history: why this negotiation may have gone wrong

p2pVars ==
  <<inbox, peer, loop, call, posting, pending, added, offers, plan, hungUp,
   troubles>>

Other(p) == CHOOSE q \in Peers : q # p
Numbers == 0 .. MaxOffers
NoCall == [pc |-> "idle", kind |-> "none", id |-> 0, cred |-> 0]
NoSignal == [kind |-> "none", id |-> 0, cred |-> 0]
NewPeer == [state |-> "stable", cred |-> 0, base |-> 0, remote |-> 0,
            coming |-> 0, made |-> FALSE]
Kinds == {"offer", "ice-restart", "answer", "ice-candidate", "bye"}
Troubles == {"glare", "hurried", "request", "overtaken", "overflow"}

\* Every variable has the shape of what it stands for, and a session keeps no
\* more candidates than its limit.
P2pTypeOK ==
  /\ \A p \in Peers :
       /\ inbox[p] \in Seq([kind : Kinds, id : Numbers, cred : Numbers])
       /\ peer[p].state \in {"stable", "local", "remote", "closed"}
       /\ {peer[p].cred, peer[p].base, peer[p].remote, peer[p].coming}
            \subseteq Numbers
       /\ loop[p].pc \in {"off", "poll", "page", "flush", "answer", "post",
                          "ended"}
       /\ loop[p].rest <= Len(inbox[p])
       /\ call[p].pc \in {"idle", "created", "set"}
       /\ posting[p] \subseteq Numbers /\ added[p] \subseteq Numbers
       /\ pending[p] \in Seq(Numbers) /\ Len(pending[p]) <= PendingLimit
  /\ offers \in Numbers /\ plan.left \in [Peers -> Numbers]
  /\ hungUp \subseteq Peers /\ troubles \subseteq Troubles

P2pInit ==
  /\ inbox = [p \in Peers |-> <<>>]
  /\ peer = [p \in Peers |-> NewPeer]
  /\ plan \in Plans
  /\ loop = [p \in Peers |-> [pc |-> IF plan.ends THEN "off" ELSE "poll",
                              rest |-> 0, now |-> NoSignal]]
  /\ call = [p \in Peers |-> NoCall]
  /\ posting = [p \in Peers |-> {}]
  /\ pending = [p \in Peers |-> <<>>]
  /\ added = [p \in Peers |-> {}]
  /\ offers = 0 /\ hungUp = {} /\ troubles = {}

Open(p) == peer[p].state # "closed"
HasRemote(p) == peer[p].remote # 0 \/ peer[p].coming # 0
Known(p, cred) == cred \in {peer[p].remote, peer[p].coming} \ {0}
Faults(kind) == troubles \cup {kind}

\* The icecandidate event that follows new local credentials.
Gathers(p, cred) ==
  posting' = IF cred = peer[p].cred THEN posting
             ELSE [posting EXCEPT ![p] = @ \cup {cred}]

\* postSignal: the signal gets the room's next sequence.
PostSignal(p, kind, id, cred) ==
  inbox' = [inbox EXCEPT ![Other(p)] =
              Append(@, [kind |-> kind, id |-> id, cred |-> cred])]

-----------------------------------------------------------------------------
(* The user's calls.                                                       *)

\* start: nothing when the session already runs, or ran.
Start(p) ==
  /\ loop[p].pc = "off"
  /\ loop' = [loop EXCEPT ![p].pc = IF Open(p) THEN "poll" ELSE "ended"]
  /\ UNCHANGED <<inbox, peer, call, posting, pending, added, offers, plan,
                 hungUp, troubles>>

\* offer and restartIce up to createOffer.  A closed connection refuses it.
CreateOffer(p, kind) ==
  LET id == offers + 1
      cred == IF kind = "ice-restart" \/ peer[p].cred = 0 THEN id
              ELSE peer[p].cred IN
    /\ call[p].pc = "idle" /\ Open(p) /\ plan.left[p] > 0
    /\ plan' = [plan EXCEPT !.left[p] = @ - 1]
    /\ offers' = id
    /\ call' = [call EXCEPT ![p] = [pc |-> "created", kind |-> kind,
                                    id |-> id, cred |-> cred]]
    /\ peer' = [peer EXCEPT ![p].made = TRUE]
    /\ UNCHANGED <<inbox, loop, posting, pending, added, hungUp, troubles>>

\* setLocalDescription(offer).  It is refused when a remote offer is open, or
\* when a description was set since the offer was created: the call throws.
SetOffer(p) ==
  LET c == call[p] IN
    /\ c.pc = "created"
    /\ \/ /\ peer[p].made /\ peer[p].state \in {"stable", "local"}
          /\ peer' = [peer EXCEPT ![p] =
                        [@ EXCEPT !.state = "local", !.cred = c.cred,
                                  !.made = FALSE]]
          /\ Gathers(p, c.cred)
          /\ call' = [call EXCEPT ![p].pc = "set"]
          /\ troubles' = IF peer[p].state = "local" THEN Faults("hurried")
                         ELSE troubles
       \/ /\ ~peer[p].made \/ peer[p].state \in {"remote", "closed"}
          /\ call' = [call EXCEPT ![p] = NoCall]
          /\ troubles' = IF Open(p) THEN Faults("glare") ELSE troubles
          /\ UNCHANGED <<peer, posting>>
    /\ UNCHANGED <<inbox, loop, pending, added, offers, plan, hungUp>>

\* The offer is posted; when the request fails the call throws and the local
\* offer stays.
PostOffer(p) ==
  /\ call[p].pc = "set"
  /\ call' = [call EXCEPT ![p] = NoCall]
  /\ PostSignal(p, call[p].kind, call[p].id, call[p].cred)
  /\ UNCHANGED <<peer, loop, posting, pending, added, offers, plan, hungUp,
                 troubles>>

\* A candidate's own request.
PostCandidate(p, cred) ==
  /\ cred \in posting[p]
  /\ posting' = [posting EXCEPT ![p] = @ \ {cred}]
  /\ PostSignal(p, "ice-candidate", 0, cred)
  /\ UNCHANGED <<peer, loop, call, pending, added, offers, plan, hungUp,
                 troubles>>

\* close ends the loop at its next look at running and aborts its request.
ClosePeer(p) == peer' = [peer EXCEPT ![p].state = "closed", ![p].made = FALSE]

Ended(p) == loop' = [loop EXCEPT ![p] = [@ EXCEPT !.pc = "ended",
                                                  !.rest = 0,
                                                  !.now = NoSignal]]

\* hangup says bye and then closes.
Hangup(p) ==
  /\ plan.ends /\ Open(p) /\ call[p].pc = "idle"
  /\ PostSignal(p, "bye", 0, 0)
  /\ ClosePeer(p)
  /\ hungUp' = hungUp \cup {p}
  /\ UNCHANGED <<loop, call, posting, pending, added, offers, plan,
                 troubles>>

CloseOnly(p) ==
  /\ plan.ends /\ Open(p)
  /\ ClosePeer(p)
  /\ UNCHANGED <<inbox, loop, call, posting, pending, added, offers, plan,
                 hungUp, troubles>>

\* A request fails: the loop ends with the error of its poll or its answer, a
\* call throws, a candidate is forgotten.
RequestFails(p) ==
  /\ plan.ends /\ "request" \notin troubles
  /\ troubles' = Faults("request")
  /\ \/ /\ loop[p].pc \in {"poll", "post"} /\ Ended(p)
        /\ UNCHANGED <<call, posting>>
     \/ /\ call[p].pc = "set" /\ call' = [call EXCEPT ![p] = NoCall]
        /\ UNCHANGED <<loop, posting>>
     \/ \E cred \in posting[p] :
          /\ posting' = [posting EXCEPT ![p] = @ \ {cred}]
          /\ UNCHANGED <<loop, call>>
  /\ UNCHANGED <<inbox, peer, pending, added, offers, plan, hungUp>>

-----------------------------------------------------------------------------
(* The poll loop.                                                          *)

\* The answer of pollSignals: the other's signals after the cursor.  An empty
\* page only waits.
Poll(p) ==
  /\ loop[p].pc = "poll"
  /\ \/ /\ Open(p) /\ inbox[p] # <<>>
        /\ loop' = [loop EXCEPT ![p] = [@ EXCEPT !.pc = "page",
                                                 !.rest = Len(inbox[p])]]
     \/ ~Open(p) /\ Ended(p)
  /\ UNCHANGED <<inbox, peer, call, posting, pending, added, offers, plan,
                 hungUp, troubles>>

\* The next signal of the page is taken: the cursor passes it before it is
\* applied, so one that fails is never seen again.
Taken(p, pc, signal) ==
  /\ inbox' = [inbox EXCEPT ![p] = Tail(@)]
  /\ loop' = [loop EXCEPT ![p] = [pc |-> pc, rest |-> @.rest - 1,
                                  now |-> signal]]
InPage(rest) == IF rest = 0 THEN "poll" ELSE "page"
Applied(p) == Taken(p, InPage(loop[p].rest - 1), NoSignal)
\* Mutant of Resumes: the loop returns after a signal it answered.
ResumesNever(p) == Ended(p)

\* The same from inside a signal.
Resumes(p) ==
  loop' = [loop EXCEPT ![p] = [@ EXCEPT !.pc = InPage(loop[p].rest),
                                        !.now = NoSignal]]
\* The error of a signal ends the loop.
Rejected(p) == inbox' = [inbox EXCEPT ![p] = Tail(@)] /\ Ended(p)

\* A candidate that comes before any remote description; a full list drops its
\* oldest.
Remember(queue, cred) ==
  Append(IF Len(queue) >= PendingLimit THEN Tail(queue) ELSE queue, cred)

\* #apply of an ice-candidate.  One whose credentials the connection does not
\* know, or a closed connection, ends the loop.
ApplyCandidate(p, signal) ==
  /\ signal.kind = "ice-candidate"
  /\ \/ /\ Open(p) /\ Known(p, signal.cred)
        /\ added' = [added EXCEPT ![p] = @ \cup {signal.cred}]
        /\ Applied(p)
        /\ UNCHANGED <<pending, troubles>>
     \/ /\ HasRemote(p) /\ ~(Open(p) /\ Known(p, signal.cred))
        /\ Rejected(p)
        /\ troubles' = IF Open(p) THEN Faults("overtaken") ELSE troubles
        /\ UNCHANGED <<pending, added>>
     \/ /\ ~HasRemote(p)
        /\ pending' = [pending EXCEPT ![p] = Remember(@, signal.cred)]
        /\ troubles' = IF Len(pending[p]) >= PendingLimit
                       THEN Faults("overflow") ELSE troubles
        /\ Applied(p)
        /\ UNCHANGED added
  /\ UNCHANGED peer

\* #apply of an offer or restart: setRemoteDescription, which rolls a local
\* offer back.
ApplyOffer(p, signal) ==
  /\ signal.kind \in {"offer", "ice-restart"}
  /\ \/ /\ Open(p)
        /\ peer' = [peer EXCEPT ![p] =
                      [@ EXCEPT !.state = "remote", !.coming = signal.cred,
                                !.cred = peer[p].base, !.made = FALSE]]
        /\ troubles' = IF peer[p].state = "local" \/ call[p].pc # "idle"
                       THEN Faults("glare") ELSE troubles
        /\ Taken(p, "flush", signal)
     \/ ~Open(p) /\ Rejected(p) /\ UNCHANGED <<peer, troubles>>
  /\ UNCHANGED <<pending, added>>

\* #apply of an answer: without a local offer the connection refuses it.
ApplyAnswer(p, signal) ==
  /\ signal.kind = "answer"
  /\ \/ /\ peer[p].state = "local"
        /\ peer' = [peer EXCEPT ![p] =
                      [@ EXCEPT !.state = "stable", !.base = peer[p].cred,
                                !.remote = signal.cred, !.made = FALSE]]
        /\ Taken(p, "flush", signal)
     \/ peer[p].state # "local" /\ Rejected(p) /\ UNCHANGED peer
  /\ UNCHANGED <<pending, added, troubles>>

\* #apply of a bye: close.
ApplyBye(p, signal) ==
  /\ signal.kind = "bye"
  /\ ClosePeer(p)
  /\ Applied(p)
  /\ UNCHANGED <<pending, added, troubles>>

Apply(p) ==
  /\ loop[p].pc = "page"
  /\ LET signal == Head(inbox[p]) IN
       \/ ApplyCandidate(p, signal) \/ ApplyOffer(p, signal)
       \/ ApplyAnswer(p, signal) \/ ApplyBye(p, signal)
  /\ UNCHANGED <<call, posting, offers, plan, hungUp>>

\* #flushCandidates: the list is emptied, then its candidates are handed over
\* until one is refused.
FlushCandidates(p) ==
  LET fits(i) == \A j \in 1 .. i : Open(p) /\ Known(p, pending[p][j])
      all == DOMAIN pending[p] IN
    /\ loop[p].pc = "flush"
    /\ pending' = [pending EXCEPT ![p] = <<>>]
    /\ added' = [added EXCEPT ![p] =
                   @ \cup {pending[p][i] : i \in {i \in all : fits(i)}}]
    /\ \/ /\ \A i \in all : fits(i)
          /\ IF loop[p].now.kind = "answer" THEN Resumes(p)
             ELSE loop' = [loop EXCEPT ![p].pc = "answer"]
          /\ UNCHANGED troubles
       \/ /\ \E i \in all : ~fits(i)
          /\ Ended(p)
          /\ troubles' = IF Open(p) THEN Faults("overtaken") ELSE troubles
    /\ UNCHANGED <<inbox, peer, call, posting, offers, plan, hungUp>>

\* createAnswer and setLocalDescription(answer): new remote credentials are
\* answered with new local ones.
SetAnswer(p) ==
  LET old == peer[p]
      cred == IF old.cred = 0 \/ old.coming # old.remote
              THEN loop[p].now.id ELSE old.cred IN
    /\ loop[p].pc = "answer"
    /\ \/ /\ old.state = "remote"
          /\ peer' = [peer EXCEPT ![p] =
                        [@ EXCEPT !.state = "stable", !.cred = cred,
                                  !.base = cred, !.remote = old.coming,
                                  !.coming = 0, !.made = FALSE]]
          /\ Gathers(p, cred)
          /\ loop' = [loop EXCEPT ![p].pc = "post"]
       \/ old.state # "remote" /\ Ended(p) /\ UNCHANGED <<peer, posting>>
    /\ UNCHANGED <<inbox, call, pending, added, offers, plan, hungUp,
                   troubles>>

\* Mutant of PostAnswer: the answer is not posted.
PostAnswerNever(p) ==
  /\ loop[p].pc = "post"
  /\ Resumes(p)
  /\ UNCHANGED <<inbox, peer, call, posting, pending, added, offers, plan,
                 hungUp, troubles>>

\* The answer is posted and the loop goes on with its page.
PostAnswer(p) ==
  /\ loop[p].pc = "post"
  /\ PostSignal(p, "answer", 0, peer[p].cred)
  /\ Resumes(p)
  /\ UNCHANGED <<peer, call, posting, pending, added, offers, plan, hungUp,
                 troubles>>

-----------------------------------------------------------------------------
Runs(p) ==
  \/ Poll(p) \/ Apply(p) \/ FlushCandidates(p) \/ SetAnswer(p) \/ PostAnswer(p)

P2pNext ==
  \E p \in Peers :
    \/ Start(p) \/ Hangup(p) \/ CloseOnly(p) \/ RequestFails(p) \/ Runs(p)
    \/ \E kind \in {"offer", "ice-restart"} : CreateOffer(p, kind)
    \/ SetOffer(p) \/ PostOffer(p)
    \/ \E cred \in posting[p] : PostCandidate(p, cred)

\* A started loop keeps polling, and what a call or the browser has begun it
\* finishes: promises settle.
P2pFairness ==
  \A p \in Peers :
    /\ WF_p2pVars(Runs(p))
    /\ WF_p2pVars(SetOffer(p)) /\ WF_p2pVars(PostOffer(p))
    /\ WF_p2pVars(\E cred \in posting[p] : PostCandidate(p, cred))

P2pSpec == P2pInit /\ [][P2pNext]_p2pVars /\ P2pFairness

-----------------------------------------------------------------------------
(* Properties.                                                             *)

\* Both loops wait and nothing is on its way.
Quiet ==
  \A p \in Peers : /\ loop[p].pc = "poll" /\ inbox[p] = <<>>
                   /\ call[p].pc = "idle" /\ posting[p] = {} /\ Open(p)

\* When everything has settled, each side's remote description holds the
\* other's ICE credentials: an offer, a restart or the other's answer was never
\* half applied.  It may be otherwise when the two offered at once, when one
\* offered again before the answer came, when a request failed, or when a
\* candidate overtook its description.
DescriptionsAgree ==
  Quiet /\ troubles = {} =>
    \A p \in Peers : /\ peer[p].state = "stable"
                     /\ peer[p].base = peer[Other(p)].remote

\* In the same states every candidate of the credentials in use has reached
\* the other side's connection, however early it came: #pendingCandidates.
CandidatesArrive ==
  Quiet /\ troubles = {} =>
    \A p \in Peers : peer[p].base # 0 => peer[p].base \in added[Other(p)]

\* An offer is answered: no connection stays in have-local-offer for ever
\* once both sessions were started (a loop does not stop again), unless one
\* is closed or one of the troubles came up.
NegotiationEnds ==
  \A p \in Peers :
    []<>((\A q \in Peers : loop[q].pc # "off") /\ peer[p].state = "local"
           => troubles # {} \/ ~Open(Other(p)))

\* A hangup reaches the other side: once one side has hung up, the other,
\* when its loop was started, closes its connection.
ByeEndsBoth ==
  \A p \in Peers :
    []<>(Other(p) \in hungUp /\ loop[p].pc # "off"
           => ~Open(p) \/ troubles # {})

\* Once the signals between two browsers have settled, both have the
\* descriptions and the candidates of one and the same negotiation.
PeersAgree ==
  /\ P2pTypeOK /\ DescriptionsAgree /\ CandidatesArrive

\* Neither an offer nor a hangup is left unanswered for ever.
CallsSettle ==
  /\ NegotiationEnds /\ ByeEndsBoth
=============================================================================
