------------------------- MODULE RoomAggregateProofs -------------------------
(***************************************************************************)
(* Lemmas about the room aggregate: what restore computes on a longer log, *)
(* and what apply keeps.  They hold for any users, commands and limits.    *)
(***************************************************************************)
EXTENDS RoomAggregate, WellFoundedInduction, TLAPS

-----------------------------------------------------------------------------
(* Restore, by induction over the log.                                     *)

\* Every nonempty set of naturals has a least element.
LEMMA LeastNatural ==
  ASSUME NEW S \in SUBSET Nat, S # {}
  PROVE \E n \in S : \A m \in S : n <= m
<1> DEFINE R == {p \in Nat \X Nat : p[1] < p[2]}
<1>1. IsWellFoundedOn(R, Nat)
  BY NatLessThanWellFounded DEF OpToRel
<1>2. PICK x \in S : \A y \in S : ~(<<y, x>> \in R)
  <2> HIDE DEF R
  <2> QED BY <1>1, WFMin, Zenon
<1>3. \A y \in S : y < x => <<y, x>> \in R
  OBVIOUS
<1>4. \A y \in S : ~(y < x)
  BY <1>2, <1>3, Zenon
<1> QED BY <1>4

\* Induction, for a set of naturals.
LEMMA SetInduction ==
  ASSUME NEW S \in SUBSET Nat, 0 \in S, \A n \in S : n + 1 \in S
  PROVE S = Nat
<1> SUFFICES ASSUME Nat \ S # {} PROVE FALSE
  BY Zenon
<1>1. PICK n \in Nat \ S : \A m \in Nat \ S : n <= m
  BY LeastNatural, Zenon
<1>2. n # 0 /\ n - 1 \in Nat /\ n - 1 \in S
  BY <1>1
<1> QED BY <1>1, <1>2

\* f holds the rooms that restore passes through in the first k events of s.
Runs(f, c, s, k) ==
  f = [n \in 0 .. k |-> IF n = 0 THEN Create(c) ELSE Apply(f[n - 1], s[n])]

\* There is such a function for every prefix.
LEMMA RunExists ==
  ASSUME NEW c, NEW s, NEW k \in Nat
  PROVE \E f : Runs(f, c, s, k)
<1> DEFINE P == {m \in Nat : \E f : Runs(f, c, s, m)}
<1>1. 0 \in P
  <2> DEFINE f == [n \in 0 .. 0 |-> Create(c)]
  <2>1. Runs(f, c, s, 0)
    BY DEF Runs
  <2> QED BY <2>1
<1>2. ASSUME NEW m \in P PROVE m + 1 \in P
  <2>1. PICK f : Runs(f, c, s, m)
    OBVIOUS
  <2> DEFINE g == [n \in 0 .. m + 1 |->
                     IF n = m + 1 THEN Apply(f[m], s[m + 1]) ELSE f[n]]
  <2>2. \A n \in 0 .. m : f[n] = IF n = 0 THEN Create(c)
                                 ELSE Apply(f[n - 1], s[n])
    BY <2>1 DEF Runs
  <2>3. \A n \in 0 .. m + 1 :
          g[n] = IF n = 0 THEN Create(c) ELSE Apply(g[n - 1], s[n])
    BY <2>2
  <2>4. Runs(g, c, s, m + 1)
    BY <2>3 DEF Runs
  <2> QED BY <2>4
<1>3. P = Nat
  <2> HIDE DEF P
  <2>1. P \in SUBSET Nat
    BY DEF P
  <2> QED BY <1>1, <1>2, <2>1, SetInduction
<1> QED BY <1>3

\* Restore yields its last room.
LEMMA RestoreRuns ==
  ASSUME NEW c, NEW s, Len(s) \in Nat
  PROVE \E f : Runs(f, c, s, Len(s)) /\ Restore(c, s) = f[Len(s)]
<1>1. PICK f : Runs(f, c, s, Len(s))
  BY RunExists
<1>2. Runs(CHOOSE g : Runs(g, c, s, Len(s)), c, s, Len(s))
  BY <1>1
<1>3. Restore(c, s) = (CHOOSE g : Runs(g, c, s, Len(s)))[Len(s)]
  BY DEF Restore, Runs
<1> QED BY <1>2, <1>3, Zenon

\* Two logs that agree on a prefix pass through the same rooms there.
LEMMA RunsAgree ==
  ASSUME NEW c, NEW s, NEW t, NEW k \in Nat, NEW m \in Nat, NEW f, NEW g,
         Runs(f, c, s, k), Runs(g, c, t, m),
         k <= m, \A n \in 1 .. k : s[n] = t[n]
  PROVE  \A n \in 0 .. k : f[n] = g[n]
<1> DEFINE P == {n \in Nat : n <= k => f[n] = g[n]}
<1>0. /\ \A n \in 0 .. k : f[n] = IF n = 0 THEN Create(c)
                                ELSE Apply(f[n - 1], s[n])
      /\ \A n \in 0 .. m : g[n] = IF n = 0 THEN Create(c)
                                ELSE Apply(g[n - 1], t[n])
  BY DEF Runs
<1>1. 0 \in P
  BY <1>0
<1>2. ASSUME NEW n \in P PROVE n + 1 \in P
  BY <1>0
<1>3. P = Nat
  <2> HIDE DEF P
  <2>1. P \in SUBSET Nat
    BY DEF P
  <2> QED BY <1>1, <1>2, <2>1, SetInduction
<1> QED BY <1>3

\* What appending does to a sequence.
LEMMA AppendFacts ==
  ASSUME NEW D, NEW s \in Seq(D), NEW e \in D
  PROVE  /\ Append(s, e) \in Seq(D) /\ Len(s) \in Nat
         /\ Len(Append(s, e)) = Len(s) + 1
         /\ Append(s, e)[Len(s) + 1] = e
         /\ DOMAIN Append(s, e) = DOMAIN s \cup {Len(s) + 1}
         /\ \A i \in DOMAIN s : Append(s, e)[i] = s[i]
<1>1. /\ Append(s, e) \in Seq(D) /\ Len(s) \in Nat
      /\ Len(Append(s, e)) = Len(s) + 1
      /\ Append(s, e)[Len(s) + 1] = e
  OBVIOUS
<1>2. DOMAIN Append(s, e) = 1 .. Len(s) + 1 /\ DOMAIN s = 1 .. Len(s)
  OBVIOUS
<1>3. DOMAIN Append(s, e) = DOMAIN s \cup {Len(s) + 1}
  BY <1>1, <1>2
<1>4. \A i \in DOMAIN s : Append(s, e)[i] = s[i]
  OBVIOUS
<1> QED
  BY <1>1, <1>3, <1>4

\* A log without events describes the room that was created.
LEMMA RestoreEmpty ==
  ASSUME NEW c PROVE Restore(c, <<>>) = Create(c)
<1>1. PICK f : Runs(f, c, <<>>, 0) /\ Restore(c, <<>>) = f[0]
  BY RestoreRuns
<1> QED BY <1>1 DEF Runs

\* One event more is one apply more.
LEMMA RestoreAppend ==
  ASSUME NEW c, NEW D, NEW s \in Seq(D), NEW e \in D
  PROVE  Restore(c, Append(s, e)) = Apply(Restore(c, s), e)
<1> DEFINE k == Len(s)  t == Append(s, e)
<1>0. k \in Nat /\ Len(t) = k + 1 /\ t[k + 1] = e
        /\ \A n \in 1 .. k : s[n] = t[n]
  OBVIOUS
<1> HIDE DEF k, t
<1>a. Len(s) = k
  BY DEF k
<1>1. PICK f : Runs(f, c, s, k) /\ Restore(c, s) = f[k]
  BY <1>0, <1>a, RestoreRuns
<1>b. k + 1 \in Nat
  BY <1>0
<1>2. PICK g : Runs(g, c, t, k + 1) /\ Restore(c, t) = g[k + 1]
  BY <1>0, <1>b, RestoreRuns
<1>3. f[k] = g[k]
  <2>1. k + 1 \in Nat /\ k <= k + 1 /\ k \in 0 .. k
    BY <1>0
  <2>2. \A n \in 0 .. k : f[n] = g[n]
    BY <1>0, <1>1, <1>2, <2>1, RunsAgree
  <2> QED BY <2>1, <2>2
<1>4. g[k + 1] = Apply(g[k], t[k + 1])
  BY <1>0, <1>2 DEF Runs
<1> QED BY <1>0, <1>1, <1>2, <1>3, <1>4 DEF t

-----------------------------------------------------------------------------
(* What apply keeps.                                                       *)

\* A bounded queue gains nothing but the new entry.
LEMMA RememberKeeps ==
  ASSUME NEW D, NEW queue \in Seq(D), NEW x \in D, NEW limit \in Nat \ {0}
  PROVE  /\ Remember(queue, x, limit) \in Seq(D)
         /\ Range(Remember(queue, x, limit)) \subseteq Range(queue) \cup {x}
<1> DEFINE longer == IF x \in Range(queue) THEN queue ELSE Append(queue, x)
<1>1. longer \in Seq(D) /\ Range(longer) \subseteq Range(queue) \cup {x}
  <2>1. Append(queue, x) \in Seq(D)
        /\ Range(Append(queue, x)) \subseteq Range(queue) \cup {x}
    BY DEF Range
  <2> QED
    BY <2>1
<1>2. Remember(queue, x, limit) =
        IF Len(longer) > limit THEN Tail(longer) ELSE longer
  BY DEF Remember
<1> HIDE DEF longer
<1>3. ASSUME Len(longer) > limit
      PROVE  /\ Tail(longer) \in Seq(D)
             /\ Range(Tail(longer)) \subseteq Range(longer)
  <2>1. longer # <<>>
    BY <1>1, <1>3
  <2> QED
    BY <1>1, <2>1 DEF Range
<1> QED
  BY <1>1, <1>2, <1>3

\* The kinds of command.
Types == {"join", "leave", "start", "stop", "end", "chat", "custom",
          "setrole", "gift"}

\* The fields of a command.
LEMMA CommandFields ==
  ASSUME NEW c \in Commands
  PROVE  /\ c.type \in Types /\ c.user \in Users
         /\ c.type = "setrole" => c.target \in Users /\ c.role \in Roles
         /\ c.type = "gift" => c.target \in Users /\ c.tx \in Transactions
  BY DEF Commands, Types

\* The transaction that a command carries.
GiftsOfCommand(c) == IF c.type = "gift" THEN {c.tx} ELSE {}

\* What the match of apply changes.
LEMMA ChangedKeeps ==
  ASSUME NEW room \in Room, NEW c \in Commands
  PROVE  /\ Changed(room, c) \in Room
         /\ Changed(room, c).sequence = room.sequence
         /\ Changed(room, c).commands = room.commands
         /\ Range(Changed(room, c).gifts)
              \subseteq Range(room.gifts) \cup GiftsOfCommand(c)
<1> USE CommandFields
<1>1. ASSUME NEW u \in Users, NEW role \in Roles \cup {NotMember}
      PROVE  /\ WithRole(room, u, role) \in Room
             /\ WithRole(room, u, role).sequence = room.sequence
             /\ WithRole(room, u, role).commands = room.commands
             /\ WithRole(room, u, role).gifts = room.gifts
  BY <1>1, Zenon DEF WithRole, Room
<1>2. CASE c.type = "join"
  <2>1. Changed(room, c) = WithRole(room, c.user, "audience")
    BY <1>2 DEF Changed
  <2> QED
    BY <1>1, <2>1 DEF Roles
<1>3. CASE c.type = "setrole"
  <2>1. Changed(room, c) = WithRole(room, c.target, c.role)
    BY <1>3 DEF Changed
  <2> QED
    BY <1>1, <1>3, <2>1
<1>4. CASE c.type = "leave"
  <2>1. Changed(room, c) = WithRole(room, c.user, NotMember)
    BY <1>4 DEF Changed
  <2> QED
    BY <1>1, <2>1
<1>5. CASE c.type = "start"
  BY <1>5 DEF Changed, Room
<1>6. CASE c.type = "stop"
  BY <1>6 DEF Changed, Room
<1>7. CASE c.type = "end"
  BY <1>7, Zenon DEF Changed, Room
<1>8. CASE c.type \in {"chat", "custom"}
  BY <1>8 DEF Changed
<1>9. CASE c.type = "gift"
  <2> DEFINE gifts == Remember(room.gifts, c.tx, GiftHistoryLimit)
  <2>1. Changed(room, c) = [room EXCEPT !.gifts = gifts]
    BY <1>9 DEF Changed, WithGift
  <2>2. room.gifts \in Seq(Transactions) /\ c.tx \in Transactions
    BY <1>9 DEF Room
  <2>3. gifts \in Seq(Transactions)
        /\ Range(gifts) \subseteq Range(room.gifts) \cup {c.tx}
    BY <2>2, RememberKeeps, HistoryAssumption
  <2> HIDE DEF gifts
  <2> QED
    BY <1>9, <2>1, <2>3, Zenon DEF Room, GiftsOfCommand
<1> QED
  BY <1>2, <1>3, <1>4, <1>5, <1>6, <1>7, <1>8, <1>9 DEF Types

\* apply yields a room, counts the event, and remembers nothing but the event.
LEMMA ApplyKeeps ==
  ASSUME NEW room \in Room, NEW id \in CommandIds, NEW c \in Commands
  PROVE  /\ Apply(room, Event(id, c)) \in Room
         /\ Apply(room, Event(id, c)).sequence = room.sequence + 1
         /\ Range(Apply(room, Event(id, c)).commands)
              \subseteq Range(room.commands) \cup {id}
         /\ Range(Apply(room, Event(id, c)).gifts)
              \subseteq Range(room.gifts) \cup GiftsOfCommand(c)
<1> DEFINE next == Changed(room, c)
           queue == Remember(room.commands, id, CommandHistoryLimit)
<1>1. /\ next \in Room /\ next.sequence = room.sequence
      /\ next.commands = room.commands
      /\ Range(next.gifts) \subseteq Range(room.gifts) \cup GiftsOfCommand(c)
  BY ChangedKeeps
<1>2. Apply(room, Event(id, c)) =
        [next EXCEPT !.sequence = next.sequence + 1,
                     !.commands = Remember(next.commands, id,
                                           CommandHistoryLimit)]
  BY <1>1, Zenon DEF Apply, Event, Room
<1>3. room.commands \in Seq(CommandIds) /\ room.sequence \in Nat
  BY DEF Room
<1>4. queue \in Seq(CommandIds)
      /\ Range(queue) \subseteq Range(room.commands) \cup {id}
  BY <1>3, RememberKeeps, HistoryAssumption
<1> HIDE DEF next, queue
<1>5. Remember(next.commands, id, CommandHistoryLimit) = queue
  BY <1>1 DEF queue
<1> DEFINE result == [next EXCEPT !.sequence = room.sequence + 1,
                                  !.commands = queue]
<1>6. Apply(room, Event(id, c)) = result
  BY <1>1, <1>2, <1>5
<1>7. /\ result \in Room /\ result.sequence = room.sequence + 1
      /\ result.commands = queue /\ result.gifts = next.gifts
  <2>1. room.sequence + 1 \in Nat
    BY <1>3
  <2> QED
    BY <1>1, <1>4, <2>1, Zenon DEF Room
<1> HIDE DEF result
<1> QED
  BY <1>1, <1>4, <1>6, <1>7

\* The room that a creation leaves.
LEMMA CreateIsRoom ==
  ASSUME NEW id \in CommandIds
  PROVE  /\ Create(id) \in Room /\ Create(id).sequence = 1
         /\ Range(Create(id).commands) = {id} /\ Range(Create(id).gifts) = {}
  BY DEF Create, Room, Roles, Range
==============================================================================
