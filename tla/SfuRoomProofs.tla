---------------------------- MODULE SfuRoomProofs ----------------------------
(***************************************************************************)
(* For any participants, tracks, subscriptions and limits: the tables of a *)
(* room agree, belong to someone bound and stay within their limits, and   *)
(* a track is removed only for its owner.                                  *)
(***************************************************************************)
EXTENDS SfuTableProofs, FiniteSetTheorems


-----------------------------------------------------------------------------
(* Limits.                                                                 *)

Fits(S, n) == IsFiniteSet(S) /\ Cardinality(S) <= n

Live(table) == {x \in DOMAIN table : table[x] # {}}

\* A part of what fits, fits.
LEMMA FitsSubset ==
  ASSUME NEW S, NEW n \in Nat, Fits(S, n), NEW T, T \subseteq S
  PROVE  Fits(T, n)
<1>1. IsFiniteSet(S) /\ Cardinality(S) <= n
  BY DEF Fits
<1>2. IsFiniteSet(T) /\ Cardinality(T) <= Cardinality(S)
  BY <1>1, FS_Subset
<1>3. Cardinality(S) \in Nat /\ Cardinality(T) \in Nat
  BY <1>1, <1>2, FS_CardinalityType
<1> QED
  BY <1>1, <1>2, <1>3 DEF Fits

\* One more fits below the limit.
LEMMA FitsOneMore ==
  ASSUME NEW S, NEW n \in Nat, Fits(S, n), Cardinality(S) < n,
         NEW x, NEW T, T \subseteq S \cup {x}
  PROVE  Fits(T, n)
<1>1. IsFiniteSet(S)
  BY DEF Fits
<1>2. Cardinality(S) \in Nat
  BY <1>1, FS_CardinalityType
<1>3. /\ IsFiniteSet(S \cup {x})
      /\ Cardinality(S \cup {x}) = IF x \in S THEN Cardinality(S)
                                              ELSE Cardinality(S) + 1
  BY <1>1, FS_AddElement
<1>4. Fits(S \cup {x}, n)
  BY <1>2, <1>3 DEF Fits
<1> QED
  BY <1>4, FitsSubset

\* One takes the place of another.
LEMMA FitsSwap ==
  ASSUME NEW S, NEW n \in Nat, Fits(S, n), NEW x \in S, NEW y,
         NEW T, T \subseteq (S \ {x}) \cup {y}
  PROVE  Fits(T, n)
<1>1. IsFiniteSet(S) /\ Cardinality(S) <= n
  BY DEF Fits
<1>2. Cardinality(S) \in Nat
  BY <1>1, FS_CardinalityType
<1>3. IsFiniteSet(S \ {x}) /\ Cardinality(S \ {x}) = Cardinality(S) - 1
  BY <1>1, FS_RemoveElement
<1>4. Cardinality(S \ {x}) \in Nat
  BY <1>3, FS_CardinalityType
<1>5. Fits(S \ {x}, n) /\ Cardinality(S \ {x}) < n
  BY <1>1, <1>2, <1>3, <1>4 DEF Fits
<1> QED
  BY <1>5, FitsOneMore

\* At most one is none or one.
LEMMA SingleFits ==
  ASSUME NEW S, Single(S)
  PROVE  Cardinality(S) <= 1
<1>1. CASE S = {}
  BY <1>1, FS_EmptySet
<1>2. CASE S # {}
  <2>1. PICK x : S = {x}
    BY <1>2 DEF Single
  <2> QED
    BY <2>1, FS_Singleton
<1> QED
  BY <1>1, <1>2

-----------------------------------------------------------------------------
(* The inductive invariant.                                                *)

TaskRecords ==
  [op : {"unpublish"}, by : People, tracks : SUBSET Tracks]
    \cup [op : {"forget"}, tracks : SUBSET Tracks]
    \cup [op : {"sink"}, track : Tracks, sink : Sinks]
    \cup [op : {"ingress"}, by : People, track : Tracks]

Shapes ==
  /\ tasks \subseteq TaskRecords
  /\ sinks \subseteq [track : Tracks, sink : Sinks]
  /\ ingresses \subseteq [by : People, track : Tracks]

\* A removal of the track is due, for this participant.
DueFor(t, p, ts, gs) ==
  \/ \E task \in ts : /\ task.op = "unpublish"
                      /\ t \in task.tracks /\ task.by = p
  \/ \E task \in ts : task.op = "ingress" /\ t = task.track /\ task.by = p
  \/ \E g \in gs : g.track = t /\ g.by = p

\* Who a removal is due for still owns the track, or the track is gone, or
\* its identifier was published again since.
Owed ==
  \A t \in Tracks \ reused : \A p \in People :
    DueFor(t, p, tasks, ingresses) => \A x \in core.tracks[t] : x.owner = p

Small ==
  /\ Fits(tasks, MaxTasks) /\ Fits(ingresses, MaxIngresses)
  /\ Fits(Live(core.tracks), MaxTracks) /\ Fits(Live(core.subs), MaxSubs)

SfuInv ==
  /\ Sound(core, managed) /\ Shapes /\ SinksHaveTracks /\ Owed /\ Small

\* Nothing is there at first.
LEMMA SfuStarts == SfuInit => SfuInv
<1> SUFFICES ASSUME SfuInit
             PROVE  SfuInv
  OBVIOUS
<1>1. /\ core = EmptyCore /\ managed = EmptyManaged /\ sinks = {}
      /\ ingresses = {} /\ tasks = {}
  BY DEF SfuInit
<1>2. /\ core \in Cores /\ managed \in Mirrors
      /\ core.tracks = [t \in Tracks |-> {}]
      /\ core.ssrcs = [s \in Ssrcs |-> {}]
      /\ core.subs = [d \in Subs |-> {}]
      /\ core.consumers = [t \in Tracks |-> {}]
      /\ core.outs = [o \in Outs |-> {}]
      /\ managed.bound = {}
      /\ managed.owners = [t \in Tracks |-> {}]
      /\ managed.inputs = [s \in Ssrcs |-> {}]
      /\ managed.subs = [d \in Subs |-> {}]
      /\ managed.congestion = [p \in People |-> {}]
  BY <1>1 DEF EmptyCore, EmptyManaged, Cores, Mirrors
<1>3. CoreAgrees(core)
  BY <1>2 DEF CoreAgrees, Single
<1>4. MirrorAgrees(core, managed) /\ Bounded(core, managed)
  BY <1>2 DEF MirrorAgrees, Bounded
<1>5. Shapes /\ SinksHaveTracks /\ Owed
  BY <1>1 DEF Shapes, SinksHaveTracks, Owed, DueFor
<1>6. Small
  <2>1. Live(core.tracks) = {} /\ Live(core.subs) = {}
    BY <1>2 DEF Live
  <2>2. ASSUME NEW n \in Nat
        PROVE  Fits({}, n)
    BY FS_EmptySet DEF Fits
  <2> QED
    BY <1>1, <2>1, <2>2, SfuAssumption DEF Small
<1> QED
  BY <1>2, <1>3, <1>4, <1>5, <1>6 DEF SfuInv, Sound


-----------------------------------------------------------------------------
(* The handlers outside the lock of the room.                              *)

\* What the invariant says of the tables is kept with them.
LEMMA TablesStay ==
  ASSUME SfuInv, UNCHANGED <<core, managed>>
  PROVE  /\ Sound(core', managed')
         /\ Fits(Live(core.tracks)', MaxTracks)
         /\ Fits(Live(core.subs)', MaxSubs)
         /\ \A t \in Tracks : core.tracks[t]' = core.tracks[t]
  BY DEF SfuInv, Small

\* A new task fits.
LEMMA LaterFits ==
  ASSUME SfuInv, NEW task, Later(task), tasks' = tasks \cup {task}
  PROVE  Fits(tasks', MaxTasks)
<1>1. IsFiniteSet(tasks)
  BY DEF SfuInv, Small, Fits
<1>2. IsFiniteSet(tasks \cup {task})
  BY <1>1, FS_AddElement
<1> QED
  BY <1>2 DEF Later, Fits

\* unpublish_owned: the removal is due for the owner.
LEMMA UnpublishOwnedKeeps ==
  ASSUME SfuInv, NEW p \in People, NEW t \in Tracks, UnpublishOwned(p, t)
  PROVE  SfuInv'
<1> DEFINE task == [op |-> "unpublish", by |-> p, tracks |-> {t}]
<1>1. /\ managed.owners[t] = {p} /\ Later(task) /\ tasks' = tasks \cup {task}
      /\ UNCHANGED <<core, managed, sinks, ingresses, reused, slipped>>
  BY Zenon DEF UnpublishOwned
<1>2. /\ task \in TaskRecords /\ task.op = "unpublish" /\ task.by = p
      /\ task.tracks = {t}
  BY DEF TaskRecords
<1> HIDE DEF task
<1>3. Shapes'
  BY <1>1, <1>2, Zenon DEF SfuInv, Shapes
<1>4. SinksHaveTracks'
  BY <1>1 DEF SfuInv, SinksHaveTracks
<1>5. Owed'
  <2>1. \A x \in core.tracks[t] : x.owner = p
    <3>1. \A x \in core.tracks[t] : x.owner \in People
      BY DEF SfuInv, Sound, Cores, TrackRecords
    <3>2. \A x \in core.tracks[t] : x.owner \in managed.owners[t]
      BY <3>1 DEF SfuInv, Sound, MirrorAgrees
    <3> QED
      BY <1>1, <3>2
  <2>2. ASSUME NEW u \in Tracks, u \notin reused, NEW q \in People,
               DueFor(u, q, tasks', ingresses')
        PROVE  \A x \in core.tracks[u] : x.owner = q
    <3>1. DueFor(u, q, tasks, ingresses) \/ (u = t /\ q = p)
      BY <1>1, <1>2, <2>2 DEF DueFor
    <3> QED
      BY <2>1, <2>2, <3>1 DEF SfuInv, Owed
  <2> QED
    BY <1>1, <2>2 DEF Owed
<1>6. Small'
  BY <1>1, LaterFits, TablesStay DEF SfuInv, Small
<1> QED
  BY <1>1, <1>3, <1>4, <1>5, <1>6, TablesStay DEF SfuInv

\* Tasks and ingresses without new duties keep the old ones.
LEMMA NothingNewIsDue ==
  ASSUME SfuInv, UNCHANGED <<core, reused>>,
         \A t \in Tracks : \A p \in People :
           DueFor(t, p, tasks', ingresses') => DueFor(t, p, tasks, ingresses)
  PROVE  Owed'
  BY DEF SfuInv, Owed

\* The sinks of tracks that left.
LEMMA ForgetSinksKeeps ==
  ASSUME SfuInv, NEW task, ForgetSinks(task)
  PROVE  SfuInv'
<1>1. /\ task \in tasks /\ task.op = "forget" /\ tasks' = tasks \ {task}
      /\ sinks' = {s \in sinks : s.track \notin task.tracks}
      /\ slipped' = slipped \ task.tracks
      /\ UNCHANGED <<core, managed, ingresses, reused>>
  BY DEF ForgetSinks
<1>2. Shapes'
  BY <1>1 DEF SfuInv, Shapes
<1>3. SinksHaveTracks'
  BY <1>1 DEF SfuInv, SinksHaveTracks
<1>4. Owed'
  BY <1>1, NothingNewIsDue DEF DueFor
<1>5. Small'
  <2>1. Fits(tasks, MaxTasks) /\ tasks' \subseteq tasks
    BY <1>1 DEF SfuInv, Small
  <2>2. Fits(tasks', MaxTasks)
    BY <2>1, FitsSubset, SfuAssumption
  <2> QED
    BY <1>1, <2>2, TablesStay DEF SfuInv, Small
<1> QED
  BY <1>1, <1>2, <1>3, <1>4, <1>5, TablesStay DEF SfuInv

\* add_recording_sink_for_ssrc: a task.
LEMMA AddSinkKeeps ==
  ASSUME SfuInv, NEW t \in Tracks, NEW sink \in Sinks, AddSink(t, sink)
  PROVE  SfuInv'
<1> DEFINE task == [op |-> "sink", track |-> t, sink |-> sink]
<1>1. /\ Later(task) /\ tasks' = tasks \cup {task}
      /\ UNCHANGED <<core, managed, sinks, ingresses, reused, slipped>>
  BY Zenon DEF AddSink
<1>2. task \in TaskRecords /\ task.op = "sink"
  BY DEF TaskRecords
<1> HIDE DEF task
<1>3. Shapes'
  BY <1>1, <1>2, Zenon DEF SfuInv, Shapes
<1>4. SinksHaveTracks'
  BY <1>1 DEF SfuInv, SinksHaveTracks
<1>5. Owed'
  BY <1>1, <1>2, NothingNewIsDue DEF DueFor
<1>6. Small'
  BY <1>1, LaterFits, TablesStay, Zenon DEF SfuInv, Small
<1> QED
  BY <1>1, <1>3, <1>4, <1>5, <1>6, TablesStay DEF SfuInv

\* The sink goes in, remembered as slipped when its track has left.
LEMMA InsertSinkKeeps ==
  ASSUME SfuInv, NEW task, InsertSink(task)
  PROVE  SfuInv'
<1> DEFINE new == [track |-> task.track, sink |-> task.sink]
<1>1. /\ task \in tasks /\ task.op = "sink" /\ tasks' = tasks \ {task}
      /\ sinks' = sinks \cup {new}
      /\ slipped' = IF core.tracks[task.track] # {} THEN slipped
                    ELSE slipped \cup {task.track}
      /\ UNCHANGED <<core, managed, ingresses, reused>>
  BY Zenon DEF InsertSink
<1>2. task.track \in Tracks /\ task.sink \in Sinks
  BY <1>1 DEF SfuInv, Shapes, TaskRecords
<1>3. new \in [track : Tracks, sink : Sinks] /\ new.track = task.track
  BY <1>2
<1> HIDE DEF new
<1>4. Shapes'
  BY <1>1, <1>3, Zenon DEF SfuInv, Shapes
<1>5. SinksHaveTracks'
  <2>1. ASSUME NEW s \in sinks'
        PROVE  \/ core.tracks[s.track] # {}
               \/ s.track \in slipped'
               \/ \E x \in tasks' : x.op = "forget" /\ s.track \in x.tracks
    <3>1. CASE s = new
      BY <1>1, <1>3, <3>1
    <3>2. CASE s \in sinks
      BY <1>1, <3>2 DEF SfuInv, SinksHaveTracks
    <3> QED
      BY <1>1, <2>1, <3>1, <3>2
  <2> QED
    BY <1>1, <2>1 DEF SinksHaveTracks
<1>6. Owed'
  BY <1>1, NothingNewIsDue DEF DueFor
<1>7. Small'
  <2>1. Fits(tasks, MaxTasks) /\ tasks' \subseteq tasks
    BY <1>1 DEF SfuInv, Small
  <2>2. Fits(tasks', MaxTasks)
    BY <2>1, FitsSubset, SfuAssumption
  <2> QED
    BY <1>1, <2>2, TablesStay DEF SfuInv, Small
<1> QED
  BY <1>1, <1>4, <1>5, <1>6, <1>7, TablesStay DEF SfuInv

\* remove_recording_sink_destination.
LEMMA RemoveSinkKeeps ==
  ASSUME SfuInv, NEW s, RemoveSink(s)
  PROVE  SfuInv'
<1>1. /\ sinks' = sinks \ {s}
      /\ slipped' = {t \in slipped : \E x \in sinks' : x.track = t}
      /\ UNCHANGED <<core, managed, ingresses, tasks, reused>>
  BY DEF RemoveSink
<1>2. Shapes'
  BY <1>1 DEF SfuInv, Shapes
<1>3. SinksHaveTracks'
  BY <1>1 DEF SfuInv, SinksHaveTracks
<1>4. Owed'
  BY <1>1, NothingNewIsDue
<1>5. Small'
  BY <1>1, TablesStay DEF SfuInv, Small
<1> QED
  BY <1>1, <1>2, <1>3, <1>4, <1>5, TablesStay DEF SfuInv


\* An ingress is kept for its creator, or its track is to go again.
LEMMA KeepIngressKeeps ==
  ASSUME SfuInv, NEW task, KeepIngress(task)
  PROVE  SfuInv'
<1> DEFINE kept == [by |-> task.by, track |-> task.track]
           undo == [op |-> "unpublish", by |-> task.by,
                    tracks |-> {task.track}]
<1>1. /\ task \in tasks /\ task.op = "ingress"
      /\ UNCHANGED <<core, managed, sinks, reused, slipped>>
      /\ \/ /\ Cardinality(ingresses) < MaxIngresses
            /\ tasks' = tasks \ {task} /\ ingresses' = ingresses \cup {kept}
         \/ tasks' = (tasks \ {task}) \cup {undo} /\ UNCHANGED ingresses
  BY Zenon DEF KeepIngress
<1>2. task.by \in People /\ task.track \in Tracks
  BY <1>1 DEF SfuInv, Shapes, TaskRecords
<1>3. /\ kept \in [by : People, track : Tracks]
      /\ kept.by = task.by /\ kept.track = task.track
      /\ undo \in TaskRecords /\ undo.op = "unpublish" /\ undo.by = task.by
      /\ undo.tracks = {task.track}
  BY <1>2 DEF TaskRecords
<1> HIDE DEF kept, undo
<1>4. Shapes'
  BY <1>1, <1>3 DEF SfuInv, Shapes
<1>5. SinksHaveTracks'
  BY <1>1 DEF SfuInv, SinksHaveTracks
<1>6. Owed'
  <2>1. ASSUME NEW t \in Tracks, NEW p \in People,
               DueFor(t, p, tasks', ingresses')
        PROVE  DueFor(t, p, tasks, ingresses)
    <3>1. DueFor(t, p, tasks, ingresses) \/ (t = task.track /\ p = task.by)
      BY <1>1, <1>3, <2>1 DEF DueFor
    <3> QED
      BY <1>1, <3>1 DEF DueFor
  <2> QED
    BY <1>1, <2>1, NothingNewIsDue
<1>7. Small'
  <2>1. Fits(tasks, MaxTasks) /\ Fits(ingresses, MaxIngresses)
    BY DEF SfuInv, Small
  <2>2. tasks' \subseteq (tasks \ {task}) \cup {undo}
    BY <1>1
  <2>3. Fits(tasks', MaxTasks)
    BY <1>1, <2>1, <2>2, FitsSwap, SfuAssumption, Zenon
  <2>4. Fits(ingresses', MaxIngresses)
    <3>1. CASE Cardinality(ingresses) < MaxIngresses
      <4>1. ingresses' \subseteq ingresses \cup {kept}
        BY <1>1
      <4> QED
        BY <2>1, <3>1, <4>1, FitsOneMore, SfuAssumption
    <3>2. CASE ~(Cardinality(ingresses) < MaxIngresses)
      BY <1>1, <2>1, <3>2
    <3> QED
      BY <3>1, <3>2
  <2> QED
    BY <1>1, <2>3, <2>4, TablesStay DEF Small
<1> QED
  BY <1>1, <1>4, <1>5, <1>6, <1>7, TablesStay DEF SfuInv

\* delete_transcode_ingress: what was due of the ingress is due of the task.
LEMMA DeleteIngressKeeps ==
  ASSUME SfuInv, NEW g, DeleteIngress(g)
  PROVE  SfuInv'
<1> DEFINE task == [op |-> "unpublish", by |-> g.by, tracks |-> {g.track}]
<1>1. /\ g \in ingresses /\ Later(task) /\ tasks' = tasks \cup {task}
      /\ ingresses' = ingresses \ {g}
      /\ UNCHANGED <<core, managed, sinks, reused, slipped>>
  BY Zenon DEF DeleteIngress
<1>2. g.by \in People /\ g.track \in Tracks
  BY <1>1 DEF SfuInv, Shapes
<1>3. /\ task \in TaskRecords /\ task.op = "unpublish" /\ task.by = g.by
      /\ task.tracks = {g.track}
  BY <1>2 DEF TaskRecords
<1> HIDE DEF task
<1>4. Shapes'
  BY <1>1, <1>3 DEF SfuInv, Shapes
<1>5. SinksHaveTracks'
  BY <1>1 DEF SfuInv, SinksHaveTracks
<1>6. Owed'
  <2>1. ASSUME NEW t \in Tracks, NEW p \in People,
               DueFor(t, p, tasks', ingresses')
        PROVE  DueFor(t, p, tasks, ingresses)
    <3>1. DueFor(t, p, tasks, ingresses) \/ (t = g.track /\ p = g.by)
      BY <1>1, <1>3, <2>1 DEF DueFor
    <3> QED
      BY <1>1, <3>1 DEF DueFor
  <2> QED
    BY <1>1, <2>1, NothingNewIsDue
<1>7. Small'
  <2>1. Fits(ingresses, MaxIngresses) /\ ingresses' \subseteq ingresses
    BY <1>1 DEF SfuInv, Small
  <2>2. Fits(ingresses', MaxIngresses)
    BY <2>1, FitsSubset, SfuAssumption
  <2> QED
    BY <1>1, <2>2, LaterFits, TablesStay DEF Small
<1> QED
  BY <1>1, <1>4, <1>5, <1>6, <1>7, TablesStay DEF SfuInv

-----------------------------------------------------------------------------
(* The handlers under the lock of the room.                                *)

\* bind_session.
LEMMA BindKeeps ==
  ASSUME SfuInv, NEW p \in People, Bind(p)
  PROVE  SfuInv'
<1>0. managed \in Mirrors /\ core \in Cores
  BY DEF SfuInv, Sound
<1>1. /\ managed' = [managed EXCEPT !.bound = managed.bound \cup {p}]
      /\ UNCHANGED <<core, sinks, ingresses, tasks, reused, slipped>>
  BY DEF Bind
<1>2. /\ managed' \in Mirrors /\ managed'.bound = managed.bound \cup {p}
      /\ managed'.owners = managed.owners /\ managed'.inputs = managed.inputs
      /\ managed'.subs = managed.subs
      /\ managed'.congestion = managed.congestion
  BY <1>0, <1>1 DEF Mirrors
<1>3. Sound(core', managed')
  <2>1. CoreAgrees(core) /\ MirrorAgrees(core, managed)
        /\ Bounded(core, managed)
    BY DEF SfuInv, Sound
  <2>2. MirrorAgrees(core, managed')
    BY <1>2, <2>1 DEF MirrorAgrees
  <2>3. Bounded(core, managed')
    BY <1>2, <2>1 DEF Bounded
  <2> QED
    BY <1>0, <1>1, <1>2, <2>1, <2>2, <2>3 DEF Sound
<1>4. Shapes' /\ SinksHaveTracks' /\ Small'
  BY <1>1 DEF SfuInv, Shapes, SinksHaveTracks, Small
<1>5. Owed'
  BY <1>1, NothingNewIsDue
<1> QED
  BY <1>3, <1>4, <1>5 DEF SfuInv

\* A removal that is due is due for someone.
LEMMA DueIsFor ==
  ASSUME SfuInv, NEW t \in Tracks
  PROVE  \A p \in People :
           DueFor(t, p, tasks, ingresses) => Due(t, tasks, ingresses)
  BY DEF DueFor, Due

\* SfuRegistry::publish: a removal that was due of the identifier is
\* remembered, and there is one track more.
LEMMA PublishedKeeps ==
  ASSUME SfuInv, NEW p \in People, NEW t \in Tracks,
         NEW ssrcs \in SUBSET Ssrcs,
         Published([id |-> t, owner |-> p, ssrcs |-> ssrcs])
  PROVE  /\ Sound(core', managed')
         /\ core'.tracks[t] = {[owner |-> p, ssrcs |-> ssrcs]}
         /\ \A u \in Tracks : core.tracks[u] # {} => core'.tracks[u] # {}
         /\ \A u \in Tracks \ reused' : \A q \in People :
              DueFor(u, q, tasks, ingresses) =>
                \A x \in core'.tracks[u] : x.owner = q
         /\ Fits(Live(core'.tracks), MaxTracks)
         /\ Fits(Live(core'.subs), MaxSubs)
<1>0. Sound(core, managed) /\ core \in Cores /\ managed \in Mirrors
  BY DEF SfuInv, Sound
<1>1. /\ Sound(core', managed')
      /\ core'.tracks[t] = {[owner |-> p, ssrcs |-> ssrcs]}
      /\ \A u \in Tracks : u # t => core'.tracks[u] = core.tracks[u]
      /\ core'.subs = core.subs
  BY <1>0, TrackArrives
<1>2. Count(core.tracks) < MaxTracks /\ core.tracks[t] = {}
  <2>1. HasPublished(p, t, ssrcs)
    BY <1>0, PublishedFields
  <2> QED
    BY <2>1 DEF HasPublished
<1>3. core' \in Cores
  BY <1>1 DEF Sound
<1>4. \A u \in Tracks : core.tracks[u] # {} => core'.tracks[u] # {}
  BY <1>1, <1>2
<1>5. reused' = IF Due(t, tasks, ingresses) THEN reused \cup {t} ELSE reused
  <2> DEFINE rec == [id |-> t, owner |-> p, ssrcs |-> ssrcs]
  <2>1. RememberSource(rec.id) /\ rec.id = t
    BY SMTT(30) DEF Published
  <2> HIDE DEF rec
  <2> QED
    BY <2>1 DEF RememberSource
<1>6. ASSUME NEW u \in Tracks, u \notin reused', NEW q \in People,
             DueFor(u, q, tasks, ingresses)
      PROVE  \A x \in core'.tracks[u] : x.owner = q
  <2>1. Due(u, tasks, ingresses)
    BY <1>6, DueIsFor
  <2>2. u # t /\ u \notin reused
    BY <1>5, <1>6, <2>1
  <2> QED
    BY <1>1, <1>6, <2>2 DEF SfuInv, Owed
<1>7. Fits(Live(core'.tracks), MaxTracks)
  <2>1. Fits(Live(core.tracks), MaxTracks)
    BY DEF SfuInv, Small
  <2>2. Cardinality(Live(core.tracks)) < MaxTracks
    BY <1>2 DEF Count, Live
  <2>3. DOMAIN core'.tracks = Tracks /\ DOMAIN core.tracks = Tracks
    BY <1>0, <1>3 DEF Cores
  <2>4. Live(core'.tracks) \subseteq Live(core.tracks) \cup {t}
    BY <1>1, <2>3 DEF Live
  <2> QED
    BY <2>1, <2>2, <2>4, FitsOneMore, SfuAssumption
<1>8. Fits(Live(core'.subs), MaxSubs)
  BY <1>1 DEF SfuInv, Small
<1> QED
  BY <1>1, <1>4, <1>6, <1>7, <1>8

\* Publish.
LEMMA PublishKeeps ==
  ASSUME SfuInv, NEW p \in People, NEW t \in Tracks,
         NEW ssrcs \in SUBSET Ssrcs, Publish(p, t, ssrcs)
  PROVE  SfuInv'
<1>1. /\ Published([id |-> t, owner |-> p, ssrcs |-> ssrcs])
      /\ UNCHANGED <<sinks, ingresses, tasks, slipped>>
  BY Zenon DEF Publish
<1>2. /\ Sound(core', managed')
      /\ \A u \in Tracks : core.tracks[u] # {} => core'.tracks[u] # {}
      /\ \A u \in Tracks \ reused' : \A q \in People :
           DueFor(u, q, tasks, ingresses) =>
             \A x \in core'.tracks[u] : x.owner = q
      /\ Fits(Live(core'.tracks), MaxTracks)
      /\ Fits(Live(core'.subs), MaxSubs)
  BY <1>1, PublishedKeeps, Zenon
<1>3. Shapes'
  BY <1>1, SMTT(30) DEF SfuInv, Shapes
<1>4. SinksHaveTracks'
  BY <1>1, <1>2, SMTT(30) DEF SfuInv, SinksHaveTracks, Shapes
<1>5. Owed'
  BY <1>1, <1>2 DEF Owed
<1>6. Small'
  BY <1>1, <1>2, SMTT(30) DEF SfuInv, Small
<1> QED
  BY <1>2, <1>3, <1>4, <1>5, <1>6 DEF SfuInv


\* create_transcode_ingress: the task is due for the publisher.
LEMMA CreateIngressKeeps ==
  ASSUME SfuInv, NEW p \in People, NEW t \in Tracks, NEW s \in Ssrcs,
         CreateIngress(p, t, s)
  PROVE  SfuInv'
<1> DEFINE task == [op |-> "ingress", by |-> p, track |-> t]
<1>1. /\ Published([id |-> t, owner |-> p, ssrcs |-> {s}]) /\ Later(task)
      /\ tasks' = tasks \cup {task} /\ UNCHANGED <<sinks, ingresses, slipped>>
  BY Zenon DEF CreateIngress
<1>2. /\ Sound(core', managed')
      /\ core'.tracks[t] = {[owner |-> p, ssrcs |-> {s}]}
      /\ \A u \in Tracks : core.tracks[u] # {} => core'.tracks[u] # {}
      /\ \A u \in Tracks \ reused' : \A q \in People :
           DueFor(u, q, tasks, ingresses) =>
             \A x \in core'.tracks[u] : x.owner = q
      /\ Fits(Live(core'.tracks), MaxTracks)
      /\ Fits(Live(core'.subs), MaxSubs)
  <2>1. {s} \in SUBSET Ssrcs
    OBVIOUS
  <2> QED
    BY <1>1, <2>1, PublishedKeeps, Zenon
<1>3. task \in TaskRecords /\ task.op = "ingress" /\ task.by = p
      /\ task.track = t
  BY DEF TaskRecords
<1> HIDE DEF task
<1>4. Shapes'
  BY <1>1, <1>3, SMTT(30) DEF SfuInv, Shapes
<1>5. SinksHaveTracks'
  BY <1>1, <1>2 DEF SfuInv, SinksHaveTracks, Shapes
<1>6. Owed'
  <2>1. ASSUME NEW u \in Tracks, u \notin reused', NEW q \in People,
               DueFor(u, q, tasks', ingresses')
        PROVE  \A x \in core'.tracks[u] : x.owner = q
    <3>1. DueFor(u, q, tasks, ingresses) \/ (u = t /\ q = p)
      BY <1>1, <1>3, <2>1 DEF DueFor
    <3>2. \A x \in core'.tracks[t] : x.owner = p
      BY <1>2, SMTT(30)
    <3> QED
      BY <1>2, <2>1, <3>1, <3>2, SMTT(30)
  <2> QED
    BY <2>1, SMTT(30) DEF Owed
<1>7. Small'
  BY <1>1, <1>2, LaterFits, Zenon DEF SfuInv, Small
<1> QED
  BY <1>2, <1>4, <1>5, <1>6, <1>7 DEF SfuInv

\* subscribe: one subscription more.
LEMMA SubscribeKeeps ==
  ASSUME SfuInv, NEW p \in People, NEW d \in Subs, NEW t \in Tracks,
         NEW out \in Outs, NEW twcc \in BOOLEAN,
         Subscribe(p, d, t, out, twcc)
  PROVE  SfuInv'
<1>0. Sound(core, managed) /\ core \in Cores
  BY DEF SfuInv, Sound
<1>1. /\ Subscribed(p, d, t, out, twcc)
      /\ UNCHANGED <<sinks, ingresses, tasks, reused, slipped>>
  BY DEF Subscribe
<1>2. /\ Sound(core', managed') /\ core'.tracks = core.tracks
      /\ Count(core.subs) < MaxSubs
      /\ \A e \in Subs : e # d => core'.subs[e] = core.subs[e]
  BY <1>0, <1>1, SubscriptionArrives
<1>3. Shapes'
  BY <1>1 DEF SfuInv, Shapes
<1>4. SinksHaveTracks'
  BY <1>1, <1>2 DEF SfuInv, SinksHaveTracks
<1>5. Owed'
  BY <1>1, <1>2, SMTT(30) DEF SfuInv, Owed
<1>6. Small'
  <2>1. Fits(Live(core.subs), MaxSubs)
    BY DEF SfuInv, Small
  <2>2. Cardinality(Live(core.subs)) < MaxSubs
    BY <1>2 DEF Count, Live
  <2>3. DOMAIN core'.subs = Subs /\ DOMAIN core.subs = Subs
    BY <1>0, <1>2, SMTT(30) DEF Sound, Cores
  <2>4. Live(core'.subs) \subseteq Live(core.subs) \cup {d}
    BY <1>2, <2>3 DEF Live
  <2>5. Fits(Live(core'.subs), MaxSubs)
    BY <2>1, <2>2, <2>4, FitsOneMore, SfuAssumption
  <2> QED
    BY <1>1, <1>2, <2>5 DEF SfuInv, Small
<1> QED
  BY <1>2, <1>3, <1>4, <1>5, <1>6 DEF SfuInv

\* Tables that lose tracks or subscriptions stay within the limits.
LEMMA LosersFit ==
  ASSUME SfuInv, core' \in Cores,
         \A t \in Tracks : core'.tracks[t] \in {{}, core.tracks[t]},
         \A d \in Subs : core'.subs[d] \in {{}, core.subs[d]}
  PROVE  /\ Fits(Live(core'.tracks), MaxTracks)
         /\ Fits(Live(core'.subs), MaxSubs)
<1>1. /\ DOMAIN core'.subs = Subs /\ DOMAIN core.subs = Subs
      /\ DOMAIN core'.tracks = Tracks /\ DOMAIN core.tracks = Tracks
  BY DEF SfuInv, Sound, Cores
<1>2. /\ Live(core'.tracks) \subseteq Live(core.tracks)
      /\ Live(core'.subs) \subseteq Live(core.subs)
  BY <1>1 DEF Live
<1>3. /\ Fits(Live(core.tracks), MaxTracks)
      /\ Fits(Live(core.subs), MaxSubs)
  BY DEF SfuInv, Small
<1> QED
  BY <1>2, <1>3, FitsSubset, SfuAssumption

\* unsubscribe.
LEMMA UnsubscribeKeeps ==
  ASSUME SfuInv, NEW p \in People, NEW d \in Subs, Unsubscribe(p, d)
  PROVE  SfuInv'
<1>0. Sound(core, managed) /\ core \in Cores /\ {d} \in SUBSET Subs
  BY DEF SfuInv, Sound
<1>1. /\ core' = CoreUnsubscribes(core, {d}) /\ managed' = Forget(managed, {d})
      /\ UNCHANGED <<sinks, ingresses, tasks, reused, slipped>>
  BY DEF Unsubscribe, Unsubscribed
<1>2. Sound(core', managed')
  BY <1>0, <1>1, SubscriptionsLeave
<1>3. /\ core' \in Cores /\ core'.tracks = core.tracks
      /\ \A e \in Subs : core'.subs[e] = IF e \in {d} THEN {} ELSE core.subs[e]
  BY <1>0, <1>1, UnsubscribeFields
<1>4. Shapes'
  BY <1>1 DEF SfuInv, Shapes
<1>5. SinksHaveTracks'
  BY <1>1, <1>3 DEF SfuInv, SinksHaveTracks
<1>6. Owed'
  BY <1>1, <1>3 DEF SfuInv, Owed
<1>7. Small'
  <2>1. /\ Fits(Live(core'.tracks), MaxTracks)
        /\ Fits(Live(core'.subs), MaxSubs)
    BY <1>3, LosersFit
  <2> QED
    BY <1>1, <2>1 DEF SfuInv, Small
<1> QED
  BY <1>2, <1>4, <1>5, <1>6, <1>7 DEF SfuInv

\* SfuRegistry::unpublish: the tracks go, their sinks are to be forgotten.
LEMMA UnpublishKeeps ==
  ASSUME SfuInv, NEW task, Unpublish(task)
  PROVE  SfuInv'
<1> DEFINE gone == {t \in task.tracks : core.tracks[t] # {}}
           forget == [op |-> "forget", tracks |-> gone]
<1>1. /\ task \in tasks /\ task.op = "unpublish" /\ TracksLeave(gone)
      /\ tasks' = (tasks \ {task}) \cup
           {[op |-> "forget", tracks |-> g] : g \in {gone} \ {{}}}
      /\ reused' = {t \in reused : Due(t, tasks', ingresses)}
      /\ UNCHANGED <<sinks, ingresses, slipped>>
  BY Zenon DEF Unpublish
<1>2. gone \in SUBSET Tracks
  BY <1>1 DEF SfuInv, Shapes, TaskRecords
<1>3. /\ tasks' \subseteq (tasks \ {task}) \cup {forget}
      /\ tasks \ {task} \subseteq tasks'
      /\ gone # {} => forget \in tasks'
  BY <1>1, Zenon
<1>4. /\ forget \in TaskRecords /\ forget.op = "forget"
      /\ forget.tracks = gone
  BY <1>2 DEF TaskRecords
<1>5. \A t \in Tracks : t \in gone => core.tracks[t] # {}
  OBVIOUS
<1> HIDE DEF gone, forget
<1>6. /\ Sound(core', managed')
      /\ \A t \in Tracks : core'.tracks[t]
                             = IF t \in gone THEN {} ELSE core.tracks[t]
      /\ \A d \in Subs : core'.subs[d] \in {{}, core.subs[d]}
  BY <1>1, <1>2, TracksLeaveTogether DEF SfuInv
<1>7. Shapes'
  BY <1>1, <1>3, <1>4 DEF SfuInv, Shapes
<1>8. SinksHaveTracks'
  <2>1. ASSUME NEW s \in sinks
        PROVE  \/ core'.tracks[s.track] # {}
               \/ s.track \in slipped
               \/ \E x \in tasks' : x.op = "forget" /\ s.track \in x.tracks
    <3>1. s.track \in Tracks
      BY <2>1 DEF SfuInv, Shapes
    <3>2. CASE s.track \in gone
      BY <1>3, <1>4, <3>2
    <3>3. CASE s.track \notin gone
      <4>1. core'.tracks[s.track] = core.tracks[s.track]
        BY <1>6, <3>1, <3>3
      <4> QED
        BY <1>1, <1>3, <2>1, <4>1 DEF SfuInv, SinksHaveTracks
    <3> QED
      BY <3>2, <3>3
  <2> QED
    BY <1>1, <2>1 DEF SinksHaveTracks
<1>9. Owed'
  <2>1. ASSUME NEW u \in Tracks, u \notin reused', NEW q \in People,
               DueFor(u, q, tasks', ingresses')
        PROVE  \A x \in core'.tracks[u] : x.owner = q
    <3>1. DueFor(u, q, tasks, ingresses)
      BY <1>1, <1>3, <1>4, <2>1 DEF DueFor
    <3>2. Due(u, tasks', ingresses)
      BY <1>1, <2>1 DEF DueFor, Due
    <3>3. u \notin reused
      BY <1>1, <2>1, <3>2
    <3>4. \A x \in core.tracks[u] : x.owner = q
      BY <3>1, <3>3 DEF SfuInv, Owed
    <3> QED
      BY <1>6, <3>4
  <2> QED
    BY <2>1 DEF Owed
<1>10. Small'
  <2>1. Fits(tasks, MaxTasks) /\ Fits(ingresses, MaxIngresses)
    BY DEF SfuInv, Small
  <2>2. Fits(tasks', MaxTasks)
    BY <1>1, <1>3, <2>1, FitsSwap, SfuAssumption
  <2>3. /\ Fits(Live(core'.tracks), MaxTracks)
        /\ Fits(Live(core'.subs), MaxSubs)
    <3>1. core' \in Cores
      BY <1>6 DEF Sound
    <3>2. \A t \in Tracks : core'.tracks[t] \in {{}, core.tracks[t]}
      BY <1>6
    <3> QED
      BY <1>6, <3>1, <3>2, LosersFit
  <2> QED
    BY <1>1, <2>1, <2>2, <2>3 DEF Small
<1> QED
  BY <1>6, <1>7, <1>8, <1>9, <1>10 DEF SfuInv

\* unbind_session: the tracks of the participant go, their sinks are to be
\* forgotten.
LEMMA LeaveKeeps ==
  ASSUME SfuInv, NEW p \in People, Leave(p)
  PROVE  SfuInv'
<1> DEFINE owned == Owned(managed, p)
           forget == [op |-> "forget", tracks |-> owned]
<1>1. /\ owned # {} => Later(forget)
      /\ tasks' = tasks \cup {x \in {forget} : owned # {}}
      /\ UNCHANGED <<sinks, ingresses, reused, slipped>>
  BY Zenon DEF Leave, Owned
<1>2. /\ forget \in TaskRecords /\ forget.op = "forget"
      /\ forget.tracks = owned
  BY DEF TaskRecords, Owned
<1> HIDE DEF owned, forget
<1>3. tasks' = IF owned # {} THEN tasks \cup {forget} ELSE tasks
  BY <1>1
<1>4. /\ Sound(core', managed')
      /\ \A t \in Tracks : core'.tracks[t]
                             = IF t \in owned THEN {} ELSE core.tracks[t]
      /\ \A d \in Subs : core'.subs[d] \in {{}, core.subs[d]}
  BY ParticipantLeaves DEF SfuInv, owned
<1>5. Shapes'
  BY <1>1, <1>2, <1>3 DEF SfuInv, Shapes
<1>6. SinksHaveTracks'
  <2>1. ASSUME NEW s \in sinks
        PROVE  \/ core'.tracks[s.track] # {}
               \/ s.track \in slipped
               \/ \E x \in tasks' : x.op = "forget" /\ s.track \in x.tracks
    <3>1. s.track \in Tracks
      BY <2>1 DEF SfuInv, Shapes
    <3>2. CASE s.track \in owned
      BY <1>2, <1>3, <3>2
    <3>3. CASE s.track \notin owned
      <4>1. core'.tracks[s.track] = core.tracks[s.track]
        BY <1>4, <3>1, <3>3
      <4> QED
        BY <1>3, <2>1, <4>1 DEF SfuInv, SinksHaveTracks
    <3> QED
      BY <3>2, <3>3
  <2> QED
    BY <1>1, <2>1 DEF SinksHaveTracks
<1>7. Owed'
  <2>1. ASSUME NEW u \in Tracks, u \notin reused, NEW q \in People,
               DueFor(u, q, tasks', ingresses')
        PROVE  \A x \in core'.tracks[u] : x.owner = q
    <3>1. DueFor(u, q, tasks, ingresses)
      BY <1>1, <1>2, <1>3, <2>1 DEF DueFor
    <3>2. \A x \in core.tracks[u] : x.owner = q
      BY <2>1, <3>1 DEF SfuInv, Owed
    <3> QED
      BY <1>4, <3>2
  <2> QED
    BY <1>1, <2>1 DEF Owed
<1>8. Small'
  <2>1. Fits(tasks, MaxTasks) /\ Fits(ingresses, MaxIngresses)
    BY DEF SfuInv, Small
  <2>2. Fits(tasks', MaxTasks)
    BY <1>1, <1>3, <2>1, LaterFits, SMTT(30)
  <2>3. /\ Fits(Live(core'.tracks), MaxTracks)
        /\ Fits(Live(core'.subs), MaxSubs)
    <3>1. core' \in Cores
      BY <1>4 DEF Sound
    <3>2. \A t \in Tracks : core'.tracks[t] \in {{}, core.tracks[t]}
      BY <1>4
    <3> QED
      BY <1>4, <3>1, <3>2, LosersFit
  <2> QED
    BY <1>1, <2>1, <2>2, <2>3 DEF Small
<1> QED
  BY <1>4, <1>5, <1>6, <1>7, <1>8 DEF SfuInv


-----------------------------------------------------------------------------
(* The theorems.                                                           *)

\* Every step of the room keeps the invariant.
LEMMA SfuKeeps ==
  ASSUME SfuInv, [SfuNext]_sfuVars
  PROVE  SfuInv'
<1>1. CASE UNCHANGED sfuVars
  BY <1>1 DEF sfuVars, SfuInv, Shapes, SinksHaveTracks, Owed, Small
<1>2. ASSUME NEW p \in People, Bind(p) \/ Leave(p)
      PROVE  SfuInv'
  BY <1>2, BindKeeps, LeaveKeeps
<1>3. ASSUME NEW p \in People, NEW t \in Tracks,
             \/ UnpublishOwned(p, t)
             \/ \E ssrcs \in SUBSET Ssrcs : Publish(p, t, ssrcs)
             \/ \E s \in Ssrcs : CreateIngress(p, t, s)
      PROVE  SfuInv'
  BY <1>3, UnpublishOwnedKeeps, PublishKeeps, CreateIngressKeeps
<1>4. ASSUME NEW p \in People, NEW t \in Tracks, NEW d \in Subs,
             NEW o \in Outs, NEW twcc \in BOOLEAN, Subscribe(p, d, t, o, twcc)
      PROVE  SfuInv'
  BY <1>4, SubscribeKeeps
<1>5. ASSUME NEW p \in People, NEW d \in Subs, Unsubscribe(p, d)
      PROVE  SfuInv'
  BY <1>5, UnsubscribeKeeps
<1>6. ASSUME NEW t \in Tracks, NEW s \in Sinks, AddSink(t, s)
      PROVE  SfuInv'
  BY <1>6, AddSinkKeeps
<1>7. ASSUME \/ \E s \in sinks : RemoveSink(s)
             \/ \E g \in ingresses : DeleteIngress(g)
             \/ \E task \in tasks : \/ Unpublish(task) \/ ForgetSinks(task)
                                    \/ InsertSink(task) \/ KeepIngress(task)
      PROVE  SfuInv'
  BY <1>7, RemoveSinkKeeps, DeleteIngressKeeps, UnpublishKeeps,
     ForgetSinksKeeps, InsertSinkKeeps, KeepIngressKeeps
<1> QED
  BY <1>1, <1>2, <1>3, <1>4, <1>5, <1>6, <1>7, Zenon DEF SfuNext

\* The invariant says what the property says.
LEMMA SfuInvSays == SfuInv => RoomIsSound
<1> SUFFICES ASSUME SfuInv
             PROVE  RoomIsSound
  OBVIOUS
<1>1. TablesAgree /\ EverythingIsOwned /\ SinksHaveTracks
  BY SoundAgrees, SoundIsOwned DEF SfuInv
<1>2. SfuTypeOK
  <2>1. managed.bound \subseteq People
    BY DEF SfuInv, Sound, Mirrors
  <2>2. /\ \A t \in Tracks : Cardinality(core.tracks[t]) <= 1
        /\ \A d \in Subs : Cardinality(core.subs[d]) <= 1
    BY SingleFits DEF SfuInv, Sound, CoreAgrees
  <2>3. Count(core.tracks) <= MaxTracks /\ Count(core.subs) <= MaxSubs
    BY DEF SfuInv, Small, Fits, Count, Live
  <2>4. /\ Cardinality(ingresses) <= MaxIngresses
        /\ Cardinality(tasks) <= MaxTasks
    BY DEF SfuInv, Small, Fits
  <2> QED
    BY <2>1, <2>2, <2>3, <2>4 DEF SfuTypeOK
<1> QED
  BY <1>1, <1>2 DEF RoomIsSound

\* The eleven tables of a room (sfu_runtime.rs, room.rs) agree, belong to
\* someone bound and stay within their limits, and no sink outlives its
\* track unless it slipped in after it, for any numbers of participants,
\* tracks, subscriptions and handlers between two locks.
THEOREM RoomStaysSound == SfuSpec => []RoomIsSound
<1>1. SfuInit => SfuInv
  BY SfuStarts
<1>2. SfuInv /\ [SfuNext]_sfuVars => SfuInv'
  BY SfuKeeps
<1>3. SfuInv => RoomIsSound
  BY SfuInvSays
<1> QED
  BY <1>1, <1>2, <1>3, PTL DEF SfuSpec

\* unpublish_owned removes a track only for its owner, although the owner is
\* checked under one lock and the track removed under the next, unless the
\* identifier was published again in between.
THEOREM RemovalStaysOwned == SfuSpec => RemovalIsOwned
<1> DEFINE Lawful ==
      \A task \in tasks \ tasks' : task.op = "unpublish" =>
        \A t \in task.tracks \ reused : managed.owners[t] \subseteq {task.by}
<1>1. SfuInit => SfuInv
  BY SfuStarts
<1>2. SfuInv /\ [SfuNext]_sfuVars => SfuInv'
  BY SfuKeeps
<1>3. ASSUME SfuInv
      PROVE  Lawful
  <2> SUFFICES ASSUME NEW task \in tasks, task.op = "unpublish",
                      NEW t \in task.tracks, t \notin reused
               PROVE  managed.owners[t] \subseteq {task.by}
    OBVIOUS
  <2>1. t \in Tracks /\ task.by \in People
    BY <1>3 DEF SfuInv, Shapes, TaskRecords
  <2>2. DueFor(t, task.by, tasks, ingresses)
    BY DEF DueFor
  <2>3. \A x \in core.tracks[t] : x.owner = task.by
    BY <1>3, <2>1, <2>2 DEF SfuInv, Owed
  <2>4. managed.owners[t] = {x.owner : x \in core.tracks[t]}
    BY <1>3, <2>1, SoundAgrees DEF SfuInv, TablesAgree
  <2> QED
    BY <2>3, <2>4
<1>4. SfuInv /\ [SfuNext]_sfuVars => [Lawful]_sfuVars
  BY <1>3
<1> QED
  BY <1>1, <1>2, <1>4, PTL DEF SfuSpec, RemovalIsOwned

=============================================================================
