------------------------- MODULE SubscriptionProofs -------------------------
(***************************************************************************)
(* Proofs about module SubscriptionManager, for any number of tracks,      *)
(* callers, subscription objects, down tracks, publications and failures:  *)
(* the limit is kept, no down track is left to nobody, and none stays on a *)
(* closed MediaTrack, however calls and closing race.                      *)
(***************************************************************************)
EXTENDS SubscriptionManager, FiniteSetTheorems, TLAPS

SubRecord == [track : Track, desired : BOOLEAN, down : 0..MaxDowns]
DownRecord ==
  [track : Track, media : Nat, sub : 0..MaxSubs, open : BOOLEAN, onClose : BOOLEAN]
Position ==
  {"idle", "resolved", "adding", "added", "checked", "hooked", "set"}
WorkerRecord ==
  [at : Position, sub : 0..MaxSubs, media : Nat, down : 0..MaxDowns,
   todo : SUBSET SubId]
CallRecord == [at : {"idle", "missing", "created"}, track : Track]

(* The types, but for the bounds of the counter, which follow from what is
   counted.                                                                *)
Types ==
  /\ subscriptions \in [Track -> 0..MaxSubs]
  /\ sub \in [SubId -> SubRecord]
  /\ subscribedCount \in Int
  /\ reconcileCh \subseteq Track \cup {All}
  /\ worker \in WorkerRecord
  /\ caller \in [Caller -> CallRecord]
  /\ closed \in {"no", "closing", "done"}
  /\ published \in [Track -> Nat] /\ permitted \subseteq Track
  /\ canSubscribe \in BOOLEAN /\ subscriptionLimit \in SubscriptionLimits
  /\ down \in [DownId -> DownRecord]
  /\ removing \subseteq Track \X Nat /\ removals \subseteq Track
  /\ flushing \subseteq DownId /\ closeCallbacks \subseteq DownId
  /\ releasing \subseteq DownId
  /\ changes \in Nat

(* The subscriptions that have a down track.                               *)
Holders == {s \in SubId : sub[s].down # 0}

(* The worker has found a place under the limit, and has not filled it.    *)
Subscribing ==
  worker.at \in {"resolved", "adding", "added", "checked", "hooked"}

(* While it does so its subscription has no down track, and the place is
   still free; the new down track is no other subscription's, is known to
   the MediaTrack that was resolved, and reports nothing before its callback
   is installed.                                                           *)
WorkerInv ==
  /\ worker.at # "idle" => worker.sub \in SubId
  /\ Subscribing =>
       /\ sub[worker.sub].down = 0 /\ worker.media # 0
       /\ subscriptionLimit > 0 => Cardinality(Holders) < subscriptionLimit
  /\ Installing =>
       /\ worker.down \in DownId /\ worker.down \notin releasing
       /\ down[worker.down].sub = worker.sub
       /\ down[worker.down].track = sub[worker.sub].track
       /\ down[worker.down].media = worker.media
       /\ \A s \in SubId : sub[s].down # worker.down
  /\ worker.at \in {"added", "checked"} =>
       worker.down \notin closeCallbacks /\ ~down[worker.down].onClose

(* A down track that is open, or whose closing is still to be reported, is
   its subscription's, or being installed, or closing because the MediaTrack
   closed before its callback was installed.                               *)
DownsAreHeld ==
  \A d \in DownId :
    down[d].open \/ d \in closeCallbacks =>
      /\ down[d].sub \in SubId
      /\ \/ sub[down[d].sub].down = d
         \/ Installing /\ worker.down = d
         \/ down[d].open /\ ~down[d].onClose /\ d \in flushing

(* Closing is reported after it, and counted after that.                   *)
ReportedIsClosed ==
  /\ \A d \in closeCallbacks : ~down[d].open
  /\ \A d \in releasing : /\ ~down[d].open /\ d \notin closeCallbacks
                         /\ \A s \in SubId : sub[s].down # d

(* No two subscriptions have the same down track.                          *)
DownsAreApart ==
  \A s1, s2 \in SubId :
    sub[s1].down # 0 /\ sub[s1].down = sub[s2].down => s1 = s2

(* The counter stands for the subscriptions that have a down track and for
   those whose release is not counted yet; the worker counts late.         *)
CountIsExact ==
  subscribedCount = Cardinality(Holders) + Cardinality(releasing)
                    - (IF worker.at = "set" THEN 1 ELSE 0)
HoldersWithinLimit ==
  subscriptionLimit > 0 => Cardinality(Holders) <= subscriptionLimit

(* The down tracks of a MediaTrack that is closed are closing.             *)
OpenOnOpenTrack ==
  NoneOnClosedTrack /\ \A d \in DownId : down[d].open => down[d].media # 0

Core ==
  /\ WorkerInv /\ DownsAreHeld /\ ReportedIsClosed /\ DownsAreApart
  /\ CountIsExact /\ HoldersWithinLimit /\ OpenOnOpenTrack

IInv == Types /\ Core

USE SubscriptionManagerAssumption

-----------------------------------------------------------------------------
(* Types.                                                                  *)

(* The placeholders have the types of what they stand for.                 *)
LEMMA Placeholders ==
  /\ NoSub \in SubRecord /\ NoDown \in DownRecord
  /\ Idle \in WorkerRecord /\ NoCall \in CallRecord
BY DEF NoSub, NoDown, Idle, NoCall, SubRecord, DownRecord, WorkerRecord,
       CallRecord, Position

(* The channel holds ids.                                                  *)
LEMMA QueuedType ==
  ASSUME Types, NEW id \in Track \cup {All}
  PROVE  Queued(id) \subseteq Track \cup {All}
BY DEF Types, Queued

(* setDesired keeps everything else of a subscription object.              *)
LEMMA DesiredType ==
  ASSUME Types, NEW s, NEW b \in BOOLEAN
  PROVE  /\ Desired(s, b) \in [SubId -> SubRecord]
         /\ \A r \in SubId : /\ Desired(s, b)[r].down = sub[r].down
                            /\ Desired(s, b)[r].track = sub[r].track
BY DEF Types, Desired, SubRecord

(* The same of an object by itself.                                        *)
LEMMA RecordDesired ==
  ASSUME NEW r \in SubRecord, NEW b \in BOOLEAN
  PROVE  LET q == [r EXCEPT !.desired = b]
         IN  q \in SubRecord /\ q.down = r.down /\ q.track = r.track
BY DEF SubRecord

(* A call that moves on keeps its track.                                   *)
LEMMA CallMoves ==
  ASSUME NEW r \in CallRecord, NEW a \in {"idle", "missing", "created"}
  PROVE  LET q == [r EXCEPT !.at = a]
         IN  q \in CallRecord /\ q.at = a /\ q.track = r.track
BY DEF CallRecord

(* A new object has the right type, no down track, and was free.           *)
LEMMA NewSubscription ==
  ASSUME Types, NEW s \in FreeSubs, NEW t \in Track, NEW b \in BOOLEAN,
         newMediaTrackSubscription(s, t, b)
  PROVE  /\ sub' \in [SubId -> SubRecord]
         /\ subscriptions' \in [Track -> 0..MaxSubs]
         /\ s \in SubId /\ s # 0
         /\ sub'[s].track = t /\ sub'[s].down = sub[s].down
         /\ \A r \in SubId \ {s} : sub'[r] = sub[r]
         /\ \A u \in Track : subscriptions'[u] = IF u = t THEN s ELSE subscriptions[u]
<1>1. s \in SubId /\ s # 0 /\ s \in 0..MaxSubs /\ sub[s].down = 0
  BY DEF FreeSubs, SubId
<1>2. [track |-> t, desired |-> b, down |-> 0] \in SubRecord
  BY DEF SubRecord
<1> QED BY <1>1, <1>2 DEF Types, newMediaTrackSubscription

(* Requests and publishers keep the types.                                 *)
LEMMA RequestTypes ==
  ASSUME Types, NEW t \in Track,
         \/ SubscribeExisting(t) \/ UnsubscribeFromTrack(t)
         \/ UpdateSubscribedTrackSettings(t)
         \/ \E c \in Caller : \/ SubscribeFindsNone(c, t)
                            \/ SubscribeCreates(c) \/ SubscribeDesires(c)
         \/ ClearAllSubscriptions
  PROVE  Types'
<1>0. \A u \in Track : Queued(u) \subseteq Track \cup {All}
  BY QueuedType
<1>1. CASE SubscribeExisting(t)
  BY <1>0, <1>1, DesiredType DEF Types, SubscribeExisting, queueReconcile, pubVars, closeVars
<1>3. CASE UnsubscribeFromTrack(t)
  BY <1>0, <1>3, DesiredType DEF Types, UnsubscribeFromTrack, queueReconcile, pubVars, closeVars
<1>4. CASE UpdateSubscribedTrackSettings(t)
  BY <1>4, NewSubscription DEF Types, UpdateSubscribedTrackSettings, pubVars, closeVars
<1>5. ASSUME NEW c \in Caller, SubscribeFindsNone(c, t) PROVE Types'
  BY <1>5 DEF Types, SubscribeFindsNone, subVars, pubVars, closeVars, CallRecord
<1>6. ASSUME NEW c \in Caller, SubscribeCreates(c) PROVE Types'
  <2>1. caller[c] \in CallRecord /\ caller[c].track \in Track
    BY DEF Types, CallRecord
  <2>2. sub' \in [SubId -> SubRecord] /\ subscriptions' \in [Track -> 0..MaxSubs]
    BY <1>6, <2>1, NewSubscription DEF SubscribeCreates
  <2>3. [caller[c] EXCEPT !.at = "created"] \in CallRecord
    BY <2>1, CallMoves
  <2>4. caller' \in [Caller -> CallRecord]
    BY <1>6, <2>3 DEF Types, SubscribeCreates
  <2> QED BY <1>6, <2>2, <2>4 DEF Types, SubscribeCreates, pubVars, closeVars
<1>7. ASSUME NEW c \in Caller, SubscribeDesires(c) PROVE Types'
  <2>1. caller[c].track \in Track
    BY DEF Types, CallRecord
  <2>2. sub' \in [SubId -> SubRecord]
    BY <1>7, DesiredType DEF Types, SubscribeDesires
  <2>3. reconcileCh' \subseteq Track \cup {All}
    BY <1>0, <1>7, <2>1 DEF SubscribeDesires, queueReconcile
  <2>4. caller' \in [Caller -> CallRecord]
    BY <1>7, Placeholders DEF Types, SubscribeDesires
  <2> QED BY <1>7, <2>2, <2>3, <2>4 DEF Types, SubscribeDesires, pubVars, closeVars
<1>8. CASE ClearAllSubscriptions
  <2>1. sub' \in [SubId -> SubRecord]
    BY <1>8, RecordDesired DEF Types, ClearAllSubscriptions
  <2> QED BY <1>8, <2>1, QueuedType DEF Types, ClearAllSubscriptions, queueReconcile,
     pubVars, closeVars
<1> QED BY <1>1, <1>3, <1>4, <1>5, <1>6, <1>7, <1>8

(* What publishers and permissions do keeps the types.                     *)
LEMMA PublisherTypes ==
  ASSUME Types, NEW t \in Track,
         \/ Publish(t) \/ Unpublish(t) \/ GrantPermission(t) \/ RevokePermission(t)
         \/ handleSourceTrackRemoved(t) \/ AllowSubscribe \/ DisallowSubscribe
         \/ \E m \in Nat : RemoveSubscriber(t, m)
  PROVE  Types'
<1>0. /\ Queued(t) \subseteq Track \cup {All} /\ Queued(All) \subseteq Track \cup {All}
      /\ \A m : getSubscribedTrack(t, m) \subseteq DownId
      /\ changes + 1 \in Nat /\ changes + 2 \in Nat
  BY QueuedType DEF Types, getSubscribedTrack
<1>1. CASE Publish(t)
  <2>1. published' \in [Track -> Nat]
    BY <1>0, <1>1 DEF Publish, Types
  <2> QED BY <1>0, <1>1, <2>1 DEF Types, Publish, MayQueue, queueReconcile, subVars, closeVars
<1>2. CASE Unpublish(t)
  <2>1. published' \in [Track -> Nat]
    BY <1>2 DEF Unpublish, Types
  <2> QED BY <1>0, <1>2, <2>1 DEF Types, Unpublish, subVars
<1>3. CASE GrantPermission(t)
  BY <1>0, <1>3 DEF Types, GrantPermission, MayQueue, queueReconcile, subVars, closeVars
<1>4. CASE RevokePermission(t)
  BY <1>0, <1>4 DEF Types, RevokePermission, MayQueue, queueReconcile, subVars
<1>5. CASE handleSourceTrackRemoved(t)
  <2>1. sub' \in [SubId -> SubRecord]
    BY <1>5, DesiredType DEF Types, handleSourceTrackRemoved
  <2> QED BY <1>5, <2>1 DEF Types, handleSourceTrackRemoved, pubVars, closeVars
<1>6. ASSUME NEW m \in Nat, RemoveSubscriber(t, m) PROVE Types'
  BY <1>0, <1>6 DEF Types, RemoveSubscriber, subVars, pubVars
<1>7. CASE AllowSubscribe
  BY <1>0, <1>7 DEF Types, AllowSubscribe, queueReconcile, subVars, closeVars
<1>8. CASE DisallowSubscribe
  <2>1. flushing' \subseteq DownId
    BY <1>8, Zenon DEF Types, DisallowSubscribe
  <2>2. changes' = changes + 1 /\ canSubscribe' = FALSE
    BY <1>8, Zenon DEF DisallowSubscribe
  <2>3. UNCHANGED <<subscriptionLimit, subVars, subscribedCount, reconcileCh, worker,
                    caller, closed, published, permitted, down, removing,
                    closeCallbacks, releasing, removals>>
    BY <1>8 DEF DisallowSubscribe
  <2>4. changes' \in Nat
    BY <2>2 DEF Types
  <2>5. canSubscribe' \in BOOLEAN
    BY <2>2, Zenon
  <2> QED BY <2>1, <2>3, <2>4, <2>5 DEF Types, subVars
<1> QED BY <1>1, <1>2, <1>3, <1>4, <1>5, <1>6, <1>7, <1>8

(* The worker's steps between two subscriptions.                           *)
WorkerChooses ==
  \/ Tick
  \/ \E id \in Track \cup {All} : Receive(id)
  \/ \E s \in SubId :
       \/ SubscribeWaits(s) \/ SubscribeFails(s) \/ SubscribeTimesOut(s)
       \/ unsubscribe(s) \/ Cleanup(s) \/ NothingToDo(s)

(* The worker done with a subscription is idle.                            *)
LEMMA DoneType ==
  ASSUME Types, NEW s, Done(s)
  PROVE  worker' \in WorkerRecord /\ worker'.at = "idle"
         /\ worker'.todo = worker.todo \ {s}
BY DEF Types, Done, Idle, WorkerRecord, Position

(* The worker with a new list of things to do is where it was.             *)
LEMMA TodoType ==
  ASSUME Types, NEW S \in SUBSET SubId, worker' = [worker EXCEPT !.todo = S]
  PROVE  worker' \in WorkerRecord /\ worker'.at = worker.at /\ worker'.todo = S
BY DEF Types, WorkerRecord

(* The steps between two subscriptions keep the types.                     *)
LEMMA ChooseTypes ==
  ASSUME Types, WorkerChooses
  PROVE  Types'
<1>0. \A s \in SubId : /\ sub[s].track \in Track
                       /\ Queued(sub[s].track) \subseteq Track \cup {All}
  BY QueuedType DEF Types, SubRecord
<1>1. CASE Tick
  BY <1>1, TodoType DEF Types, Tick, NeedsReconcile, subVars, pubVars, closeVars
<1>2. ASSUME NEW id \in Track \cup {All}, Receive(id) PROVE Types'
  <2>1. (IF id # All /\ subscriptions[id] # 0 THEN {subscriptions[id]}
                                              ELSE NeedsReconcile) \in SUBSET SubId
    BY DEF Types, NeedsReconcile, SubId
  <2>2. worker' \in WorkerRecord
    BY <1>2, <2>1, TodoType DEF Receive
  <2> QED BY <1>2, <2>2 DEF Types, Receive, subVars, pubVars, closeVars
<1>3. ASSUME NEW s \in SubId, SubscribeWaits(s) PROVE Types'
  BY <1>0, <1>3, DoneType DEF Types, SubscribeWaits, MayQueue, queueReconcile,
     subVars, pubVars, closeVars
<1>4. ASSUME NEW s \in SubId, SubscribeFails(s) PROVE Types'
  BY <1>4, DoneType DEF Types, SubscribeFails, subVars, pubVars, closeVars
<1>5. ASSUME NEW s \in SubId, SubscribeTimesOut(s) PROVE Types'
  <2>1. sub' \in [SubId -> SubRecord]
    BY <1>5, DesiredType DEF Types, SubscribeTimesOut
  <2> QED BY <1>0, <1>5, <2>1, DoneType DEF Types, SubscribeTimesOut, queueReconcile,
             pubVars, closeVars
<1>6. ASSUME NEW s \in SubId, unsubscribe(s) PROVE Types'
  <2>1. sub[s].down \in DownId
    BY <1>6 DEF unsubscribe, NeedsUnsubscribe, Types, SubRecord, DownId
  <2>2. down[sub[s].down].media \in Nat
    BY <2>1 DEF Types, DownRecord
  <2> QED BY <1>0, <1>6, <2>2, DoneType DEF Types, unsubscribe, subVars, pubVars, closeVars
<1>7. ASSUME NEW s \in SubId, Cleanup(s) PROVE Types'
  BY <1>0, <1>7, DoneType DEF Types, Cleanup, pubVars, closeVars
<1>8. ASSUME NEW s \in SubId, NothingToDo(s) PROVE Types'
  BY <1>8, DoneType DEF Types, NothingToDo, subVars, pubVars, closeVars
<1> QED BY <1>1, <1>2, <1>3, <1>4, <1>5, <1>6, <1>7, <1>8 DEF WorkerChooses

(* The worker's steps with one subscription it makes a down track for.     *)
WorkerSubscribes ==
  \/ \E s \in SubId : SubscribeResolves(s)
  \/ AddSubscriberFails \/ AddSubscriberFindsOne \/ AddSubscriberBegins
  \/ \E d \in FreeDowns : AddSubscriber(d)
  \/ AddSubscriberEnds \/ AddSubscriberUndone
  \/ OnClose \/ setSubscribedTrack \/ CountSubscribed

(* The worker moves on with its subscription.                              *)
LEMMA WorkerMoves ==
  ASSUME Types, NEW a \in Position, worker' = [worker EXCEPT !.at = a]
  PROVE  /\ worker' \in WorkerRecord /\ worker'.at = a
         /\ worker'.sub = worker.sub /\ worker'.down = worker.down
         /\ worker'.media = worker.media
BY DEF Types, WorkerRecord

(* The worker takes a subscription.                                        *)
LEMMA WorkerTakes ==
  ASSUME Types, NEW a \in Position, NEW s \in 0..MaxSubs, NEW m \in Nat,
         worker' = [worker EXCEPT !.at = a, !.sub = s, !.media = m]
  PROVE  /\ worker' \in WorkerRecord /\ worker'.at = a
         /\ worker'.sub = s /\ worker'.media = m
BY DEF Types, WorkerRecord

(* The worker gets a down track.                                           *)
LEMMA WorkerGets ==
  ASSUME Types, NEW a \in Position, NEW d \in 0..MaxDowns,
         worker' = [worker EXCEPT !.at = a, !.down = d]
  PROVE  /\ worker' \in WorkerRecord /\ worker'.at = a
         /\ worker'.sub = worker.sub /\ worker'.down = d
         /\ worker'.media = worker.media
BY DEF Types, WorkerRecord

(* A down track that changes keeps its track and its subscription.         *)
LEMMA DownMoves ==
  ASSUME NEW r \in DownRecord
  PROVE  /\ LET q == [r EXCEPT !.onClose = TRUE]
            IN  /\ q \in DownRecord /\ q.open = r.open /\ q.sub = r.sub
                /\ q.track = r.track /\ q.media = r.media
         /\ LET q == [r EXCEPT !.open = FALSE]
            IN  /\ q \in DownRecord /\ q.open = FALSE /\ q.sub = r.sub
                /\ q.track = r.track /\ q.media = r.media /\ q.onClose = r.onClose
BY DEF DownRecord

(* A subscription object's down track changes alone.                       *)
LEMMA HolderMoves ==
  ASSUME NEW r \in SubRecord, NEW d \in 0..MaxDowns
  PROVE  LET q == [r EXCEPT !.down = d]
         IN  q \in SubRecord /\ q.down = d /\ q.track = r.track
BY DEF SubRecord

(* What AddSubscriber does to the down tracks.                             *)
LEMMA Added ==
  ASSUME Types, WorkerInv, NEW d \in FreeDowns, AddSubscriber(d)
  PROVE  /\ d \in DownId /\ d # 0 /\ worker.sub \in SubId
         /\ down' \in [DownId -> DownRecord]
         /\ down'[d].open /\ down'[d].sub = worker.sub /\ ~down'[d].onClose
         /\ down'[d].track = sub[worker.sub].track /\ down'[d].media = worker.media
         /\ \A e \in DownId \ {d} : down'[e] = down[e]
         /\ worker' \in WorkerRecord /\ worker'.at = "added" /\ worker'.down = d
         /\ worker'.sub = worker.sub /\ worker'.media = worker.media
<1>1. d \in DownId /\ d # 0 /\ d \in 0..MaxDowns
  BY DEF FreeDowns, DownId
<1>2. worker.sub \in SubId
  BY DEF AddSubscriber, WorkerInv
<1>3. /\ worker.sub \in 0..MaxSubs /\ sub[worker.sub].track \in Track
      /\ worker.media \in Nat
  <2>1. sub \in [SubId -> SubRecord] /\ worker.media \in Nat
    BY DEF Types, WorkerRecord
  <2>2. worker.sub \in 0..MaxSubs
    BY ONLY <1>2 DEF SubId
  <2>3. sub[worker.sub] \in SubRecord
    BY ONLY <1>2, <2>1
  <2> QED BY ONLY <2>1, <2>2, <2>3 DEF SubRecord
<1> DEFINE r == [track |-> sub[worker.sub].track, media |-> worker.media,
                 sub |-> worker.sub, open |-> TRUE, onClose |-> FALSE]
<1>4. /\ r \in DownRecord /\ r.open /\ r.sub = worker.sub /\ ~r.onClose
      /\ r.track = sub[worker.sub].track /\ r.media = worker.media
  BY <1>3 DEF DownRecord
<1>5. /\ down' = [down EXCEPT ![d] = r]
      /\ worker' = [worker EXCEPT !.at = "added", !.down = d]
  BY DEF AddSubscriber
<1>6. worker' \in WorkerRecord /\ worker'.at = "added" /\ worker'.down = d
      /\ worker'.sub = worker.sub /\ worker'.media = worker.media
  BY <1>1, <1>5, WorkerGets DEF Position
<1> HIDE DEF r
<1>7. /\ down' \in [DownId -> DownRecord] /\ down'[d] = r
      /\ \A e \in DownId \ {d} : down'[e] = down[e]
  BY <1>1, <1>4, <1>5 DEF Types
<1> QED BY <1>1, <1>2, <1>4, <1>6, <1>7

(* What OnClose does to the down tracks.                                   *)
LEMMA Hooked ==
  ASSUME Types, WorkerInv, OnClose
  PROVE  /\ worker.down \in DownId /\ down' \in [DownId -> DownRecord]
         /\ \A d \in DownId : /\ down'[d].open = down[d].open
                              /\ down'[d].sub = down[d].sub
                              /\ down'[d].track = down[d].track
                              /\ down'[d].media = down[d].media
         /\ \A d \in DownId \ {worker.down} : down'[d] = down[d]
         /\ worker' \in WorkerRecord /\ worker'.at = "hooked"
         /\ worker'.down = worker.down /\ worker'.sub = worker.sub
         /\ worker'.media = worker.media
<1>1. worker.down \in DownId
  BY DEF OnClose, WorkerInv, Installing
<1>2. worker' \in WorkerRecord /\ worker'.at = "hooked"
      /\ worker'.down = worker.down /\ worker'.sub = worker.sub
      /\ worker'.media = worker.media
  BY WorkerMoves DEF OnClose, Position
<1>3. down[worker.down] \in DownRecord
  BY <1>1 DEF Types
<1> DEFINE r == [down[worker.down] EXCEPT !.onClose = TRUE]
<1>4. /\ r \in DownRecord /\ r.open = down[worker.down].open
      /\ r.sub = down[worker.down].sub /\ r.track = down[worker.down].track
      /\ r.media = down[worker.down].media
  BY <1>3, DownMoves
<1>5. down' = [down EXCEPT ![worker.down] = r]
  BY DEF OnClose
<1> HIDE DEF r
<1> QED BY <1>1, <1>2, <1>4, <1>5 DEF Types

(* What setSubscribedTrack does to the subscription objects.               *)
LEMMA Installed ==
  ASSUME Types, WorkerInv, setSubscribedTrack
  PROVE  /\ worker.sub \in SubId /\ worker.down \in DownId /\ worker.down # 0
         /\ sub' \in [SubId -> SubRecord]
         /\ sub'[worker.sub].down = worker.down
         /\ \A s \in SubId : sub'[s].track = sub[s].track
         /\ \A s \in SubId \ {worker.sub} : sub'[s] = sub[s]
         /\ worker' \in WorkerRecord /\ worker'.at = "set"
         /\ worker'.down = worker.down /\ worker'.sub = worker.sub
<1>1. worker.sub \in SubId /\ worker.down \in DownId /\ worker.down # 0
  BY DEF setSubscribedTrack, WorkerInv, Installing, DownId
<1>2. worker.down \in 0..MaxDowns
  BY <1>1 DEF DownId
<1>3. worker' \in WorkerRecord /\ worker'.at = "set"
      /\ worker'.down = worker.down /\ worker'.sub = worker.sub
  BY WorkerMoves DEF setSubscribedTrack, Position
<1>4. sub[worker.sub] \in SubRecord
  BY <1>1 DEF Types
<1> DEFINE r == [sub[worker.sub] EXCEPT !.down = worker.down]
<1>5. r \in SubRecord /\ r.down = worker.down /\ r.track = sub[worker.sub].track
  BY <1>2, <1>4, HolderMoves
<1>6. sub' = [sub EXCEPT ![worker.sub] = r]
  BY DEF setSubscribedTrack
<1> HIDE DEF r
<1> QED BY <1>1, <1>3, <1>5, <1>6 DEF Types

(* What CloseWithFlush does to an open down track.                         *)
LEMMA Closed ==
  ASSUME Types, NEW d \in DownId, CloseWithFlush(d), down[d].open
  PROVE  /\ down' \in [DownId -> DownRecord] /\ ~down'[d].open
         /\ \A e \in DownId : /\ down'[e].sub = down[e].sub
                              /\ down'[e].track = down[e].track
                              /\ down'[e].media = down[e].media
                              /\ down'[e].onClose = down[e].onClose
         /\ \A e \in DownId \ {d} : down'[e] = down[e]
         /\ closeCallbacks' \subseteq closeCallbacks \cup {d}
         /\ ~down[d].onClose => closeCallbacks' = closeCallbacks
<1>1. down[d] \in DownRecord
  BY DEF Types
<1> DEFINE r == [down[d] EXCEPT !.open = FALSE]
<1>2. /\ r \in DownRecord /\ r.open = FALSE /\ r.sub = down[d].sub
      /\ r.track = down[d].track /\ r.media = down[d].media
      /\ r.onClose = down[d].onClose
  BY <1>1, DownMoves
<1>3. /\ down' = [down EXCEPT ![d] = r]
      /\ closeCallbacks' = closeCallbacks \cup (IF down[d].onClose THEN {d} ELSE {})
  BY DEF CloseWithFlush
<1> HIDE DEF r
<1>4. /\ down' \in [DownId -> DownRecord] /\ down'[d] = r
      /\ \A e \in DownId \ {d} : down'[e] = down[e]
  BY <1>2, <1>3 DEF Types
<1>5. /\ closeCallbacks' \subseteq closeCallbacks \cup {d}
      /\ ~down[d].onClose => closeCallbacks' = closeCallbacks
  BY <1>3
<1> QED BY <1>2, <1>4, <1>5

(* A closing that is reported is that of the down track its subscription
   has, if any.                                                            *)
LEMMA Released ==
  ASSUME IInv, NEW d \in DownId, handleSubscribedTrackClose(d),
         sub[down[d].sub].down # 0
  PROVE  /\ down[d].sub \in SubId /\ sub[down[d].sub].down = d
         /\ sub' \in [SubId -> SubRecord] /\ sub'[down[d].sub].down = 0
         /\ \A s \in SubId : sub'[s].track = sub[s].track
         /\ \A s \in SubId \ {down[d].sub} : sub'[s] = sub[s]
<1>1. d \in closeCallbacks /\ ~down[d].open
  BY DEF handleSubscribedTrackClose, IInv, Core, ReportedIsClosed
<1>2. down[d].sub \in SubId
  BY <1>1 DEF IInv, Core, DownsAreHeld
<1>3. sub[down[d].sub].down = d
  BY <1>1 DEF IInv, Core, DownsAreHeld, WorkerInv, Installing, Subscribing
<1>4. sub[down[d].sub] \in SubRecord /\ 0 \in 0..MaxDowns
  BY <1>2 DEF IInv, Types
<1> DEFINE r == [sub[down[d].sub] EXCEPT !.down = 0]
<1>5. r \in SubRecord /\ r.down = 0 /\ r.track = sub[down[d].sub].track
  BY <1>4, HolderMoves
<1>6. sub' = [sub EXCEPT ![down[d].sub] = r]
  BY DEF handleSubscribedTrackClose
<1> HIDE DEF r
<1>7. /\ sub' \in [SubId -> SubRecord] /\ sub'[down[d].sub] = r
      /\ \A s \in SubId \ {down[d].sub} : sub'[s] = sub[s]
  BY <1>2, <1>5, <1>6 DEF IInv, Types
<1> QED BY <1>2, <1>3, <1>5, <1>7

(* Subscribing keeps the types.                                            *)
LEMMA SubscribeTypes ==
  ASSUME IInv, WorkerSubscribes
  PROVE  Types'
<1> USE DEF IInv, Core
<1>1. ASSUME NEW s \in SubId, SubscribeResolves(s) PROVE Types'
  <2>1. s \in 0..MaxSubs /\ published[sub[s].track] \in Nat
    BY DEF SubId, Types, SubRecord
  <2>2. worker' \in WorkerRecord
    BY <1>1, <2>1, WorkerTakes DEF SubscribeResolves, Position
  <2> QED BY <1>1, <2>2 DEF Types, SubscribeResolves, subVars, pubVars, closeVars
<1>2. CASE AddSubscriberFails
  BY <1>2, DoneType DEF Types, AddSubscriberFails, subVars, closeVars
<1>3. CASE AddSubscriberFindsOne
  BY <1>3, DoneType DEF Types, AddSubscriberFindsOne, subVars, pubVars, closeVars
<1>4. CASE AddSubscriberBegins
  BY <1>4, WorkerMoves DEF Types, AddSubscriberBegins, Position, subVars, pubVars, closeVars
<1>5. ASSUME NEW d \in FreeDowns, AddSubscriber(d) PROVE Types'
  <2>1. down' \in [DownId -> DownRecord] /\ worker' \in WorkerRecord
    BY <1>5, Added
  <2> QED BY <1>5, <2>1 DEF Types, AddSubscriber, subVars, pubVars, closeVars
<1>6. CASE AddSubscriberEnds
  BY <1>6, WorkerMoves DEF Types, AddSubscriberEnds, Position, subVars, pubVars, closeVars
<1>7. CASE AddSubscriberUndone
  <2>1. getSubscribedTrack(sub[worker.sub].track, worker.media) \subseteq DownId
    BY DEF getSubscribedTrack
  <2> QED BY <1>7, <2>1, DoneType DEF Types, AddSubscriberUndone, subVars, pubVars
<1>8. CASE OnClose
  <2>1. down' \in [DownId -> DownRecord] /\ worker' \in WorkerRecord
    BY <1>8, Hooked
  <2> QED BY <1>8, <2>1 DEF Types, OnClose, subVars, pubVars, closeVars
<1>9. CASE setSubscribedTrack
  <2>1. sub' \in [SubId -> SubRecord] /\ worker' \in WorkerRecord
    BY <1>9, Installed
  <2> QED BY <1>9, <2>1 DEF Types, setSubscribedTrack, pubVars, closeVars
<1>10. CASE CountSubscribed
  BY <1>10, DoneType DEF Types, CountSubscribed, subVars, pubVars, closeVars
<1> QED BY <1>1, <1>2, <1>3, <1>4, <1>5, <1>6, <1>7, <1>8, <1>9, <1>10
        DEF WorkerSubscribes

(* Close with a subscription object leaves its down track to be closed.    *)
LEMMA EndsHolders ==
  ASSUME Types, CloseEnds
  PROVE  /\ sub' \in [SubId -> SubRecord]
         /\ \A s \in SubId : sub'[s].down = sub[s].down /\ sub'[s].track = sub[s].track
         /\ flushing' \subseteq DownId /\ flushing \subseteq flushing'
         /\ worker' = Idle
<1>1. sub' = [s \in SubId |-> IF s \in GetSubscribedTracks
                               THEN [sub[s] EXCEPT !.desired = FALSE]
                               ELSE sub[s]]
  BY DEF CloseEnds
<1>2. ASSUME NEW s \in SubId
      PROVE  sub'[s] \in SubRecord /\ sub'[s].down = sub[s].down /\ sub'[s].track = sub[s].track
  <2>1. sub[s] \in SubRecord
    BY DEF Types
  <2>2. sub'[s] = [sub[s] EXCEPT !.desired = FALSE] \/ sub'[s] = sub[s]
    BY <1>1, Zenon
  <2> DEFINE q == [sub[s] EXCEPT !.desired = FALSE]
  <2>3. q \in SubRecord /\ q.down = sub[s].down /\ q.track = sub[s].track
    BY <2>1, RecordDesired
  <2> HIDE DEF q
  <2>4. sub'[s] = q \/ sub'[s] = sub[s]
    BY <2>2 DEF q
  <2> QED BY <2>1, <2>3, <2>4
<1>3. sub' \in [SubId -> SubRecord]
  <2>1. sub' = [s \in SubId |-> sub'[s]]
    BY <1>1, Zenon
  <2> QED BY <1>2, <2>1
<1>4. {sub[s].down : s \in GetSubscribedTracks} \subseteq DownId
  <2>1. ASSUME NEW s \in GetSubscribedTracks PROVE sub[s].down \in DownId
    BY DEF GetSubscribedTracks, Types, SubRecord, DownId
  <2> QED BY <2>1
<1>5. flushing' \subseteq DownId /\ flushing \subseteq flushing'
  BY <1>4, Zenon DEF Types, CloseEnds
<1>6. worker' = Idle
  BY Zenon DEF CloseEnds
<1> QED BY <1>2, <1>3, <1>5, <1>6

(* The goroutines that close keep the types.                               *)
LEMMA ClosingTypes ==
  ASSUME IInv,
         \/ \E d \in DownId : \/ CloseWithFlush(d) \/ handleSubscribedTrackClose(d)
                              \/ CountReleased(d)
         \/ CloseBegins \/ CloseEnds
  PROVE  Types'
<1> USE DEF IInv
<1>1. ASSUME NEW d \in DownId, CloseWithFlush(d) PROVE Types'
  <2>1. CASE down[d].open
    <3>1. /\ down' \in [DownId -> DownRecord]
          /\ closeCallbacks' \subseteq closeCallbacks \cup {d}
      BY <1>1, <2>1, Closed
    <3> QED BY <1>1, <3>1 DEF Types, CloseWithFlush, subVars, pubVars
  <2>2. CASE ~down[d].open
    BY <1>1, <2>2 DEF Types, CloseWithFlush, subVars, pubVars
  <2> QED BY <2>1, <2>2
<1>2. ASSUME NEW d \in DownId, handleSubscribedTrackClose(d) PROVE Types'
  <2>1. /\ closeCallbacks' = closeCallbacks \ {d}
        /\ releasing' \subseteq releasing \cup {d}
        /\ UNCHANGED <<subscriptions, subscribedCount, reconcileCh, worker, caller,
                       closed, pubVars, down, removing, flushing, removals>>
    BY <1>2 DEF handleSubscribedTrackClose
  <2>2. sub' \in [SubId -> SubRecord]
    <3>1. CASE sub[down[d].sub].down = 0
      BY <1>2, <3>1 DEF Types, handleSubscribedTrackClose
    <3>2. CASE sub[down[d].sub].down # 0
      BY <1>2, <3>2, Released
    <3> QED BY <3>1, <3>2
  <2> QED BY <2>1, <2>2 DEF Types, pubVars
<1>3. ASSUME NEW d \in DownId, CountReleased(d) PROVE Types'
  <2>1. reconcileCh' = Queued(All) \/ reconcileCh' = Queued(down[d].track)
    BY <1>3 DEF CountReleased, queueReconcile
  <2>2. reconcileCh' \subseteq Track \cup {All}
    BY <2>1, QueuedType DEF Types, DownRecord
  <2>3. down' \in [DownId -> DownRecord]
    BY <1>3, Placeholders DEF CountReleased, Types
  <2> QED BY <1>3, <2>2, <2>3 DEF Types, CountReleased, subVars, pubVars
<1>4. CASE CloseBegins
  BY <1>4 DEF Types, CloseBegins, subVars, pubVars, closeVars
<1>5. CASE CloseEnds
  <2>1. /\ closed' = "done"
        /\ UNCHANGED <<subscriptions, subscribedCount, reconcileCh, caller, pubVars,
                       down, removing, closeCallbacks, releasing, removals>>
    BY <1>5, Zenon DEF CloseEnds
  <2>2. /\ sub' \in [SubId -> SubRecord] /\ flushing' \subseteq DownId
        /\ worker' \in WorkerRecord
    BY <1>5, EndsHolders, Placeholders
  <2> QED BY <2>1, <2>2 DEF Types, pubVars
<1> QED BY <1>1, <1>2, <1>3, <1>4, <1>5

-----------------------------------------------------------------------------
(* Who has which down track.                                               *)

(* The subscriptions with a down track are finitely many.                  *)
LEMMA FewHolders ==
  /\ IsFiniteSet(Holders) /\ Cardinality(Holders) \in Nat
  /\ Cardinality(Holders) <= MaxSubs
<1>1. IsFiniteSet(SubId) /\ Cardinality(SubId) = MaxSubs
  BY FS_Interval DEF SubId
<1>2. Holders \subseteq SubId
  BY DEF Holders
<1> QED BY <1>1, <1>2, FS_Subset, FS_CardinalityType

(* So are the closings that are still to be counted.                       *)
LEMMA FewReleasing ==
  ASSUME Types
  PROVE  /\ IsFiniteSet(releasing) /\ Cardinality(releasing) \in Nat
         /\ Cardinality(releasing) <= MaxDowns
<1>1. IsFiniteSet(DownId) /\ Cardinality(DownId) = MaxDowns
  BY FS_Interval DEF DownId
<1>2. releasing \subseteq DownId
  BY DEF Types
<1> QED BY <1>1, <1>2, FS_Subset, FS_CardinalityType

(* What the invariant depends on is left alone, but that more down tracks
   may be asked to close, all those of a MediaTrack that closes included.  *)
SameHolders ==
  /\ \A s \in SubId : sub'[s].down = sub[s].down
  /\ worker.at # "idle" => sub'[worker.sub].track = sub[worker.sub].track
  /\ flushing \subseteq flushing'
  /\ \A d \in DownId :
       down[d].open /\ down[d].media # 0 /\ down[d].media = published[down[d].track]
         => d \in flushing' \/ down[d].media = published'[down[d].track]
  /\ UNCHANGED <<subscribedCount, subscriptionLimit, down, closeCallbacks, releasing>>

(* The worker goes on as it was, or becomes idle and leaves nothing half
   installed.                                                              *)
WorkerKeeps ==
  \/ UNCHANGED <<worker.at, worker.sub, worker.down, worker.media>>
  \/ worker'.at = "idle" /\ ~Installing /\ worker.at # "set"

(* Steps of that kind keep the invariant.                                  *)
LEMMA QuietStep ==
  ASSUME Core, SameHolders, WorkerKeeps
  PROVE  Core'
<1>1. Holders' = Holders
  BY DEF Holders, SameHolders
<1>2. CountIsExact' /\ HoldersWithinLimit'
  <2>1. (worker'.at = "set") <=> (worker.at = "set")
    BY DEF WorkerKeeps
  <2> QED BY <1>1, <2>1 DEF Core, CountIsExact, HoldersWithinLimit, SameHolders
<1>3. UNCHANGED <<down, closeCallbacks, releasing, subscriptionLimit>>
  BY DEF SameHolders
<1>4. ReportedIsClosed'
  BY <1>3 DEF Core, ReportedIsClosed, SameHolders
<1>5. DownsAreApart'
  BY DEF Core, DownsAreApart, SameHolders
<1>6. WorkerInv'
  <2>1. CASE UNCHANGED <<worker.at, worker.sub, worker.down, worker.media>>
    BY <1>1, <1>3, <2>1 DEF Core, WorkerInv, Subscribing, Installing, SameHolders
  <2>2. CASE worker'.at = "idle"
    BY <2>2 DEF WorkerInv, Subscribing, Installing
  <2> QED BY <2>1, <2>2 DEF WorkerKeeps
<1>7. DownsAreHeld'
  <2>1. \A d \in DownId : Installing /\ worker.down = d => Installing' /\ worker'.down = d
    BY DEF WorkerKeeps, Installing
  <2> QED BY <1>3, <2>1 DEF Core, DownsAreHeld, SameHolders
<1>8. OpenOnOpenTrack'
  <2>1. worker.at = "added" => worker'.at = "added" /\ worker'.down = worker.down
    BY DEF WorkerKeeps, Installing
  <2> QED BY <1>3, <2>1 DEF Core, OpenOnOpenTrack, NoneOnClosedTrack, SameHolders
<1> QED BY <1>2, <1>4, <1>5, <1>6, <1>7, <1>8 DEF Core

(* A new subscription object has no down track, and neither had the object
   whose number it gets; the worker is not busy with that object.          *)
LEMMA NewIsQuiet ==
  ASSUME IInv, NEW s \in FreeSubs, NEW t \in Track, NEW b \in BOOLEAN,
         newMediaTrackSubscription(s, t, b)
  PROVE  /\ \A r \in SubId : sub'[r].down = sub[r].down
         /\ worker.at # "idle" => sub'[worker.sub].track = sub[worker.sub].track
<1>1. ASSUME NEW r \in SubId PROVE sub'[r].down = sub[r].down
  <2>1. CASE r = s
    BY <2>1, NewSubscription DEF IInv
  <2>2. CASE r # s
    BY <2>2, NewSubscription DEF IInv
  <2> QED BY <2>1, <2>2
<1>2. worker.at # "idle" => worker.sub \in SubId \ {s}
  BY DEF FreeSubs, IInv, Core, WorkerInv
<1>3. worker.at # "idle" => sub'[worker.sub] = sub[worker.sub]
  BY <1>2, NewSubscription DEF IInv
<1> QED BY <1>1, <1>3

(* Requests are of that kind.                                              *)
LEMMA RequestsAreQuiet ==
  ASSUME IInv, NEW t \in Track,
         \/ SubscribeExisting(t) \/ UnsubscribeFromTrack(t)
         \/ UpdateSubscribedTrackSettings(t)
         \/ \E c \in Caller : \/ SubscribeFindsNone(c, t)
                            \/ SubscribeCreates(c) \/ SubscribeDesires(c)
         \/ ClearAllSubscriptions
  PROVE  SameHolders /\ UNCHANGED worker
<1>0. worker.at # "idle" => worker.sub \in SubId
  BY DEF IInv, Core, WorkerInv
<1>1. UNCHANGED <<worker, subscribedCount, pubVars, down, closeVars>>
  BY Zenon DEF SubscribeExisting, UnsubscribeFromTrack, UpdateSubscribedTrackSettings,
     SubscribeFindsNone, SubscribeCreates, SubscribeDesires, ClearAllSubscriptions
<1>2. SUFFICES /\ \A r \in SubId : sub'[r].down = sub[r].down
               /\ worker.at # "idle" => sub'[worker.sub].track = sub[worker.sub].track
  BY <1>1 DEF SameHolders, pubVars, closeVars
<1>3. ASSUME \A r \in SubId : sub'[r].down = sub[r].down /\ sub'[r].track = sub[r].track
      PROVE  /\ \A r \in SubId : sub'[r].down = sub[r].down
             /\ worker.at # "idle" => sub'[worker.sub].track = sub[worker.sub].track
  BY <1>0, <1>3
<1>4. CASE SubscribeExisting(t)
  BY <1>3, <1>4, DesiredType DEF SubscribeExisting, IInv
<1>5. CASE UnsubscribeFromTrack(t)
  BY <1>3, <1>5, DesiredType DEF UnsubscribeFromTrack, IInv
<1>6. CASE UpdateSubscribedTrackSettings(t)
  BY <1>6, NewIsQuiet DEF UpdateSubscribedTrackSettings
<1>7. ASSUME NEW c \in Caller, SubscribeFindsNone(c, t) PROVE sub' = sub
  BY <1>7 DEF SubscribeFindsNone, subVars
<1>8. ASSUME NEW c \in Caller, SubscribeCreates(c)
      PROVE  /\ \A r \in SubId : sub'[r].down = sub[r].down
             /\ worker.at # "idle" => sub'[worker.sub].track = sub[worker.sub].track
  <2>1. caller[c].track \in Track
    BY DEF IInv, Types, CallRecord
  <2> QED BY <1>8, <2>1, NewIsQuiet DEF SubscribeCreates
<1>9. ASSUME NEW c \in Caller, SubscribeDesires(c)
      PROVE  \A r \in SubId : sub'[r].down = sub[r].down /\ sub'[r].track = sub[r].track
  BY <1>9, DesiredType DEF SubscribeDesires, IInv
<1>10. CASE ClearAllSubscriptions
  <2>1. \A r \in SubId : sub'[r].down = sub[r].down /\ sub'[r].track = sub[r].track
    BY <1>10, RecordDesired DEF IInv, Types, ClearAllSubscriptions
  <2> QED BY <1>3, <2>1
<1> QED BY <1>3, <1>4, <1>5, <1>6, <1>7, <1>8, <1>9, <1>10

(* So are the steps of publishers.                                         *)
LEMMA PublishersAreQuiet ==
  ASSUME IInv, NEW t \in Track,
         \/ Publish(t) \/ Unpublish(t) \/ GrantPermission(t) \/ RevokePermission(t)
         \/ handleSourceTrackRemoved(t) \/ AllowSubscribe \/ DisallowSubscribe
         \/ \E m \in Nat : RemoveSubscriber(t, m)
  PROVE  SameHolders /\ UNCHANGED worker
<1>0. worker.at # "idle" => worker.sub \in SubId
  BY DEF IInv, Core, WorkerInv
<1>1. CASE \/ GrantPermission(t) \/ RevokePermission(t) \/ AllowSubscribe
           \/ DisallowSubscribe \/ \E m \in Nat : RemoveSubscriber(t, m)
  <2>1. UNCHANGED <<subVars, subscribedCount, worker, subscriptionLimit, down,
                    closeCallbacks, releasing, published>>
    BY <1>1, Zenon DEF GrantPermission, RevokePermission, RemoveSubscriber,
       AllowSubscribe, DisallowSubscribe, pubVars, closeVars
  <2>2. flushing \subseteq flushing'
    BY <1>1, Zenon DEF GrantPermission, RevokePermission, RemoveSubscriber,
       AllowSubscribe, DisallowSubscribe, closeVars
  <2> QED BY <2>1, <2>2 DEF SameHolders, subVars
<1>2. CASE Publish(t)
  <2>1. \A d \in DownId : down[d].media # 0 /\ down[d].media = published[down[d].track]
                          => down[d].track # t
    BY <1>2 DEF Publish
  <2>2. \A d \in DownId : down[d].track \in Track
    BY DEF IInv, Types, DownRecord
  <2>3. \A u \in Track \ {t} : published'[u] = published[u]
    BY <1>2 DEF Publish, IInv, Types
  <2> QED BY <1>2, <2>1, <2>2, <2>3 DEF Publish, SameHolders, subVars, closeVars
<1>3. CASE Unpublish(t)
  <2>1. \A d \in DownId : down[d].track \in Track
    BY DEF IInv, Types, DownRecord
  <2>2. \A u \in Track \ {t} : published'[u] = published[u]
    BY <1>3 DEF Unpublish, IInv, Types
  <2>3. ASSUME NEW d \in DownId, down[d].open, down[d].media = published[down[d].track]
        PROVE  d \in flushing' \/ down[d].media = published'[down[d].track]
    BY <1>3, <2>1, <2>2, <2>3 DEF Unpublish, getSubscribedTrack
  <2> QED BY <1>3, <2>3 DEF Unpublish, SameHolders, subVars
<1>4. CASE handleSourceTrackRemoved(t)
  BY <1>0, <1>4, DesiredType DEF SameHolders, handleSourceTrackRemoved, pubVars, closeVars, IInv
<1> QED BY <1>1, <1>2, <1>3, <1>4

(* So are the worker's steps between two subscriptions.                    *)
LEMMA ChoosingIsQuiet ==
  ASSUME Types, WorkerChooses
  PROVE  SameHolders /\ worker.at = "idle" /\ worker'.at = "idle"
<1>1. worker.at = "idle" /\ UNCHANGED <<subscribedCount, pubVars, down, closeVars>>
  BY Zenon DEF WorkerChooses, Tick, Receive, SubscribeWaits, SubscribeFails,
     SubscribeTimesOut, unsubscribe, Cleanup, NothingToDo, WorkerIsFree, Reconcile
<1>2. \A s \in SubId : sub'[s].down = sub[s].down
  <2>1. ASSUME NEW s \in SubId, SubscribeTimesOut(s)
        PROVE  \A r \in SubId : sub'[r].down = sub[r].down
    BY <2>1, DesiredType DEF SubscribeTimesOut
  <2>2. CASE UNCHANGED sub
    BY <2>2
  <2> QED BY <2>1, <2>2 DEF WorkerChooses, Tick, Receive, SubscribeWaits, SubscribeFails,
             unsubscribe, Cleanup, NothingToDo, subVars
<1>3. worker'.at = "idle"
  <2>1. CASE Tick
    BY <1>1, <2>1, TodoType DEF Tick, NeedsReconcile
  <2>2. ASSUME NEW id \in Track \cup {All}, Receive(id) PROVE worker'.at = "idle"
    <3>1. (IF id # All /\ subscriptions[id] # 0 THEN {subscriptions[id]}
                                                ELSE NeedsReconcile) \in SUBSET SubId
      BY DEF Types, NeedsReconcile, SubId
    <3> QED BY <1>1, <2>2, <3>1, TodoType DEF Receive
  <2>3. ASSUME NEW s \in SubId, Done(s) PROVE worker'.at = "idle"
    BY <2>3, DoneType
  <2> QED BY <2>1, <2>2, <2>3, Zenon DEF WorkerChooses, SubscribeWaits, SubscribeFails,
             SubscribeTimesOut, unsubscribe, Cleanup, NothingToDo
<1> QED BY <1>1, <1>2, <1>3 DEF SameHolders, pubVars, closeVars

(* The worker moves within a subscribe, with the same down track or before
   it has one.                                                             *)
LEMMA MovedCore ==
  ASSUME IInv, SameHolders, worker.at # "idle",
         UNCHANGED <<sub, worker.sub, worker.down, worker.media>>,
         \/ worker.at = "resolved" /\ worker'.at = "adding"
         \/ /\ worker.at = "added" /\ worker'.at = "checked"
            /\ worker.media = published'[sub[worker.sub].track]
  PROVE  Core'
<1> USE DEF IInv, Core
<1>1. Holders' = Holders
  BY DEF Holders
<1>2. CountIsExact' /\ HoldersWithinLimit'
  BY <1>1 DEF CountIsExact, HoldersWithinLimit, SameHolders
<1>3. UNCHANGED <<down, closeCallbacks, releasing, subscriptionLimit>>
  BY DEF SameHolders
<1>4. ReportedIsClosed' /\ DownsAreApart'
  BY <1>3 DEF ReportedIsClosed, DownsAreApart
<1>5. WorkerInv'
  BY <1>1, <1>3 DEF WorkerInv, Subscribing, Installing
<1>6. DownsAreHeld'
  BY <1>3 DEF DownsAreHeld, Installing, SameHolders
<1>7. OpenOnOpenTrack'
  <2>1. worker.at = "added" => /\ down[worker.down].media = worker.media
                               /\ down[worker.down].track = sub[worker.sub].track
    BY DEF WorkerInv, Installing
  <2> QED BY <1>3, <2>1 DEF OpenOnOpenTrack, NoneOnClosedTrack, SameHolders
<1> QED BY <1>2, <1>4, <1>5, <1>6, <1>7

(* A place is found under the limit.                                       *)
LEMMA ResolvedCore ==
  ASSUME IInv, NEW s \in SubId, SubscribeResolves(s)
  PROVE  Core'
<1>1. s \in 0..MaxSubs /\ published[sub[s].track] \in Nat
  BY DEF SubId, IInv, Types, SubRecord
<1>2. /\ worker.at = "idle" /\ worker'.at = "resolved" /\ worker'.sub = s
      /\ worker'.media = published[sub[s].track]
  BY <1>1, WorkerTakes DEF SubscribeResolves, Reconcile, IInv, Position
<1>3. /\ sub[s].down = 0 /\ hasCapacityForSubscription /\ published[sub[s].track] # 0
      /\ UNCHANGED <<sub, subscribedCount, subscriptionLimit, down, closeCallbacks,
                     flushing, releasing, published>>
  BY DEF SubscribeResolves, NeedsSubscribe, subVars, pubVars, closeVars
<1>4. Holders' = Holders
  BY <1>3 DEF Holders
<1>5. subscriptionLimit > 0 => Cardinality(Holders) < subscriptionLimit
  BY <1>2, <1>3, FewHolders, FewReleasing
     DEF IInv, Types, Core, CountIsExact, hasCapacityForSubscription
<1>6. WorkerInv'
  BY <1>2, <1>3, <1>4, <1>5 DEF WorkerInv, Subscribing, Installing
<1>7. DownsAreHeld' /\ OpenOnOpenTrack'
  BY <1>2, <1>3 DEF IInv, Core, DownsAreHeld, OpenOnOpenTrack, NoneOnClosedTrack, Installing
<1>8. ReportedIsClosed' /\ DownsAreApart' /\ CountIsExact' /\ HoldersWithinLimit'
  BY <1>2, <1>3, <1>4 DEF IInv, Core, ReportedIsClosed, DownsAreApart, CountIsExact,
     HoldersWithinLimit
<1> QED BY <1>6, <1>7, <1>8 DEF Core

(* AddSubscriber opens a down track that nobody has.                       *)
LEMMA AddedCore ==
  ASSUME IInv, NEW d \in FreeDowns, AddSubscriber(d)
  PROVE  Core'
<1> USE DEF IInv, Core
<1>1. /\ d \in DownId /\ d # 0 /\ worker.sub \in SubId
      /\ down'[d].open /\ down'[d].sub = worker.sub /\ ~down'[d].onClose
      /\ down'[d].track = sub[worker.sub].track /\ down'[d].media = worker.media
      /\ \A e \in DownId \ {d} : down'[e] = down[e]
      /\ worker'.at = "added" /\ worker'.down = d
      /\ worker'.sub = worker.sub /\ worker'.media = worker.media
  BY Added
<1>2. /\ worker.at = "adding"
      /\ UNCHANGED <<sub, subscribedCount, subscriptionLimit, closeCallbacks,
                     flushing, releasing, published>>
  BY DEF AddSubscriber, subVars, pubVars, closeVars
<1>3. /\ ~down[d].open /\ d \notin closeCallbacks /\ d \notin releasing
      /\ \A s \in SubId : sub[s].down # d
  BY DEF FreeDowns
<1>4. Holders' = Holders
  BY <1>2 DEF Holders
<1>5. WorkerInv'
  BY <1>1, <1>2, <1>3, <1>4 DEF WorkerInv, Subscribing, Installing
<1>6. DownsAreHeld'
  BY <1>1, <1>2 DEF DownsAreHeld, Installing
<1>7. ReportedIsClosed'
  <2>1. \A e \in closeCallbacks \cup releasing : e \in DownId \ {d}
    BY <1>3 DEF Types
  <2> QED BY <1>1, <1>2, <2>1 DEF ReportedIsClosed
<1>8. DownsAreApart' /\ CountIsExact' /\ HoldersWithinLimit'
  BY <1>1, <1>2, <1>4 DEF DownsAreApart, CountIsExact, HoldersWithinLimit
<1>9. OpenOnOpenTrack'
  <2>1. worker.media # 0
    BY <1>2 DEF WorkerInv, Subscribing
  <2> QED BY <1>1, <1>2, <2>1 DEF OpenOnOpenTrack, NoneOnClosedTrack
<1> QED BY <1>5, <1>6, <1>7, <1>8, <1>9

(* The down track added to a MediaTrack that closed is asked to close, and
   has no callback.                                                        *)
LEMMA UndoneCore ==
  ASSUME IInv, AddSubscriberUndone
  PROVE  Core'
<1> USE DEF IInv, Core
<1>1. worker'.at = "idle"
  BY DoneType DEF AddSubscriberUndone
<1>2. /\ worker.at = "added"
      /\ UNCHANGED <<sub, subscribedCount, subscriptionLimit, down, closeCallbacks,
                     releasing, published>>
      /\ flushing' = flushing \cup
                       getSubscribedTrack(sub[worker.sub].track, worker.media)
  BY DEF AddSubscriberUndone, subVars, pubVars
<1>3. /\ worker.down \in DownId /\ worker.down \notin closeCallbacks
      /\ ~down[worker.down].onClose
      /\ down[worker.down].open => worker.down \in flushing'
  BY <1>2 DEF WorkerInv, Installing, getSubscribedTrack
<1>4. Holders' = Holders
  BY <1>2 DEF Holders
<1>5. CountIsExact' /\ HoldersWithinLimit'
  BY <1>1, <1>2, <1>4 DEF CountIsExact, HoldersWithinLimit
<1>6. ReportedIsClosed' /\ DownsAreApart'
  BY <1>2 DEF ReportedIsClosed, DownsAreApart
<1>7. WorkerInv'
  BY <1>1 DEF WorkerInv, Subscribing, Installing
<1>8. DownsAreHeld'
  BY <1>2, <1>3 DEF DownsAreHeld
<1>9. OpenOnOpenTrack'
  BY <1>2, <1>3 DEF OpenOnOpenTrack, NoneOnClosedTrack
<1> QED BY <1>5, <1>6, <1>7, <1>8, <1>9

(* The callback is that of the down track being installed.                 *)
LEMMA HookedCore ==
  ASSUME IInv, OnClose
  PROVE  Core'
<1> USE DEF IInv, Core
<1>1. /\ worker.down \in DownId
      /\ \A d \in DownId : /\ down'[d].open = down[d].open
                           /\ down'[d].sub = down[d].sub
                           /\ down'[d].track = down[d].track
                           /\ down'[d].media = down[d].media
      /\ \A d \in DownId \ {worker.down} : down'[d] = down[d]
      /\ worker'.at = "hooked" /\ worker'.media = worker.media
      /\ worker'.down = worker.down /\ worker'.sub = worker.sub
  BY Hooked
<1>2. /\ worker.at = "checked"
      /\ UNCHANGED <<sub, subscribedCount, subscriptionLimit, closeCallbacks,
                     flushing, releasing, published>>
  BY DEF OnClose, subVars, pubVars, closeVars
<1>3. Holders' = Holders
  BY <1>2 DEF Holders
<1>4. WorkerInv'
  BY <1>1, <1>2, <1>3 DEF WorkerInv, Subscribing, Installing
<1>5. DownsAreHeld'
  BY <1>1, <1>2 DEF DownsAreHeld, Installing
<1>6. ReportedIsClosed'
  BY <1>1, <1>2 DEF ReportedIsClosed, Types
<1>7. OpenOnOpenTrack'
  BY <1>1, <1>2 DEF OpenOnOpenTrack, NoneOnClosedTrack
<1>8. DownsAreApart' /\ CountIsExact' /\ HoldersWithinLimit'
  BY <1>1, <1>2, <1>3 DEF DownsAreApart, CountIsExact, HoldersWithinLimit
<1> QED BY <1>4, <1>5, <1>6, <1>7, <1>8

(* The subscription takes over the down track and fills the place.         *)
LEMMA InstalledCore ==
  ASSUME IInv, setSubscribedTrack
  PROVE  Core'
<1> USE DEF IInv, Core
<1>1. /\ worker.sub \in SubId /\ worker.down \in DownId /\ worker.down # 0
      /\ sub'[worker.sub].down = worker.down
      /\ \A s \in SubId \ {worker.sub} : sub'[s] = sub[s]
      /\ worker'.at = "set" /\ worker'.sub = worker.sub
  BY Installed
<1>2. /\ worker.at = "hooked"
      /\ UNCHANGED <<subscribedCount, subscriptionLimit, closeCallbacks, down,
                     flushing, releasing, published>>
  BY DEF setSubscribedTrack, pubVars, closeVars
<1>3. /\ sub[worker.sub].down = 0 /\ down[worker.down].sub = worker.sub
      /\ worker.down \notin releasing
      /\ \A s \in SubId : sub[s].down # worker.down
      /\ subscriptionLimit > 0 => Cardinality(Holders) < subscriptionLimit
  BY <1>2 DEF WorkerInv, Subscribing, Installing
<1>4. WorkerInv'
  BY <1>1 DEF WorkerInv, Subscribing, Installing
<1>5. DownsAreHeld'
  <2>1. ASSUME NEW d \in DownId, down[d].open \/ d \in closeCallbacks, d # worker.down
        PROVE  /\ down[d].sub \in SubId
               /\ \/ down[d].sub # worker.sub /\ sub[down[d].sub].down = d
                  \/ down[d].open /\ ~down[d].onClose /\ d \in flushing
    BY <1>3, <2>1 DEF DownsAreHeld, DownId
  <2> QED BY <1>1, <1>2, <1>3, <2>1 DEF DownsAreHeld
<1>6. ReportedIsClosed'
  BY <1>1, <1>2, <1>3 DEF ReportedIsClosed
<1>7. OpenOnOpenTrack'
  BY <1>2 DEF OpenOnOpenTrack, NoneOnClosedTrack
<1>8. DownsAreApart'
  BY <1>1, <1>3 DEF DownsAreApart
<1>9. Cardinality(Holders') = Cardinality(Holders) + 1
  <2>1. Holders' = Holders \cup {worker.sub} /\ worker.sub \notin Holders
    BY <1>1, <1>3 DEF Holders
  <2> QED BY <2>1, FewHolders, FS_AddElement
<1>10. CountIsExact'
  BY <1>1, <1>2, <1>9, FewHolders, FewReleasing DEF CountIsExact
<1>11. HoldersWithinLimit'
  BY <1>2, <1>3, <1>9, FewHolders DEF HoldersWithinLimit, Types
<1> QED BY <1>4, <1>5, <1>6, <1>7, <1>8, <1>10, <1>11

(* The worker counts what it has installed.                                *)
LEMMA CountedCore ==
  ASSUME IInv, CountSubscribed
  PROVE  Core'
<1> USE DEF IInv, Core
<1>1. worker'.at = "idle"
  BY DoneType DEF CountSubscribed
<1>2. /\ worker.at = "set" /\ subscribedCount' = subscribedCount + 1
      /\ UNCHANGED <<sub, subscriptionLimit, down, closeCallbacks, flushing,
                     releasing, published>>
  BY DEF CountSubscribed, subVars, pubVars, closeVars
<1>3. Holders' = Holders
  BY <1>2 DEF Holders
<1>4. CountIsExact' /\ HoldersWithinLimit'
  BY <1>1, <1>2, <1>3, FewHolders, FewReleasing DEF CountIsExact, HoldersWithinLimit
<1>5. ReportedIsClosed' /\ DownsAreApart'
  BY <1>2 DEF ReportedIsClosed, DownsAreApart
<1>6. WorkerInv'
  BY <1>1 DEF WorkerInv, Subscribing, Installing
<1>7. DownsAreHeld' /\ OpenOnOpenTrack'
  BY <1>2 DEF DownsAreHeld, Installing, OpenOnOpenTrack, NoneOnClosedTrack
<1> QED BY <1>4, <1>5, <1>6, <1>7

(* Subscribing keeps the invariant.                                        *)
LEMMA SubscribeCore ==
  ASSUME IInv, WorkerSubscribes
  PROVE  Core'
<1>1. CASE AddSubscriberFails \/ AddSubscriberFindsOne
  <2>1. worker'.at = "idle" /\ worker.at \in {"resolved", "adding"}
    BY <1>1, DoneType DEF AddSubscriberFails, AddSubscriberFindsOne, IInv
  <2>2. SameHolders
    BY <1>1 DEF AddSubscriberFails, AddSubscriberFindsOne, SameHolders, subVars,
       pubVars, closeVars
  <2> QED BY <2>1, <2>2, QuietStep DEF IInv, WorkerKeeps, Installing
<1>2. CASE AddSubscriberBegins \/ AddSubscriberEnds
  <2>1. /\ UNCHANGED <<sub, worker.sub, worker.down, worker.media>>
        /\ \/ worker.at = "resolved" /\ worker'.at = "adding"
           \/ /\ worker.at = "added" /\ worker'.at = "checked"
              /\ worker.media = published'[sub[worker.sub].track]
    BY <1>2, WorkerMoves DEF AddSubscriberBegins, AddSubscriberEnds, subVars, pubVars,
       IInv, Position
  <2>2. SameHolders
    BY <1>2 DEF AddSubscriberBegins, AddSubscriberEnds, SameHolders, subVars, pubVars,
       closeVars
  <2> QED BY <2>1, <2>2, MovedCore
<1> QED BY <1>1, <1>2, ResolvedCore, AddedCore, UndoneCore, HookedCore, InstalledCore,
           CountedCore DEF WorkerSubscribes

(* A down track closes: it reports to its subscription, if it may.         *)
LEMMA ClosedCore ==
  ASSUME IInv, NEW d \in DownId, CloseWithFlush(d)
  PROVE  Core'
<1> USE DEF IInv, Core
<1>1. /\ UNCHANGED <<sub, subscribedCount, subscriptionLimit, worker, releasing,
                     published>>
      /\ flushing' = flushing \ {d}
  BY DEF CloseWithFlush, subVars, pubVars
<1>2. Holders' = Holders
  BY <1>1 DEF Holders
<1>3. DownsAreApart' /\ CountIsExact' /\ HoldersWithinLimit'
  BY <1>1, <1>2 DEF DownsAreApart, CountIsExact, HoldersWithinLimit
<1>4. CASE ~down[d].open
  <2>1. UNCHANGED <<down, closeCallbacks>>
    BY <1>4 DEF CloseWithFlush
  <2>2. WorkerInv' /\ ReportedIsClosed'
    BY <1>1, <1>2, <2>1 DEF WorkerInv, Subscribing, Installing, ReportedIsClosed
  <2>3. DownsAreHeld' /\ OpenOnOpenTrack'
    BY <1>1, <1>4, <2>1 DEF DownsAreHeld, Installing, OpenOnOpenTrack, NoneOnClosedTrack
  <2> QED BY <1>3, <2>2, <2>3
<1>5. CASE down[d].open
  <2>1. /\ ~down'[d].open
        /\ \A e \in DownId : /\ down'[e].sub = down[e].sub
                             /\ down'[e].track = down[e].track
                             /\ down'[e].media = down[e].media
                             /\ down'[e].onClose = down[e].onClose
        /\ \A e \in DownId \ {d} : down'[e] = down[e]
        /\ closeCallbacks' \subseteq closeCallbacks \cup {d}
        /\ ~down[d].onClose => closeCallbacks' = closeCallbacks
    BY <1>5, Closed
  <2>2. WorkerInv'
    BY <1>1, <1>2, <2>1 DEF WorkerInv, Subscribing, Installing
  <2>3. DownsAreHeld'
    <3>1. ASSUME NEW e \in DownId, down'[e].open \/ e \in closeCallbacks'
          PROVE  /\ down[e].sub \in SubId
                 /\ \/ sub[down[e].sub].down = e
                    \/ Installing /\ worker.down = e
                    \/ down'[e].open /\ ~down[e].onClose /\ e \in flushing'
      <4>1. CASE e = d
        <5>1. down[d].onClose
          BY <1>5, <2>1, <3>1, <4>1 DEF ReportedIsClosed
        <5> QED BY <1>5, <4>1, <5>1 DEF DownsAreHeld
      <4>2. CASE e # d
        BY <1>1, <2>1, <3>1, <4>2 DEF DownsAreHeld
      <4> QED BY <4>1, <4>2
    <3> QED BY <1>1, <2>1, <3>1 DEF DownsAreHeld, Installing
  <2>4. ReportedIsClosed'
    <3>1. d \notin releasing
      BY <1>5 DEF ReportedIsClosed
    <3> QED BY <1>1, <2>1, <3>1 DEF ReportedIsClosed, Types
  <2>5. OpenOnOpenTrack'
    BY <1>1, <2>1 DEF OpenOnOpenTrack, NoneOnClosedTrack
  <2> QED BY <1>3, <2>2, <2>3, <2>4, <2>5
<1> QED BY <1>4, <1>5

(* The report of a closing releases its own down track.                    *)
LEMMA ReleasedCore ==
  ASSUME IInv, NEW d \in DownId, handleSubscribedTrackClose(d)
  PROVE  Core'
<1> USE DEF IInv, Core
<1>1. /\ d \in closeCallbacks /\ closeCallbacks' = closeCallbacks \ {d}
      /\ UNCHANGED <<subscribedCount, worker, down, subscriptionLimit, flushing,
                     published>>
  BY DEF handleSubscribedTrackClose, pubVars
<1>2. ~down[d].open /\ d \notin releasing
  BY <1>1 DEF ReportedIsClosed
<1>3. OpenOnOpenTrack'
  BY <1>1 DEF OpenOnOpenTrack, NoneOnClosedTrack
<1>4. CASE sub[down[d].sub].down = 0
  <2>1. UNCHANGED <<sub, releasing>>
    BY <1>4 DEF handleSubscribedTrackClose
  <2>2. Holders' = Holders
    BY <2>1 DEF Holders
  <2>3. WorkerInv' /\ DownsAreHeld'
    BY <1>1, <2>1, <2>2 DEF WorkerInv, DownsAreHeld, Subscribing, Installing
  <2>4. DownsAreApart' /\ CountIsExact' /\ HoldersWithinLimit' /\ ReportedIsClosed'
    BY <1>1, <2>1, <2>2 DEF DownsAreApart, CountIsExact, HoldersWithinLimit,
       ReportedIsClosed
  <2> QED BY <1>3, <2>3, <2>4
<1>5. CASE sub[down[d].sub].down # 0
  <2>1. /\ down[d].sub \in SubId /\ sub[down[d].sub].down = d
        /\ sub'[down[d].sub].down = 0
        /\ \A s \in SubId : sub'[s].track = sub[s].track
        /\ \A s \in SubId \ {down[d].sub} : sub'[s] = sub[s]
    BY <1>5, Released
  <2>2. releasing' = releasing \cup {d} /\ d # 0
    BY <1>5 DEF handleSubscribedTrackClose, DownId
  <2>3. Holders' = Holders \ {down[d].sub} /\ down[d].sub \in Holders
    BY <1>5, <2>1 DEF Holders
  <2>4. /\ Cardinality(Holders') = Cardinality(Holders) - 1
        /\ Cardinality(releasing') = Cardinality(releasing) + 1
    BY <1>2, <2>2, <2>3, FewHolders, FewReleasing, FS_RemoveElement, FS_AddElement
  <2>5. CountIsExact' /\ HoldersWithinLimit'
    BY <1>1, <2>4, FewHolders, FewReleasing DEF CountIsExact, HoldersWithinLimit, Types
  <2>6. WorkerInv'
    <3>1. Subscribing => worker.sub # down[d].sub /\ worker.sub \in SubId
      BY <1>5 DEF WorkerInv, Subscribing
    <3>2. Subscribing => /\ sub'[worker.sub].down = 0 /\ worker.media # 0
                         /\ subscriptionLimit > 0
                              => Cardinality(Holders') < subscriptionLimit
      BY <2>1, <2>4, <3>1, FewHolders DEF WorkerInv, Types
    <3>3. Installing => /\ \A s \in SubId : sub'[s].down # worker.down
                        /\ worker.down \notin releasing'
      BY <2>1, <2>2 DEF WorkerInv, DownId
    <3>4. worker.at # "idle" => sub'[worker.sub].track = sub[worker.sub].track
      BY <2>1 DEF WorkerInv
    <3> QED BY <1>1, <3>2, <3>3, <3>4 DEF WorkerInv, Subscribing, Installing
  <2>7. DownsAreHeld'
    <3>1. ASSUME NEW e \in DownId, down[e].open \/ e \in closeCallbacks, e # d
          PROVE  /\ down[e].sub \in SubId
                 /\ \/ sub'[down[e].sub].down = e
                    \/ Installing /\ worker.down = e
                    \/ down[e].open /\ ~down[e].onClose /\ e \in flushing
      BY <2>1, <3>1 DEF DownsAreHeld
    <3> QED BY <1>1, <1>2, <3>1 DEF DownsAreHeld, Installing
  <2>8. DownsAreApart'
    BY <2>1 DEF DownsAreApart
  <2>9. ReportedIsClosed'
    <3>1. \A s \in SubId : sub'[s].down # d
      BY <2>1, <2>2 DEF DownsAreApart
    <3>2. \A e \in releasing, s \in SubId : sub'[s].down # e
      BY <2>1 DEF ReportedIsClosed, Types, DownId
    <3> QED BY <1>1, <1>2, <2>2, <3>1, <3>2 DEF ReportedIsClosed
  <2> QED BY <1>3, <2>5, <2>6, <2>7, <2>8, <2>9
<1> QED BY <1>4, <1>5

(* A release is counted, and the down track forgotten.                     *)
LEMMA ForgottenCore ==
  ASSUME IInv, NEW d \in DownId, CountReleased(d)
  PROVE  Core'
<1> USE DEF IInv, Core
<1>1. /\ d \in releasing /\ releasing' = releasing \ {d}
      /\ subscribedCount' = subscribedCount - 1
      /\ down' = [down EXCEPT ![d] = NoDown]
      /\ UNCHANGED <<sub, worker, subscriptionLimit, flushing, closeCallbacks, published>>
  BY DEF CountReleased, subVars, pubVars
<1>2. /\ ~down'[d].open /\ \A e \in DownId \ {d} : down'[e] = down[e]
  BY <1>1 DEF Types, NoDown
<1>3. ~down[d].open /\ d \notin closeCallbacks
  BY <1>1 DEF ReportedIsClosed
<1>4. Holders' = Holders
  BY <1>1 DEF Holders
<1>5. Cardinality(releasing') = Cardinality(releasing) - 1
  BY <1>1, FewReleasing, FS_RemoveElement
<1>6. CountIsExact' /\ HoldersWithinLimit'
  BY <1>1, <1>4, <1>5, FewHolders, FewReleasing DEF CountIsExact, HoldersWithinLimit
<1>7. WorkerInv'
  BY <1>1, <1>2, <1>4 DEF WorkerInv, Subscribing, Installing
<1>8. DownsAreHeld' /\ DownsAreApart'
  BY <1>1, <1>2, <1>3 DEF DownsAreHeld, DownsAreApart, Installing
<1>9. ReportedIsClosed'
  BY <1>1, <1>2, <1>3 DEF ReportedIsClosed, Types
<1>10. OpenOnOpenTrack'
  BY <1>1, <1>2 DEF OpenOnOpenTrack, NoneOnClosedTrack
<1> QED BY <1>6, <1>7, <1>8, <1>9, <1>10

(* In the beginning there are no down tracks.                              *)
LEMMA InitIInv == Init => IInv
<1> SUFFICES ASSUME Init PROVE IInv
  OBVIOUS
<1>1. Types
  BY Placeholders DEF Init, Types
<1>2. /\ \A s \in SubId : sub[s].down = 0
      /\ \A d \in DownId : ~down[d].open
      /\ worker.at = "idle" /\ closeCallbacks = {} /\ releasing = {}
      /\ subscribedCount = 0
  BY DEF Init, NoSub, NoDown, Idle
<1>3. Holders = {} /\ Cardinality(Holders) = 0 /\ Cardinality(releasing) = 0
  BY <1>2, FS_EmptySet DEF Holders
<1>4. CountIsExact /\ HoldersWithinLimit
  BY <1>1, <1>2, <1>3 DEF CountIsExact, HoldersWithinLimit, Types
<1>5. Core
  BY <1>2, <1>4 DEF Core, WorkerInv, DownsAreHeld, ReportedIsClosed, DownsAreApart,
     OpenOnOpenTrack, NoneOnClosedTrack, Subscribing, Installing
<1> QED BY <1>1, <1>5 DEF IInv

(* Every step is of one of these kinds.                                    *)
LEMMA StepKinds ==
  ASSUME Next, removing \subseteq Track \X Nat
  PROVE  \/ \E t \in Track :
              \/ SubscribeExisting(t) \/ UnsubscribeFromTrack(t)
              \/ UpdateSubscribedTrackSettings(t)
              \/ \E c \in Caller : \/ SubscribeFindsNone(c, t)
                                 \/ SubscribeCreates(c) \/ SubscribeDesires(c)
              \/ ClearAllSubscriptions
         \/ \E t \in Track :
              \/ Publish(t) \/ Unpublish(t) \/ GrantPermission(t) \/ RevokePermission(t)
              \/ handleSourceTrackRemoved(t) \/ AllowSubscribe \/ DisallowSubscribe
              \/ \E m \in Nat : RemoveSubscriber(t, m)
         \/ WorkerChooses \/ WorkerSubscribes
         \/ \E d \in DownId : \/ CloseWithFlush(d) \/ handleSubscribedTrackClose(d)
                              \/ CountReleased(d)
         \/ CloseBegins \/ CloseEnds
<1>1. ASSUME NEW tm \in removing, RemoveSubscriber(tm[1], tm[2])
      PROVE  \E t \in Track : \E m \in Nat : RemoveSubscriber(t, m)
  <2>1. tm[1] \in Track /\ tm[2] \in Nat
    OBVIOUS
  <2> QED BY <1>1, <2>1
<1> QED BY <1>1, Zenon DEF Next, reconcileWorker, WorkerChooses, WorkerSubscribes

(* Every step keeps the invariant.                                         *)
LEMMA StepIInv == IInv /\ [Next]_vars => IInv'
<1> SUFFICES ASSUME IInv, [Next]_vars PROVE IInv'
  OBVIOUS
<1>1. CASE UNCHANGED vars
  <2>1. Types'
    BY <1>1 DEF IInv, Types, vars, subVars, pubVars, closeVars
  <2>2. SameHolders /\ WorkerKeeps
    BY <1>1 DEF SameHolders, WorkerKeeps, vars, subVars, pubVars, closeVars
  <2> QED BY <2>1, <2>2, QuietStep DEF IInv
<1>2. ASSUME NEW t \in Track,
             \/ SubscribeExisting(t) \/ UnsubscribeFromTrack(t)
             \/ UpdateSubscribedTrackSettings(t)
             \/ \E c \in Caller : \/ SubscribeFindsNone(c, t)
                                \/ SubscribeCreates(c) \/ SubscribeDesires(c)
             \/ ClearAllSubscriptions
      PROVE  IInv'
  <2>1. Types'
    BY <1>2, RequestTypes DEF IInv
  <2>2. SameHolders /\ UNCHANGED worker
    BY <1>2, RequestsAreQuiet
  <2> QED BY <2>1, <2>2, QuietStep DEF IInv, WorkerKeeps
<1>3. ASSUME NEW t \in Track,
             \/ Publish(t) \/ Unpublish(t) \/ GrantPermission(t) \/ RevokePermission(t)
             \/ handleSourceTrackRemoved(t) \/ AllowSubscribe \/ DisallowSubscribe
             \/ \E m \in Nat : RemoveSubscriber(t, m)
      PROVE  IInv'
  <2>1. Types'
    BY <1>3, PublisherTypes DEF IInv
  <2>2. SameHolders /\ UNCHANGED worker
    BY <1>3, PublishersAreQuiet
  <2> QED BY <2>1, <2>2, QuietStep DEF IInv, WorkerKeeps
<1>4. CASE WorkerChooses
  <2>1. Types'
    BY <1>4, ChooseTypes DEF IInv
  <2>2. SameHolders /\ worker.at = "idle" /\ worker'.at = "idle"
    BY <1>4, ChoosingIsQuiet DEF IInv
  <2> QED BY <2>1, <2>2, QuietStep DEF IInv, WorkerKeeps, Installing
<1>5. CASE WorkerSubscribes
  BY <1>5, SubscribeTypes, SubscribeCore DEF IInv
<1>6. ASSUME NEW d \in DownId, CloseWithFlush(d) PROVE IInv'
  BY <1>6, ClosingTypes, ClosedCore DEF IInv
<1>7. ASSUME NEW d \in DownId, handleSubscribedTrackClose(d) PROVE IInv'
  BY <1>7, ClosingTypes, ReleasedCore DEF IInv
<1>8. ASSUME NEW d \in DownId, CountReleased(d) PROVE IInv'
  BY <1>8, ClosingTypes, ForgottenCore DEF IInv
<1>9. CASE CloseBegins
  <2>1. SameHolders /\ WorkerKeeps
    BY <1>9 DEF CloseBegins, SameHolders, WorkerKeeps, subVars, pubVars, closeVars
  <2> QED BY <1>9, <2>1, ClosingTypes, QuietStep DEF IInv
<1>10. CASE CloseEnds
  <2>1. /\ worker.at = "idle"
        /\ UNCHANGED <<subscribedCount, pubVars, down, closeCallbacks, releasing>>
    BY <1>10, Zenon DEF CloseEnds
  <2>2. /\ worker'.at = "idle" /\ flushing \subseteq flushing'
        /\ \A s \in SubId : sub'[s].down = sub[s].down
    BY <1>10, EndsHolders DEF IInv, Idle
  <2>3. SameHolders /\ WorkerKeeps
    BY <2>1, <2>2 DEF SameHolders, WorkerKeeps, Installing, pubVars
  <2> QED BY <1>10, <2>3, ClosingTypes, QuietStep DEF IInv
<1> QED BY <1>1, <1>2, <1>3, <1>4, <1>5, <1>6, <1>7, <1>8, <1>9, <1>10, StepKinds
        DEF IInv, Types

(* The invariant holds throughout, whoever races with whom.                *)
THEOREM SubscriptionInvariant == Spec => []IInv
BY InitIInv, StepIInv, PTL DEF Spec

-----------------------------------------------------------------------------

(* The types of module SubscriptionManager, with the bounds of the counter:
   subscribedCount (subscriptionmanager.go, lines 852 and 953) is at most one
   too low, while the worker counts late, and no higher than what is held
   or still to be counted.                                                 *)
THEOREM SubscriptionTypes == Spec => []TypeOK
<1>1. IInv => TypeOK
  <2> SUFFICES ASSUME IInv PROVE TypeOK
    OBVIOUS
  <2>1. subscribedCount \in -1..MaxSubs + MaxDowns
    BY FewHolders, FewReleasing DEF IInv, Core, CountIsExact
  <2> QED BY <2>1 DEF IInv, Types, TypeOK, SubRecord, DownRecord, WorkerRecord,
             CallRecord, Position
<1> QED BY <1>1, SubscriptionInvariant, PTL

(* A down track that nobody is closing is in the hands of its subscription
   or of the worker, which the errors of AddSubscriber (line 507), the
   MediaTrack that closes meanwhile (mediatrackreceiver.go, line 591) and
   racing callers do not change.                                           *)
THEOREM OpenIsHeldSafe == Spec => []OpenIsHeld
<1>1. IInv => OpenIsHeld
  BY DEF IInv, Core, DownsAreHeld, OpenIsHeld
<1> QED BY <1>1, SubscriptionInvariant, PTL

(* No down track stays open on a MediaTrack that has closed, in whatever
   order the MediaTrack closes, is replaced, and takes the subscriber in
   (mediatrackreceiver.go, lines 591 to 609).                              *)
THEOREM NoneOnClosedTrackSafe == Spec => []NoneOnClosedTrack
<1>1. IInv => NoneOnClosedTrack
  BY DEF IInv, Core, OpenOnOpenTrack
<1> QED BY <1>1, SubscriptionInvariant, PTL

(* Every down track that nobody is closing has a place of its own: that of
   a subscription that has it or that of the worker.                       *)
LEMMA OpenHavePlaces ==
  ASSUME IInv
  PROVE  LET Open == {d \in DownId : down[d].open /\ d \notin flushing}
         IN  /\ IsFiniteSet(Open)
             /\ Cardinality(Open) <= IF Installing THEN Cardinality(Holders) + 1
                                                   ELSE Cardinality(Holders)
<1> DEFINE Open == {d \in DownId : down[d].open /\ d \notin flushing}
           Places == IF Installing THEN Holders \cup {worker.sub} ELSE Holders
           f == [d \in Open |-> down[d].sub]
<1>1. IsFiniteSet(Open) /\ IsFiniteSet(Places)
  <2>1. IsFiniteSet(DownId)
    BY FS_Interval DEF DownId
  <2> QED BY <2>1, FewHolders, FS_Subset, FS_AddElement
<1>2. Cardinality(Places) = IF Installing THEN Cardinality(Holders) + 1
                                          ELSE Cardinality(Holders)
  <2>1. Installing => worker.sub \notin Holders
    BY DEF IInv, Core, WorkerInv, Installing, Subscribing, Holders
  <2> QED BY <2>1, FewHolders, FS_AddElement
<1>3. ASSUME NEW d \in Open
      PROVE  /\ down[d].sub \in Places
             /\ \/ sub[down[d].sub].down = d
                \/ Installing /\ worker.down = d /\ down[d].sub = worker.sub
  <2>1. /\ down[d].sub \in SubId
        /\ sub[down[d].sub].down = d \/ (Installing /\ worker.down = d)
    BY DEF IInv, Core, DownsAreHeld
  <2>2. CASE sub[down[d].sub].down = d
    BY <2>1, <2>2 DEF Holders, DownId
  <2>3. CASE Installing /\ worker.down = d
    BY <2>1, <2>3 DEF IInv, Core, WorkerInv
  <2> QED BY <2>1, <2>2, <2>3
<1>4. ASSUME NEW d \in Open, NEW e \in Open, down[d].sub = down[e].sub PROVE d = e
  <2>1. Installing => sub[worker.sub].down = 0
    BY DEF IInv, Core, WorkerInv, Installing, Subscribing
  <2> QED BY <1>3, <1>4, <2>1 DEF DownId
<1>5. f \in Injection(Open, Places)
  BY <1>3, <1>4 DEF Injection, IsInjective
<1>6. Cardinality(Open) <= Cardinality(Places)
  BY <1>1, <1>5, FS_Injection
<1> QED BY <1>1, <1>2, <1>6

(* The participant never receives more tracks than its limit allows: the
   counter compared with it (line 702) covers every down track but those
   that are closing and the one being installed, for which a place was found
   and is still free.                                                      *)
THEOREM OpenWithinLimitSafe == Spec => []OpenWithinLimit
<1>1. IInv => OpenWithinLimit
  <2> SUFFICES ASSUME IInv, subscriptionLimit > 0
               PROVE  Cardinality({d \in DownId : down[d].open /\ d \notin flushing})
                        <= subscriptionLimit
    BY DEF OpenWithinLimit
  <2> DEFINE Open == {d \in DownId : down[d].open /\ d \notin flushing}
  <2>1. /\ IsFiniteSet(Open) /\ Cardinality(Open) \in Nat
        /\ Cardinality(Open) <= IF Installing THEN Cardinality(Holders) + 1
                                              ELSE Cardinality(Holders)
    BY OpenHavePlaces, FS_CardinalityType
  <2>2. Cardinality(Holders) \in Nat /\ subscriptionLimit \in Nat
    BY FewHolders DEF IInv, Types
  <2>3. Installing => Cardinality(Holders) < subscriptionLimit
    BY <2>2 DEF IInv, Core, WorkerInv, Installing, Subscribing
  <2>4. CASE Installing
    BY <2>1, <2>2, <2>3, <2>4
  <2>5. CASE ~Installing
    BY <2>1, <2>2, <2>5 DEF IInv, Core, HoldersWithinLimit
  <2> QED BY <2>4, <2>5
<1> QED BY <1>1, SubscriptionInvariant, PTL

=============================================================================
