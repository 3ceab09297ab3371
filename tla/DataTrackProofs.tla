-------------------------- MODULE DataTrackProofs --------------------------
(***************************************************************************)
(* Proofs about module DataTrackSubscription for every set of data tracks, *)
(* any number of racing callers and of subscription objects, every channel *)
(* size and any number of permission changes: what the map holds is sent,  *)
(* and the client's handles are live.                                      *)
(***************************************************************************)
EXTENDS DataTrackSubscription, TLAPS

(* An object is in the map under its own track.                            *)
MapIsConsistent ==
  \A t \in Track : subscriptions[t] # 0 => sub[subscriptions[t]].track = t

(* Places of the worker where it has an object in hand.                    *)
InHand == {"resolved", "notified", "observed", "added", "subscribed",
           "unsubscribed", "removed"}

HasObject == worker.at \in InHand <=> worker.sub # 0

(* The object in hand and those to do are of different tracks.             *)
OnePerTrack ==
  /\ \A r, s \in worker.todo : sub[r].track = sub[s].track => r = s
  /\ worker.sub # 0 => \A s \in worker.todo : sub[s].track # sub[worker.sub].track

(* An object to do may have left the map since it was collected; the one   *)
(* in its place has no down track yet.                                     *)
TodoIsOwn ==
  \A s \in worker.todo :
    LET m == subscriptions[sub[s].track] IN m # 0 /\ m # s => ~sub[m].down

AddedIsAttached ==
  worker.at = "added" => subscribers[sub[worker.sub].track] = worker.sub

(* The handles sent last are live, but for the track in hand.              *)
HandlesAreLiveOrInHand ==
  closed # "done" =>
    \A t \in handles :
      \/ subscribers[t] # 0
      \/ worker.at \in {"unsubscribed", "removed"} /\ sub[worker.sub].track = t

(* Close waits for the worker.                                             *)
ClosedIsIdle == closed = "done" => worker.at = "idle"

Objects == /\ MapIsConsistent /\ HasObject /\ OnePerTrack /\ TodoIsOwn
           /\ AddedIsAttached /\ HeldIsAttached /\ HandlesAreLiveOrInHand
           /\ ClosedIsIdle

(* The inductive invariant.                                                *)
IInv == TypeOK /\ Objects

(* What an object holds.                                                   *)
Object == [track : Track, desired : BOOLEAN, down : BOOLEAN, notified : BOOLEAN]

(* Where the worker can be.                                                *)
Worker == [at : {"idle", "locked"} \cup InHand, sub : 0..MaxSubs, todo : SUBSET SubId]

(* A worker between two objects is one.                                    *)
LEMMA WorkerType ==
  ASSUME NEW S \in SUBSET SubId
  PROVE  /\ [at |-> "idle", sub |-> 0, todo |-> S] \in Worker
         /\ [at |-> "locked", sub |-> 0, todo |-> S] \in Worker
  BY DataTrackSubscriptionAssumption DEF Worker

(* A queued request leaves a channel of tracks.                            *)
LEMMA QueueType ==
  ASSUME TypeOK, NEW id \in Track \cup {All}, queueReconcileDataTrack(id)
  PROVE  reconcileDataTrackCh' \subseteq Track \cup {All}
  BY DEF TypeOK, queueReconcileDataTrack

(* Some track stands for the track of an object that is not in use.        *)
LEMMA NoSubType ==
  /\ NoSub \in Object
  /\ NoSub.down = FALSE
  /\ NoCall \in [at : {"idle", "missing", "created"}, track : Track]
  BY DataTrackSubscriptionAssumption DEF NoSub, NoCall, Object

(* setDesired of one object keeps tracks and down tracks.                  *)
LEMMA DesireKeeps ==
  ASSUME TypeOK, NEW s \in SubId, sub' = [sub EXCEPT ![s].desired = TRUE]
  PROVE  /\ sub' \in [SubId -> Object]
         /\ \A r \in SubId : sub'[r].track = sub[r].track /\ sub'[r].down = sub[r].down
<1>1. sub \in [SubId -> Object]
  BY DEF TypeOK, Object
<1>2. sub[s] \in Object
  BY <1>1
<1>3. /\ [sub[s] EXCEPT !.desired = TRUE] \in Object
      /\ [sub[s] EXCEPT !.desired = TRUE].track = sub[s].track
      /\ [sub[s] EXCEPT !.desired = TRUE].down = sub[s].down
  BY ONLY <1>2 DEF Object
<1> DEFINE new == [sub[s] EXCEPT !.desired = TRUE]
<1>4. sub' = [sub EXCEPT ![s] = new]
  BY <1>1
<1> HIDE DEF new
<1>5. new \in Object /\ new.track = sub[s].track /\ new.down = sub[s].down
  BY <1>3 DEF new
<1> QED BY ONLY <1>1, <1>4, <1>5

(* setDesired(false) keeps tracks and down tracks.                         *)
LEMMA UndesireKeeps ==
  ASSUME TypeOK, NEW S \in SUBSET SubId, Undesire(S)
  PROVE  /\ sub' \in [SubId -> Object]
         /\ unobserving' \subseteq Track
         /\ \A s \in SubId : sub'[s].track = sub[s].track /\ sub'[s].down = sub[s].down
<1> DEFINE new(s) == [sub[s] EXCEPT !.desired = FALSE, !.notified = FALSE]
<1>1. \A s \in SubId : sub[s] \in Object
  BY DEF TypeOK, Object
<1>2. ASSUME NEW s \in SubId
      PROVE  new(s) \in Object /\ new(s).track = sub[s].track /\ new(s).down = sub[s].down
  <2>1. sub[s] \in Object
    BY <1>1
  <2> QED BY ONLY <2>1 DEF Object
<1>3. sub' = [s \in SubId |-> IF s \in S THEN new(s) ELSE sub[s]]
  BY DEF Undesire
<1>4. unobserving' \subseteq Track
  <2>1. \A s \in SubId : sub[s].track \in Track
    BY <1>1 DEF Object
  <2>2. unobserving \subseteq Track
    BY DEF TypeOK
  <2> QED BY <2>1, <2>2 DEF Undesire
<1> HIDE DEF new
<1> QED BY ONLY <1>1, <1>2, <1>3, <1>4

(* The initial state satisfies the invariant.                              *)
LEMMA InitIInv == Init => IInv
<1> SUFFICES ASSUME Init PROVE IInv
  OBVIOUS
<1> USE DataTrackSubscriptionAssumption DEF Init, Idle
<1>1. TypeOK
  BY NoSubType DEF TypeOK, SubId, Object
<1>2. Objects
  BY DEF Objects, MapIsConsistent, HasObject, InHand, OnePerTrack, TodoIsOwn,
         AddedIsAttached, HeldIsAttached, HandlesAreLiveOrInHand, ClosedIsIdle
<1> QED BY <1>1, <1>2 DEF IInv

(* Steps that keep the map, the objects' tracks and down tracks, the       *)
(* worker, the publishers and the handles.                                 *)
LEMMA Aside ==
  ASSUME IInv,
         UNCHANGED <<subscriptions, worker, closed, handles, subscribers>>,
         \A s \in SubId : sub'[s].track = sub[s].track /\ sub'[s].down = sub[s].down
  PROVE  Objects'
<1> USE DEF IInv, Objects, TypeOK
<1>0. \A t \in Track : subscriptions[t] # 0 => subscriptions[t] \in SubId
  BY DataTrackSubscriptionAssumption DEF SubId
<1>1. worker.sub # 0 => worker.sub \in SubId
  BY DataTrackSubscriptionAssumption DEF SubId
<1>2. MapIsConsistent' /\ HeldIsAttached'
  BY <1>0 DEF MapIsConsistent, HeldIsAttached
<1>3. HasObject' /\ OnePerTrack' /\ ClosedIsIdle'
  BY <1>1 DEF HasObject, OnePerTrack, ClosedIsIdle
<1>4. TodoIsOwn'
  BY <1>0 DEF TodoIsOwn
<1>5. AddedIsAttached' /\ HandlesAreLiveOrInHand'
  BY <1>1 DEF AddedIsAttached, HandlesAreLiveOrInHand, HasObject, InHand
<1> QED BY <1>2, <1>3, <1>4, <1>5

(* A new object takes its place in the map.                                *)
LEMMA NewObject ==
  ASSUME IInv, NEW t \in Track, NEW s \in FreeSubs, newDataTrackSubscription(s, t),
         UNCHANGED <<worker, closed, handles, subscribers>>
  PROVE  /\ Objects'
         /\ subscriptions' \in [Track -> 0..MaxSubs]
         /\ sub' \in [SubId -> Object]
<1> USE DEF IInv, Objects, TypeOK
<1>0. /\ \A u \in Track : subscriptions[u] # 0 => subscriptions[u] \in SubId
      /\ worker.sub # 0 => worker.sub \in SubId
      /\ s \in SubId /\ s # 0 /\ s \in 0..MaxSubs
      /\ \A u \in Track : subscriptions[u] # s /\ subscribers[u] # s
      /\ worker.sub # s /\ s \notin worker.todo
  BY DataTrackSubscriptionAssumption DEF SubId, FreeSubs
<1>1. /\ subscriptions' = [subscriptions EXCEPT ![t] = s]
      /\ \A r \in SubId : r # s => sub'[r] = sub[r]
      /\ sub'[s].track = t /\ sub'[s].down = FALSE
      /\ sub' \in [SubId -> Object]
  <2> DEFINE new == [NoSub EXCEPT !.track = t]
  <2>1. new \in Object /\ new.track = t /\ new.down = FALSE
    BY NoSubType DEF Object
  <2>2. /\ sub' = [sub EXCEPT ![s] = new]
        /\ subscriptions' = [subscriptions EXCEPT ![t] = s]
    BY DEF newDataTrackSubscription
  <2>3. sub \in [SubId -> Object]
    BY DEF Object
  <2> HIDE DEF new
  <2> QED BY ONLY <1>0, <2>1, <2>2, <2>3
<1>2. subscriptions' \in [Track -> 0..MaxSubs]
  BY <1>0, <1>1
<1>3. MapIsConsistent' /\ HeldIsAttached'
  <2>1. \A u \in Track : subscriptions'[u] = IF u = t THEN s ELSE subscriptions[u]
    BY <1>1
  <2>2. MapIsConsistent'
    BY <1>0, <1>1, <2>1 DEF MapIsConsistent
  <2>3. HeldIsAttached'
    BY <1>0, <1>1, <2>1 DEF HeldIsAttached
  <2> QED BY <2>2, <2>3
<1>4. HasObject' /\ OnePerTrack' /\ ClosedIsIdle'
  <2>1. HasObject' /\ ClosedIsIdle'
    BY DEF HasObject, ClosedIsIdle
  <2>2. \A r \in worker.todo : r \in SubId /\ r # s /\ sub'[r] = sub[r]
    BY <1>0, <1>1
  <2>3. worker.sub # 0 => sub'[worker.sub] = sub[worker.sub]
    BY <1>0, <1>1
  <2>4. OnePerTrack'
    BY <2>2, <2>3 DEF OnePerTrack
  <2> QED BY <2>1, <2>4
<1>5. TodoIsOwn'
  <2> SUFFICES ASSUME NEW r \in worker.todo,
                      subscriptions'[sub'[r].track] # 0,
                      subscriptions'[sub'[r].track] # r
               PROVE  ~sub'[subscriptions'[sub'[r].track]].down
    BY DEF TodoIsOwn
  <2>1. r \in SubId /\ r # s /\ sub'[r] = sub[r] /\ sub[r].track \in Track
    BY <1>0, <1>1 DEF Object
  <2>2. CASE sub[r].track = t
    BY <1>0, <1>1, <2>1, <2>2
  <2>3. CASE sub[r].track # t
    <3> DEFINE m == subscriptions[sub[r].track]
    <3>1. m = subscriptions'[sub'[r].track] /\ m \in SubId /\ m # s /\ m # r /\ m # 0
      BY <1>0, <1>1, <2>1, <2>3
    <3>2. ~sub[m].down
      BY <3>1 DEF TodoIsOwn
    <3> QED BY <1>1, <3>1, <3>2
  <2> QED BY <2>2, <2>3
<1>6. AddedIsAttached' /\ HandlesAreLiveOrInHand'
  BY <1>0, <1>1 DEF AddedIsAttached, HandlesAreLiveOrInHand, HasObject, InHand
<1> QED BY <1>1, <1>2, <1>3, <1>4, <1>5, <1>6

(* The calls that make no object.                                          *)
LEMMA RequestsKeepIInv ==
  ASSUME IInv, NEW t \in Track,
         \/ SubscribeExisting(t) \/ UnsubscribeFromDataTrack(t)
         \/ \E c \in Caller : SubscribeFindsNone(c, t) \/ SubscribeDesires(c)
         \/ ClearAllSubscriptions \/ SetPermission
  PROVE  IInv'
<1> USE DEF IInv, subVars, permVars, sourceVars, goVars
<1>0. \A u \in Track : subscriptions[u] # 0 => subscriptions[u] \in SubId
  BY DataTrackSubscriptionAssumption DEF TypeOK, SubId
<1>1. CASE SubscribeExisting(t)
  <2>1. /\ sub' = [sub EXCEPT ![subscriptions[t]].desired = TRUE]
        /\ subscriptions[t] \in SubId
    BY <1>0, <1>1 DEF SubscribeExisting
  <2>2. /\ sub' \in [SubId -> Object]
        /\ \A s \in SubId : sub'[s].track = sub[s].track /\ sub'[s].down = sub[s].down
    BY <2>1, DesireKeeps
  <2>3. Objects'
    BY <1>1, <2>2, Aside DEF SubscribeExisting
  <2>4. TypeOK'
    BY <1>1, <2>2, QueueType DEF SubscribeExisting, TypeOK, Object
  <2> QED BY <2>3, <2>4
<1>2. CASE UnsubscribeFromDataTrack(t)
  <2>1. {subscriptions[t]} \in SUBSET SubId /\ Undesire({subscriptions[t]})
    BY <1>0, <1>2 DEF UnsubscribeFromDataTrack
  <2>3. Objects'
    BY <1>2, <2>1, UndesireKeeps, Aside DEF UnsubscribeFromDataTrack
  <2>4. TypeOK'
    BY <1>2, <2>1, UndesireKeeps, QueueType
    DEF UnsubscribeFromDataTrack, TypeOK, Object
  <2> QED BY <2>3, <2>4
<1>3. ASSUME NEW c \in Caller, SubscribeFindsNone(c, t) PROVE IInv'
  <2>3. Objects'
    BY <1>3, Aside DEF SubscribeFindsNone
  <2>4. TypeOK'
    BY <1>3 DEF SubscribeFindsNone, TypeOK
  <2> QED BY <2>3, <2>4
<1>4. ASSUME NEW c \in Caller, SubscribeDesires(c) PROVE IInv'
  <2> DEFINE s == subscriptions[caller[c].track]
  <2>1. /\ sub' = IF s = 0 THEN sub ELSE [sub EXCEPT ![s].desired = TRUE]
        /\ s # 0 => s \in SubId
        /\ caller[c].track \in Track
    BY <1>0, <1>4 DEF SubscribeDesires, TypeOK
  <2>2. /\ sub' \in [SubId -> Object]
        /\ \A r \in SubId : sub'[r].track = sub[r].track /\ sub'[r].down = sub[r].down
    <3>1. CASE s = 0
      BY <2>1, <3>1 DEF TypeOK, Object
    <3>2. CASE s # 0
      BY <2>1, <3>2, DesireKeeps
    <3> QED BY <3>1, <3>2
  <2>3. Objects'
    BY <1>4, <2>2, Aside DEF SubscribeDesires
  <2>4. caller' = [caller EXCEPT ![c] = NoCall]
    BY <1>4 DEF SubscribeDesires
  <2>5. reconcileDataTrackCh' \subseteq Track \cup {All}
    BY <1>4, <2>1, QueueType DEF SubscribeDesires
  <2>6. TypeOK'
    <3>1. caller' \in [Caller -> [at : {"idle", "missing", "created"}, track : Track]]
      BY <2>4, NoSubType DEF TypeOK
    <3>2. UNCHANGED <<subscriptions, worker, closed, permVars, handles, sourceVars, goVars>>
      BY <1>4 DEF SubscribeDesires
    <3> QED BY <2>2, <2>5, <3>1, <3>2 DEF TypeOK, Object
  <2> QED BY <2>3, <2>6
<1>5. CASE ClearAllSubscriptions
  <2>1. InMap \in SUBSET SubId /\ Undesire(InMap)
    BY <1>5 DEF ClearAllSubscriptions, InMap
  <2>3. Objects'
    BY <1>5, <2>1, UndesireKeeps, Aside DEF ClearAllSubscriptions
  <2>4. TypeOK'
    BY <1>5, <2>1, UndesireKeeps, QueueType
    DEF ClearAllSubscriptions, TypeOK, Object
  <2> QED BY <2>3, <2>4
<1>6. CASE SetPermission
  <2>3. Objects'
    BY <1>6, Aside DEF SetPermission
  <2>4. TypeOK'
    BY <1>6, QueueType DEF SetPermission, TypeOK
  <2> QED BY <2>3, <2>4
<1> QED BY <1>1, <1>2, <1>3, <1>4, <1>5, <1>6

(* The calls that make an object.                                          *)
LEMMA CreationKeepsIInv ==
  ASSUME IInv,
         \/ \E c \in Caller : SubscribeCreates(c)
         \/ \E t \in Track : UpdateDataTrackSubscriptionOptions(t)
  PROVE  IInv'
<1> USE DEF IInv, subVars, permVars, sourceVars, goVars
<1>1. ASSUME NEW c \in Caller, SubscribeCreates(c) PROVE IInv'
  <2>1. caller[c].track \in Track
    BY DEF TypeOK
  <2>2. PICK s \in FreeSubs : newDataTrackSubscription(s, caller[c].track)
    BY <1>1 DEF SubscribeCreates
  <2>3. UNCHANGED <<worker, closed, handles, subscribers>>
    BY <1>1 DEF SubscribeCreates
  <2>4. /\ Objects'
        /\ subscriptions' \in [Track -> 0..MaxSubs]
        /\ sub' \in [SubId -> Object]
    BY <2>1, <2>2, <2>3, NewObject
  <2>5. TypeOK'
    BY <1>1, <2>4 DEF SubscribeCreates, TypeOK, Object
  <2> QED BY <2>4, <2>5
<1>2. ASSUME NEW t \in Track, UpdateDataTrackSubscriptionOptions(t) PROVE IInv'
  <2>2. PICK s \in FreeSubs : newDataTrackSubscription(s, t)
    BY <1>2 DEF UpdateDataTrackSubscriptionOptions
  <2>3. UNCHANGED <<worker, closed, handles, subscribers>>
    BY <1>2 DEF UpdateDataTrackSubscriptionOptions
  <2>4. /\ Objects'
        /\ subscriptions' \in [Track -> 0..MaxSubs]
        /\ sub' \in [SubId -> Object]
    BY <2>2, <2>3, NewObject
  <2>5. TypeOK'
    BY <1>2, <2>4 DEF UpdateDataTrackSubscriptionOptions, TypeOK, Object
  <2> QED BY <2>4, <2>5
<1> QED BY <1>1, <1>2

(* The publisher and the goroutines it starts.                             *)
LEMMA PublishersKeepIInv ==
  ASSUME IInv, NEW t \in Track,
         \/ AddDataTrack(t) \/ CloseDataTrack(t) \/ RemoveDataTrack(t)
         \/ handleSourceDataTrackRemoved(t) \/ RemoveObserver(t)
  PROVE  IInv'
<1> USE DEF IInv, subVars, permVars, sourceVars, goVars
<1>1. CASE AddDataTrack(t) \/ CloseDataTrack(t) \/ RemoveDataTrack(t) \/ RemoveObserver(t)
  <2>1. Objects'
    BY <1>1, Aside DEF AddDataTrack, CloseDataTrack, RemoveDataTrack, RemoveObserver
  <2>2. TypeOK'
    <3>1. CASE AddDataTrack(t)
      BY <3>1, QueueType DEF AddDataTrack, TypeOK
    <3>2. CASE CloseDataTrack(t)
      BY <3>2 DEF CloseDataTrack, TypeOK
    <3>3. CASE RemoveDataTrack(t)
      BY <3>3 DEF RemoveDataTrack, TypeOK
    <3>4. CASE RemoveObserver(t)
      BY <3>4 DEF RemoveObserver, TypeOK
    <3> QED BY <1>1, <3>1, <3>2, <3>3, <3>4
  <2> QED BY <2>1, <2>2
<1>2. CASE handleSourceDataTrackRemoved(t)
  <2>1. {subscriptions[t]} \ {0} \in SUBSET SubId
    BY DataTrackSubscriptionAssumption DEF TypeOK, SubId
  <2>2. Undesire({subscriptions[t]} \ {0})
    BY <1>2 DEF handleSourceDataTrackRemoved
  <2>3. Objects'
    BY <1>2, <2>1, <2>2, UndesireKeeps, Aside DEF handleSourceDataTrackRemoved
  <2>4. TypeOK'
    BY <1>2, <2>1, <2>2, UndesireKeeps
    DEF handleSourceDataTrackRemoved, TypeOK, Object
  <2> QED BY <2>3, <2>4
<1> QED BY <1>1, <1>2
(* A worker that stays between two objects.                                *)
LEMMA Resting ==
  ASSUME IInv, worker.at = "idle", NEW S \in SUBSET SubId,
         worker' = [Idle EXCEPT !.todo = S],
         UNCHANGED <<subscriptions, closed, handles, subscribers>>,
         \A s \in SubId : sub'[s].track = sub[s].track /\ sub'[s].down = sub[s].down,
         S \subseteq InMap \/ S \subseteq worker.todo
  PROVE  /\ Objects'
         /\ worker'.at = "idle" /\ worker'.sub = 0 /\ worker'.todo = S
         /\ worker' = [at |-> "idle", sub |-> 0, todo |-> S]
<1> USE DEF IInv, Objects
<1>0. /\ worker' = [at |-> "idle", sub |-> 0, todo |-> S]
      /\ worker'.todo = S
      /\ worker.sub = 0
  BY DEF Idle, HasObject, InHand
<1>1. \A t \in Track : subscriptions[t] # 0 => subscriptions[t] \in SubId
  BY DataTrackSubscriptionAssumption DEF SubId, TypeOK
<1>2. MapIsConsistent' /\ HeldIsAttached'
  BY <1>0, <1>1 DEF MapIsConsistent, HeldIsAttached
<1>3. HasObject' /\ ClosedIsIdle' /\ AddedIsAttached' /\ HandlesAreLiveOrInHand'
  BY <1>0 DEF HasObject, ClosedIsIdle, InHand, AddedIsAttached, HandlesAreLiveOrInHand
<1>4. OnePerTrack' /\ TodoIsOwn'
  <2>1. CASE S \subseteq InMap
    BY <1>0, <1>1, <2>1 DEF OnePerTrack, TodoIsOwn, InMap
  <2>2. CASE S \subseteq worker.todo
    <3>1. OnePerTrack'
      BY <1>0, <2>2 DEF OnePerTrack
    <3>2. TodoIsOwn'
      <4> SUFFICES ASSUME NEW r \in S,
                          subscriptions[sub'[r].track] # 0,
                          subscriptions[sub'[r].track] # r
                   PROVE  ~sub'[subscriptions[sub'[r].track]].down
        BY <1>0 DEF TodoIsOwn
      <4>1. sub'[r].track = sub[r].track /\ sub[r].track \in Track /\ r \in worker.todo
        BY <2>2 DEF TypeOK
      <4>2. ~sub[subscriptions[sub[r].track]].down
        BY <4>1 DEF TodoIsOwn
      <4> QED BY <1>1, <4>1, <4>2
    <3> QED BY <3>1, <3>2
  <2> QED BY <2>1, <2>2
<1>5. worker'.at = "idle" /\ worker'.sub = 0
  BY ONLY <1>0
<1> QED BY ONLY <1>0, <1>2, <1>3, <1>4, <1>5 DEF Objects

(* The worker looks for work.                                              *)
LEMMA LookingKeepsIInv ==
  ASSUME IInv, Tick \/ \E id \in Track \cup {All} : Receive(id)
  PROVE  IInv'
<1> USE DEF subVars, permVars, sourceVars, goVars
<1>0. NeedsReconcile \subseteq InMap /\ InMap \subseteq SubId
  BY DEF NeedsReconcile, InMap
<1>1. PICK S \in SUBSET SubId : worker' = [Idle EXCEPT !.todo = S] /\ S \subseteq InMap
  <2>1. CASE Tick
    BY <1>0, <2>1 DEF Tick
  <2>2. ASSUME NEW id \in Track \cup {All}, Receive(id),
               id # All, subscriptions[id] # 0
        PROVE  /\ worker' = [Idle EXCEPT !.todo = {subscriptions[id]}]
               /\ {subscriptions[id]} \subseteq InMap
    <3>1. subscriptions[id] \in SubId /\ sub[subscriptions[id]].track = id
      BY <2>2, DataTrackSubscriptionAssumption
      DEF IInv, Objects, TypeOK, SubId, MapIsConsistent
    <3> QED BY <2>2, <3>1 DEF Receive, InMap
  <2>3. ASSUME NEW id \in Track \cup {All}, Receive(id),
               ~(id # All /\ subscriptions[id] # 0)
        PROVE  worker' = [Idle EXCEPT !.todo = NeedsReconcile]
    BY <2>3 DEF Receive
  <2> QED BY <1>0, <2>1, <2>2, <2>3
<1>2. /\ UNCHANGED <<subscriptions, sub, closed, handles, subscribers>>
      /\ worker.at = "idle"
  BY DEF Tick, Receive, WorkerIsFree
<1>3. Objects' /\ worker' = [at |-> "idle", sub |-> 0, todo |-> S]
  BY <1>1, <1>2, Resting
<1>4. TypeOK'
  <2>1. worker' \in Worker
    BY <1>3, WorkerType
  <2>2. reconcileDataTrackCh' \subseteq Track \cup {All}
    BY DEF IInv, TypeOK, Tick, Receive
  <2>3. UNCHANGED <<subVars, caller, closed, permVars, handles, sourceVars, goVars>>
    BY DEF Tick, Receive
  <2> QED BY <2>1, <2>2, <2>3 DEF IInv, TypeOK, Worker, InHand
<1> QED BY <1>3, <1>4 DEF IInv

(* The worker puts a subscription off, gives it up or has nothing to do.   *)
LEMMA PuttingOffKeepsIInv ==
  ASSUME IInv, NEW s \in SubId,
         SubscribeFails(s) \/ SubscribeTimesOut(s) \/ NothingToDo(s)
  PROVE  IInv'
<1> USE DEF subVars, permVars, sourceVars, goVars
<1>1. /\ worker' = [Idle EXCEPT !.todo = worker.todo \ {s}]
      /\ worker.at = "idle" /\ worker.todo \ {s} \in SUBSET SubId
  BY DEF IInv, TypeOK, SubscribeFails, SubscribeTimesOut, NothingToDo, Drop, Reconcile
<1>2. UNCHANGED <<subscriptions, closed, handles, subscribers>>
  BY DEF SubscribeFails, SubscribeTimesOut, NothingToDo
<1>3. /\ sub' \in [SubId -> Object]
      /\ unobserving' \subseteq Track
      /\ \A r \in SubId : sub'[r].track = sub[r].track /\ sub'[r].down = sub[r].down
  <2>1. CASE SubscribeTimesOut(s)
    BY <2>1, UndesireKeeps DEF SubscribeTimesOut, IInv
  <2>2. CASE SubscribeFails(s) \/ NothingToDo(s)
    BY <2>2 DEF SubscribeFails, NothingToDo, IInv, TypeOK, Object
  <2> QED BY <2>1, <2>2
<1>4. Objects' /\ worker' = [at |-> "idle", sub |-> 0, todo |-> worker.todo \ {s}]
  BY <1>1, <1>2, <1>3, Resting
<1>5. TypeOK'
  <2>1. worker' \in Worker
    BY <1>1, <1>4, WorkerType
  <2>2. UNCHANGED <<subscriptions, reconcileDataTrackCh, caller, closed, permVars,
                    handles, sourceVars, removals>>
    BY DEF SubscribeFails, SubscribeTimesOut, NothingToDo
  <2> QED BY <2>1, <2>2, <1>3 DEF IInv, TypeOK, Object, Worker, InHand
<1> QED BY <1>4, <1>5 DEF IInv
(* The worker takes an object in hand, or goes on with the one it has, and *)
(* changes nothing but observers and what concerns the notifier.           *)
LEMMA Going ==
  ASSUME IInv, NEW s \in SubId, NEW place \in InHand, NEW S \in SUBSET worker.todo,
         worker' = [at |-> place, sub |-> s, todo |-> S],
         \/ worker.at = "idle" /\ s \in worker.todo /\ S = worker.todo \ {s}
         \/ s = worker.sub /\ worker.at # "unsubscribed",
         closed # "done", place # "added",
         UNCHANGED <<subscriptions, closed, handles, subscribers>>,
         \A r \in SubId : sub'[r].track = sub[r].track /\ sub'[r].down = sub[r].down,
         worker.at # "removed"
  PROVE  Objects'
<1> USE DEF IInv, Objects
<1>0. /\ worker'.at = place /\ worker'.sub = s /\ worker'.todo = S
      /\ place # "idle" /\ place # "locked"
      /\ s # 0
  BY DEF InHand, SubId
<1>1. \A t \in Track : subscriptions[t] # 0 => subscriptions[t] \in SubId
  BY DataTrackSubscriptionAssumption DEF SubId, TypeOK
<1>2. MapIsConsistent' /\ HasObject' /\ ClosedIsIdle' /\ AddedIsAttached'
  BY <1>0, <1>1 DEF MapIsConsistent, HasObject, ClosedIsIdle, AddedIsAttached
<1>3. HeldIsAttached'
  BY <1>0, <1>1 DEF HeldIsAttached
<1>4. HandlesAreLiveOrInHand'
  BY <1>0 DEF HandlesAreLiveOrInHand
<1>5. S \subseteq SubId
  BY DEF TypeOK
<1>6. OnePerTrack'
  <2>1. \A q, r \in S : sub[q].track = sub[r].track => q = r
    BY DEF OnePerTrack
  <2>2. \A r \in S : sub[r].track # sub[s].track
    BY <1>0 DEF OnePerTrack
  <2> QED BY <1>0, <1>5, <2>1, <2>2 DEF OnePerTrack
<1>7. TodoIsOwn'
  <2> SUFFICES ASSUME NEW r \in S,
                      subscriptions[sub'[r].track] # 0,
                      subscriptions[sub'[r].track] # r
               PROVE  ~sub'[subscriptions[sub'[r].track]].down
    BY <1>0 DEF TodoIsOwn
  <2>1. sub'[r].track = sub[r].track /\ sub[r].track \in Track /\ r \in worker.todo
    BY <1>5 DEF TypeOK
  <2>2. ~sub[subscriptions[sub[r].track]].down
    BY <2>1 DEF TodoIsOwn
  <2> QED BY <1>1, <2>1, <2>2
<1> QED BY <1>2, <1>3, <1>4, <1>6, <1>7

(* The worker at a place where it has an object in hand.                   *)
LEMMA AtWork ==
  ASSUME IInv, worker.at \in InHand
  PROVE  /\ worker.sub \in SubId /\ worker.todo \in SUBSET SubId
         /\ closed # "done"
         /\ sub[worker.sub] \in Object
         /\ \A place \in InHand :
              /\ [worker EXCEPT !.at = place] =
                   [at |-> place, sub |-> worker.sub, todo |-> worker.todo]
              /\ [worker EXCEPT !.at = place] \in Worker
<1>1. worker \in Worker /\ worker.sub # 0
  BY DEF IInv, Objects, TypeOK, Worker, InHand, HasObject
<1>2. worker.sub \in SubId
  BY <1>1, DataTrackSubscriptionAssumption DEF Worker, SubId
<1>3. closed # "done"
  BY DEF IInv, Objects, ClosedIsIdle, InHand
<1>4. \A place \in InHand :
        /\ [worker EXCEPT !.at = place] =
             [at |-> place, sub |-> worker.sub, todo |-> worker.todo]
        /\ [worker EXCEPT !.at = place] \in Worker
  BY ONLY <1>1 DEF Worker
<1>5. sub[worker.sub] \in Object
  BY <1>2 DEF IInv, TypeOK, Object
<1> QED BY <1>1, <1>2, <1>3, <1>4, <1>5 DEF Worker

(* The object taken in hand.                                               *)
LEMMA TakeType ==
  ASSUME IInv, NEW s \in SubId, NEW place \in InHand, Take(place, s)
  PROVE  worker' \in Worker
  BY DataTrackSubscriptionAssumption DEF IInv, TypeOK, Take, Worker, SubId
(* subscribeDataTrack up to AddSubscriber, and past a subscriber it finds. *)
LEMMA ObservingKeepsIInv ==
  ASSUME IInv,
         \/ \E s \in SubId : SubscribeResolves(s)
         \/ setRemovedNotifier \/ AddObserver \/ AddSubscriberFindsOne
  PROVE  IInv'
<1> USE DEF subVars, permVars, sourceVars, goVars
<1>1. ASSUME NEW s \in SubId, SubscribeResolves(s) PROVE IInv'
  <2>1. /\ worker' = [at |-> "resolved", sub |-> s, todo |-> worker.todo \ {s}]
        /\ worker.at = "idle" /\ s \in worker.todo /\ closed = "no"
        /\ "resolved" \in InHand /\ worker' \in Worker
    BY <1>1, TakeType DEF SubscribeResolves, Take, Reconcile, InHand
  <2>2. Objects'
    BY <1>1, <2>1, Going DEF SubscribeResolves
  <2>3. TypeOK'
    BY <1>1, <2>1 DEF SubscribeResolves, IInv, TypeOK, Worker, InHand
  <2> QED BY <2>2, <2>3 DEF IInv
<1>2. CASE setRemovedNotifier
  <2>1. worker.at = "resolved" /\ worker.at \in InHand
    BY <1>2 DEF setRemovedNotifier, InHand
  <2>2. PICK place \in {"notified", "observed"} :
           worker' = [at |-> place, sub |-> worker.sub, todo |-> worker.todo]
           /\ worker' \in Worker
    BY <1>2, <2>1, AtWork DEF setRemovedNotifier, Goto, InHand
  <2>3. /\ sub' \in [SubId -> Object]
        /\ \A r \in SubId : sub'[r].track = sub[r].track /\ sub'[r].down = sub[r].down
    <3> DEFINE new == [sub[worker.sub] EXCEPT !.notified = TRUE]
    <3>1. new \in Object /\ new.track = sub[worker.sub].track
          /\ new.down = sub[worker.sub].down
      <4>1. sub[worker.sub] \in Object
        BY <2>1, AtWork
      <4> QED BY ONLY <4>1 DEF Object
    <3>2. sub' = sub \/ sub' = [sub EXCEPT ![worker.sub] = new]
      BY <1>2 DEF setRemovedNotifier
    <3>3. worker.sub \in SubId /\ sub \in [SubId -> Object]
      BY <2>1, AtWork DEF IInv, TypeOK, Object
    <3> HIDE DEF new
    <3> QED BY ONLY <3>1, <3>2, <3>3
  <2>4. UNCHANGED <<subscriptions, closed, handles, subscribers>>
    BY <1>2 DEF setRemovedNotifier
  <2>5. Objects'
    BY <2>1, <2>2, <2>3, <2>4, AtWork, Going DEF InHand
  <2>6. TypeOK'
    BY <1>2, <2>2, <2>3 DEF setRemovedNotifier, IInv, TypeOK, Object, Worker, InHand
  <2> QED BY <2>5, <2>6 DEF IInv
<1>3. CASE AddObserver
  <2>1. worker.at = "notified" /\ worker.at \in InHand
    BY <1>3 DEF AddObserver, InHand
  <2>2. /\ worker' = [at |-> "observed", sub |-> worker.sub, todo |-> worker.todo]
        /\ worker' \in Worker /\ "observed" \in InHand
    BY <1>3, <2>1, AtWork DEF AddObserver, Goto, InHand
  <2>3. UNCHANGED <<subscriptions, sub, closed, handles, subscribers>>
    BY <1>3 DEF AddObserver
  <2>4. Objects'
    BY <2>1, <2>2, <2>3, AtWork, Going
  <2>5. sub[worker.sub].track \in Track
    BY <2>1, AtWork DEF Object
  <2>6. observers' \subseteq Track
    BY <1>3, <2>5 DEF AddObserver, IInv, TypeOK
  <2>7. TypeOK'
    BY <1>3, <2>2, <2>6 DEF AddObserver, IInv, TypeOK, Worker, InHand
  <2> QED BY <2>4, <2>7 DEF IInv
<1>4. CASE AddSubscriberFindsOne
  <2>1. worker.at = "observed" /\ worker.at \in InHand
    BY <1>4 DEF AddSubscriberFindsOne, InHand
  <2>2. /\ worker' = [at |-> "subscribed", sub |-> worker.sub, todo |-> worker.todo]
        /\ worker' \in Worker /\ "subscribed" \in InHand
    BY <1>4, <2>1, AtWork DEF AddSubscriberFindsOne, Goto, InHand
  <2>3. UNCHANGED <<subscriptions, sub, closed, handles, subscribers>>
    BY <1>4 DEF AddSubscriberFindsOne
  <2>4. Objects'
    BY <2>1, <2>2, <2>3, AtWork, Going
  <2>5. TypeOK'
    BY <1>4, <2>2 DEF AddSubscriberFindsOne, IInv, TypeOK, Worker, InHand
  <2> QED BY <2>4, <2>5 DEF IInv
<1> QED BY <1>1, <1>2, <1>3, <1>4

(* The down track joins the publisher's table.                             *)
LEMMA AddSubscriberKeepsIInv ==
  ASSUME IInv, AddSubscriber
  PROVE  IInv'
<1> USE DEF subVars, permVars, sourceVars, goVars
<1> DEFINE t == sub[worker.sub].track
<1>1. worker.at = "observed" /\ worker.at \in InHand
  BY DEF AddSubscriber, InHand
<1>2. /\ worker' = [at |-> "added", sub |-> worker.sub, todo |-> worker.todo]
      /\ worker' \in Worker
      /\ worker'.at = "added" /\ worker'.sub = worker.sub /\ worker'.todo = worker.todo
  BY <1>1, AtWork DEF AddSubscriber, Goto, InHand
<1>3. /\ UNCHANGED <<subscriptions, sub, closed, handles>>
      /\ subscribers' = [subscribers EXCEPT ![t] = worker.sub]
      /\ subscribers[t] = 0
  BY DEF AddSubscriber
<1>4. /\ t \in Track /\ worker.sub \in SubId /\ worker.sub # 0
      /\ subscribers \in [Track -> 0..MaxSubs]
      /\ worker.sub \in 0..MaxSubs
  BY <1>1, AtWork, DataTrackSubscriptionAssumption DEF Object, SubId, IInv, TypeOK
<1>5. \A u \in Track : subscribers'[u] = IF u = t THEN worker.sub ELSE subscribers[u]
  BY <1>3, <1>4
<1>6. TypeOK'
  BY <1>2, <1>3, <1>4 DEF AddSubscriber, IInv, TypeOK, Worker, InHand
<1>7. HeldIsAttached'
  BY <1>1, <1>2, <1>3, <1>4, <1>5 DEF IInv, Objects, HeldIsAttached
<1>8. HandlesAreLiveOrInHand'
  <2>1. handles \subseteq Track
    BY DEF IInv, TypeOK
  <2> QED BY <1>1, <1>2, <1>3, <1>4, <1>5, <2>1 DEF IInv, Objects, HandlesAreLiveOrInHand
<1>9. AddedIsAttached'
  BY <1>2, <1>3, <1>4, <1>5 DEF AddedIsAttached
<1>10. MapIsConsistent' /\ HasObject' /\ ClosedIsIdle'
  BY <1>1, <1>2, <1>3, <1>4
  DEF IInv, Objects, MapIsConsistent, HasObject, ClosedIsIdle, InHand
<1>11. OnePerTrack' /\ TodoIsOwn'
  BY <1>2, <1>3 DEF IInv, Objects, OnePerTrack, TodoIsOwn
<1> QED BY <1>6, <1>7, <1>8, <1>9, <1>10, <1>11 DEF IInv, Objects

(* The object gets its down track: it is the one in the table.             *)
LEMMA SetDownKeepsIInv ==
  ASSUME IInv, setDataDownTrack
  PROVE  IInv'
<1> USE DEF subVars, permVars, sourceVars, goVars
<1> DEFINE w == worker.sub
           new == [sub[w] EXCEPT !.down = TRUE]
<1>1. worker.at = "added" /\ worker.at \in InHand
  BY DEF setDataDownTrack, InHand
<1>2. /\ worker' = [at |-> "subscribed", sub |-> w, todo |-> worker.todo]
      /\ worker' \in Worker
      /\ worker'.at = "subscribed" /\ worker'.sub = w /\ worker'.todo = worker.todo
  BY <1>1, AtWork DEF setDataDownTrack, Goto, InHand
<1>3. /\ UNCHANGED <<subscriptions, subscribers, closed, handles>>
      /\ sub' = [sub EXCEPT ![w] = new]
  BY DEF setDataDownTrack
<1>4. /\ w \in SubId /\ w # 0 /\ sub \in [SubId -> Object]
      /\ sub[w].track \in Track /\ worker.todo \subseteq SubId
      /\ \A t \in Track : subscriptions[t] # 0 => subscriptions[t] \in SubId
  BY <1>1, AtWork, DataTrackSubscriptionAssumption DEF Object, SubId, IInv, TypeOK
<1>5. new \in Object /\ new.track = sub[w].track
  <2>1. sub[w] \in Object
    BY <1>1, AtWork
  <2> QED BY ONLY <2>1 DEF Object
<1> HIDE DEF new
<1>6. /\ sub' \in [SubId -> Object]
      /\ \A r \in SubId : sub'[r].track = sub[r].track
      /\ \A r \in SubId : r # w => sub'[r] = sub[r]
  BY ONLY <1>3, <1>4, <1>5
<1>7. TypeOK'
  BY <1>2, <1>3, <1>6 DEF setDataDownTrack, IInv, TypeOK, Worker, InHand, Object
<1>8. subscribers[sub[w].track] = w
  BY <1>1 DEF IInv, Objects, AddedIsAttached
<1>9. HeldIsAttached'
  <2> SUFFICES ASSUME NEW t \in Track, closed # "done", subscriptions[t] # 0,
                      sub'[subscriptions[t]].down
               PROVE  subscribers[t] = subscriptions[t]
    BY <1>3 DEF HeldIsAttached
  <2>1. CASE subscriptions[t] = w
    BY <1>8, <2>1, <1>4 DEF IInv, Objects, MapIsConsistent
  <2>2. CASE subscriptions[t] # w
    BY <1>1, <1>4, <1>6, <2>2 DEF IInv, Objects, HeldIsAttached
  <2> QED BY <2>1, <2>2
<1>10. MapIsConsistent' /\ HasObject' /\ ClosedIsIdle' /\ AddedIsAttached'
  BY <1>1, <1>2, <1>3, <1>4, <1>6
  DEF IInv, Objects, MapIsConsistent, HasObject, ClosedIsIdle, InHand, AddedIsAttached
<1>11. HandlesAreLiveOrInHand'
  BY <1>1, <1>2, <1>3 DEF IInv, Objects, HandlesAreLiveOrInHand
<1>12. OnePerTrack'
  BY <1>2, <1>4, <1>6 DEF IInv, Objects, OnePerTrack
<1>13. TodoIsOwn'
  <2> SUFFICES ASSUME NEW r \in worker.todo,
                      subscriptions[sub'[r].track] # 0,
                      subscriptions[sub'[r].track] # r
               PROVE  ~sub'[subscriptions[sub'[r].track]].down
    BY <1>2, <1>3 DEF TodoIsOwn
  <2> DEFINE m == subscriptions[sub[r].track]
  <2>1. /\ sub'[r].track = sub[r].track /\ r \in SubId /\ sub[r].track \in Track
        /\ m # 0 /\ m # r /\ m \in SubId
    BY <1>4, <1>6 DEF Object
  <2>2. sub[m].track = sub[r].track
    BY <2>1 DEF IInv, Objects, MapIsConsistent
  <2>3. m # w
    BY <2>2, <1>4 DEF IInv, Objects, OnePerTrack
  <2>4. ~sub[m].down
    BY <2>1 DEF IInv, Objects, TodoIsOwn
  <2> QED BY <1>6, <2>1, <2>3, <2>4
<1> QED BY <1>7, <1>9, <1>10, <1>11, <1>12, <1>13 DEF IInv, Objects
(* The worker unsubscribes: only the object in hand may be held without    *)
(* its track sending to it.                                                *)
LEMMA UnsubscribeKeepsIInv ==
  ASSUME IInv, NEW s \in SubId, unsubscribeDataTrack(s)
  PROVE  IInv'
<1> USE DEF subVars, permVars, sourceVars, goVars
<1> DEFINE t == sub[s].track
<1>1. /\ worker' = [at |-> "unsubscribed", sub |-> s, todo |-> worker.todo \ {s}]
      /\ worker'.at = "unsubscribed" /\ worker'.sub = s
      /\ worker'.todo = worker.todo \ {s}
      /\ worker.at = "idle" /\ s \in worker.todo /\ closed = "no"
      /\ worker' \in Worker
  BY TakeType DEF unsubscribeDataTrack, Take, Reconcile, InHand
<1>2. /\ UNCHANGED <<subscriptions, sub, closed, handles>>
      /\ subscribers' = [subscribers EXCEPT ![t] = 0]
  BY DEF unsubscribeDataTrack
<1>3. /\ t \in Track /\ s # 0 /\ subscribers \in [Track -> 0..MaxSubs]
      /\ 0 \in 0..MaxSubs /\ worker.todo \subseteq SubId
      /\ subscribers' \in [Track -> 0..MaxSubs]
      /\ \A u \in Track : subscribers'[u] = IF u = t THEN 0 ELSE subscribers[u]
  BY <1>2, DataTrackSubscriptionAssumption DEF SubId, IInv, TypeOK
<1>4. TypeOK'
  BY <1>1, <1>2, <1>3 DEF unsubscribeDataTrack, IInv, TypeOK, Worker, InHand
<1>5. HeldIsAttached'
  <2> SUFFICES ASSUME NEW u \in Track, subscriptions[u] # 0, sub[subscriptions[u]].down
               PROVE  subscribers'[u] = subscriptions[u] \/ subscriptions[u] = s
    BY <1>1, <1>2 DEF HeldIsAttached
  <2>1. CASE u = t
    BY <1>1, <2>1 DEF IInv, Objects, TodoIsOwn
  <2>2. CASE u # t
    BY <1>1, <1>3, <2>2 DEF IInv, Objects, HeldIsAttached
  <2> QED BY <2>1, <2>2
<1>6. HandlesAreLiveOrInHand'
  <2>1. handles \subseteq Track
    BY DEF IInv, TypeOK
  <2> QED BY <1>1, <1>2, <1>3, <2>1 DEF IInv, Objects, HandlesAreLiveOrInHand
<1>7. MapIsConsistent' /\ HasObject' /\ ClosedIsIdle' /\ AddedIsAttached'
  BY <1>1, <1>2, <1>3
  DEF IInv, Objects, MapIsConsistent, HasObject, ClosedIsIdle, InHand, AddedIsAttached
<1>8. OnePerTrack' /\ TodoIsOwn'
  BY <1>1, <1>2 DEF IInv, Objects, OnePerTrack, TodoIsOwn
<1> QED BY <1>4, <1>5, <1>6, <1>7, <1>8 DEF IInv, Objects

(* What the worker unsubscribed leaves the map, or what took its place.    *)
LEMMA DeleteKeepsIInv ==
  ASSUME IInv, DeleteUnsubscribed
  PROVE  IInv'
<1> USE DEF subVars, permVars, sourceVars, goVars
<1> DEFINE t == sub[worker.sub].track
<1>1. worker.at = "unsubscribed" /\ worker.at \in InHand
  BY DEF DeleteUnsubscribed, InHand
<1>2. /\ worker' = [at |-> "removed", sub |-> worker.sub, todo |-> worker.todo]
      /\ worker' \in Worker
      /\ worker'.at = "removed" /\ worker'.sub = worker.sub /\ worker'.todo = worker.todo
  BY <1>1, AtWork DEF DeleteUnsubscribed, Goto, InHand
<1>3. /\ UNCHANGED <<sub, closed, handles, subscribers>>
      /\ subscriptions' = [subscriptions EXCEPT ![t] = 0]
  BY DEF DeleteUnsubscribed, Delete
<1>4. /\ t \in Track /\ worker.sub \in SubId /\ worker.sub # 0
      /\ worker.todo \subseteq SubId /\ sub \in [SubId -> Object]
      /\ subscriptions' \in [Track -> 0..MaxSubs]
      /\ \A u \in Track : subscriptions'[u] = IF u = t THEN 0 ELSE subscriptions[u]
  <2>1. t \in Track /\ worker.sub \in SubId /\ worker.todo \subseteq SubId
    BY <1>1, AtWork DEF Object
  <2>2. worker.sub # 0 /\ 0 \in 0..MaxSubs
    BY <2>1, DataTrackSubscriptionAssumption DEF SubId
  <2>3. sub \in [SubId -> Object] /\ subscriptions \in [Track -> 0..MaxSubs]
    BY DEF IInv, TypeOK, Object
  <2> QED BY ONLY <1>3, <2>1, <2>2, <2>3
<1>5. TypeOK'
  BY <1>2, <1>3, <1>4 DEF DeleteUnsubscribed, IInv, TypeOK, Worker, InHand
<1>6. HeldIsAttached'
  <2> SUFFICES ASSUME NEW u \in Track, closed # "done", subscriptions'[u] # 0,
                      sub[subscriptions'[u]].down
               PROVE  subscribers[u] = subscriptions'[u]
    BY <1>3 DEF HeldIsAttached
  <2>1. u # t /\ subscriptions'[u] = subscriptions[u]
    BY <1>4
  <2>2. subscriptions[u] # worker.sub
    BY <2>1 DEF IInv, Objects, MapIsConsistent
  <2> QED BY <2>1, <2>2 DEF IInv, Objects, HeldIsAttached
<1>7. HandlesAreLiveOrInHand'
  BY <1>1, <1>2, <1>3 DEF IInv, Objects, HandlesAreLiveOrInHand
<1>8. MapIsConsistent' /\ HasObject' /\ ClosedIsIdle' /\ AddedIsAttached'
  BY <1>1, <1>2, <1>3, <1>4
  DEF IInv, Objects, MapIsConsistent, HasObject, ClosedIsIdle, InHand, AddedIsAttached
<1>9. OnePerTrack' /\ TodoIsOwn'
  <2>1. \A r \in worker.todo : sub[r].track \in Track
    BY <1>4 DEF Object
  <2> QED BY <1>2, <1>3, <1>4, <2>1 DEF IInv, Objects, OnePerTrack, TodoIsOwn
<1> QED BY <1>5, <1>6, <1>7, <1>8, <1>9 DEF IInv, Objects

(* The worker is done with an object: AddSubscriber failed, or the client  *)
(* is told what is desired and has a down track, which is sent.            *)
LEMMA DoneKeepsIInv ==
  ASSUME IInv, AddSubscriberFails \/ notifyDataTrackSubscriberHandles
  PROVE  IInv'
<1> USE DEF subVars, permVars, sourceVars, goVars
<1>1. /\ worker.at \in InHand
      /\ worker.at # "unsubscribed" /\ worker.at # "idle"
      /\ UNCHANGED <<sub, subscriptions, closed, subscribers>>
  BY DEF AddSubscriberFails, notifyDataTrackSubscriberHandles, InHand
<1>2. /\ worker' = [at |-> "idle", sub |-> 0, todo |-> worker.todo]
      /\ worker'.at = "idle" /\ worker'.sub = 0 /\ worker'.todo = worker.todo
      /\ worker' \in Worker
  BY <1>1, AtWork, WorkerType
  DEF AddSubscriberFails, notifyDataTrackSubscriberHandles, Done, Idle
<1>3. handles' \subseteq Track /\ \A t \in handles' : subscribers[t] # 0
  <2>1. CASE AddSubscriberFails
    BY <2>1, <1>1, AtWork
    DEF AddSubscriberFails, IInv, Objects, HandlesAreLiveOrInHand, TypeOK
  <2>2. CASE notifyDataTrackSubscriberHandles
    BY <2>2, <1>1, AtWork
    DEF notifyDataTrackSubscriberHandles, Held, IInv, Objects, HeldIsAttached
  <2> QED BY <2>1, <2>2
<1>4. TypeOK'
  BY <1>1, <1>2, <1>3
  DEF AddSubscriberFails, notifyDataTrackSubscriberHandles, IInv, TypeOK, Worker, InHand
<1>5. MapIsConsistent' /\ HasObject' /\ ClosedIsIdle' /\ AddedIsAttached'
  BY <1>1, <1>2
  DEF IInv, Objects, MapIsConsistent, HasObject, ClosedIsIdle, InHand, AddedIsAttached
<1>6. HeldIsAttached' /\ HandlesAreLiveOrInHand'
  BY <1>1, <1>2, <1>3 DEF IInv, Objects, HeldIsAttached, HandlesAreLiveOrInHand
<1>7. OnePerTrack' /\ TodoIsOwn'
  BY <1>1, <1>2 DEF IInv, Objects, OnePerTrack, TodoIsOwn
<1> QED BY <1>4, <1>5, <1>6, <1>7 DEF IInv, Objects

(* The clean-up empties a place in the map and stays locked.               *)
LEMMA CleanupKeepsIInv ==
  ASSUME IInv, NEW s \in SubId, Cleanup(s)
  PROVE  IInv'
<1> USE DEF subVars, permVars, sourceVars, goVars
<1> DEFINE t == sub[s].track
<1>1. /\ worker' = [at |-> "locked", sub |-> 0, todo |-> {}]
      /\ worker'.at = "locked" /\ worker'.sub = 0 /\ worker'.todo = {}
      /\ worker' \in Worker
      /\ worker.at = "idle" /\ closed = "no"
  BY WorkerType DEF Cleanup, Idle, Reconcile
<1>2. /\ UNCHANGED <<sub, closed, handles, subscribers>>
      /\ subscriptions' = [subscriptions EXCEPT ![t] = 0]
  BY DEF Cleanup, Delete
<1>3. /\ subscriptions' \in [Track -> 0..MaxSubs]
      /\ \A u \in Track : subscriptions'[u] = IF u = t THEN 0 ELSE subscriptions[u]
  BY <1>2, DataTrackSubscriptionAssumption DEF SubId, IInv, TypeOK
<1>4. TypeOK'
  BY <1>1, <1>2, <1>3 DEF Cleanup, IInv, TypeOK, Worker, InHand
<1>5. MapIsConsistent' /\ HeldIsAttached'
  BY <1>1, <1>2, <1>3 DEF IInv, Objects, MapIsConsistent, HeldIsAttached
<1>6. HasObject' /\ ClosedIsIdle' /\ AddedIsAttached' /\ HandlesAreLiveOrInHand'
  BY <1>1, <1>2
  DEF IInv, Objects, HasObject, ClosedIsIdle, InHand, AddedIsAttached,
      HandlesAreLiveOrInHand
<1>7. OnePerTrack' /\ TodoIsOwn'
  BY <1>1 DEF OnePerTrack, TodoIsOwn
<1> QED BY <1>4, <1>5, <1>6, <1>7 DEF IInv, Objects

(* Both halves of Close.                                                   *)
LEMMA CloseKeepsIInv ==
  ASSUME IInv, CloseBegins \/ CloseEnds
  PROVE  IInv'
<1> USE DEF subVars, permVars, sourceVars, goVars
<1>1. CASE CloseBegins
  <2>1. /\ UNCHANGED <<sub, subscriptions, worker, handles, subscribers>>
        /\ closed = "no" /\ closed' = "closing"
    BY <1>1 DEF CloseBegins
  <2>2. TypeOK'
    BY <1>1 DEF CloseBegins, IInv, TypeOK
  <2> QED BY <2>1, <2>2
    DEF IInv, Objects, MapIsConsistent, HasObject, OnePerTrack, TodoIsOwn,
        AddedIsAttached, HeldIsAttached, HandlesAreLiveOrInHand, ClosedIsIdle
<1>2. CASE CloseEnds
  <2>1. /\ worker' = [at |-> "idle", sub |-> 0, todo |-> {}]
        /\ worker'.at = "idle" /\ worker'.sub = 0 /\ worker'.todo = {}
        /\ worker' \in Worker
        /\ closed' = "done" /\ UNCHANGED <<sub, subscriptions>>
    BY <1>2, WorkerType DEF CloseEnds, Idle
  <2>2. subscribers' \in [Track -> 0..MaxSubs] /\ handles' \subseteq Track
    BY <1>2, DataTrackSubscriptionAssumption DEF CloseEnds, Held, IInv, TypeOK
  <2>3. TypeOK'
    BY <1>2, <2>1, <2>2 DEF CloseEnds, IInv, TypeOK, Worker, InHand
  <2>4. MapIsConsistent' /\ HasObject' /\ ClosedIsIdle' /\ AddedIsAttached'
    BY <2>1
    DEF IInv, Objects, MapIsConsistent, HasObject, ClosedIsIdle, InHand, AddedIsAttached
  <2>5. HeldIsAttached' /\ HandlesAreLiveOrInHand'
    BY <2>1 DEF HeldIsAttached, HandlesAreLiveOrInHand
  <2>6. OnePerTrack' /\ TodoIsOwn'
    BY <2>1 DEF OnePerTrack, TodoIsOwn
  <2> QED BY <2>3, <2>4, <2>5, <2>6 DEF IInv, Objects
<1> QED BY <1>1, <1>2

(* Every step keeps the invariant.                                         *)
LEMMA NextIInv == IInv /\ [Next]_vars => IInv'
<1> SUFFICES ASSUME IInv, [Next]_vars PROVE IInv'
  OBVIOUS
<1>0. Track # {}
  BY DataTrackSubscriptionAssumption
<1>1. ASSUME NEW t \in Track,
             \/ SubscribeExisting(t) \/ UnsubscribeFromDataTrack(t)
             \/ \E c \in Caller : SubscribeFindsNone(c, t) \/ SubscribeDesires(c)
      PROVE  IInv'
  BY <1>1, RequestsKeepIInv
<1>2. CASE \/ \E c \in Caller : SubscribeDesires(c)
           \/ ClearAllSubscriptions \/ SetPermission
  BY <1>0, <1>2, RequestsKeepIInv
<1>3. CASE \/ \E c \in Caller : SubscribeCreates(c)
           \/ \E t \in Track : UpdateDataTrackSubscriptionOptions(t)
  BY <1>3, CreationKeepsIInv
<1>4. ASSUME NEW t \in Track,
             \/ AddDataTrack(t) \/ CloseDataTrack(t) \/ RemoveDataTrack(t)
             \/ handleSourceDataTrackRemoved(t) \/ RemoveObserver(t)
      PROVE  IInv'
  BY <1>4, PublishersKeepIInv
<1>5. CASE Tick \/ \E id \in Track \cup {All} : Receive(id)
  BY <1>5, LookingKeepsIInv
<1>6. ASSUME NEW s \in SubId,
             \/ SubscribeFails(s) \/ SubscribeTimesOut(s) \/ NothingToDo(s)
             \/ unsubscribeDataTrack(s) \/ Cleanup(s)
      PROVE  IInv'
  BY <1>6, PuttingOffKeepsIInv, UnsubscribeKeepsIInv, CleanupKeepsIInv
<1>7. CASE \/ \E s \in SubId : SubscribeResolves(s)
           \/ setRemovedNotifier \/ AddObserver \/ AddSubscriberFindsOne
  BY <1>7, ObservingKeepsIInv
<1>8. CASE AddSubscriber \/ setDataDownTrack
  BY <1>8, AddSubscriberKeepsIInv, SetDownKeepsIInv
<1>9. CASE \/ DeleteUnsubscribed
           \/ AddSubscriberFails \/ notifyDataTrackSubscriberHandles
  BY <1>9, DeleteKeepsIInv, DoneKeepsIInv
<1>10. CASE CloseBegins \/ CloseEnds
  BY <1>10, CloseKeepsIInv
<1>11. CASE UNCHANGED vars
  <2> USE <1>11 DEF vars, subVars, permVars, sourceVars, goVars
  <2>1. TypeOK'
    BY DEF IInv, TypeOK
  <2> QED BY <2>1
    DEF IInv, Objects, MapIsConsistent, HasObject, OnePerTrack, TodoIsOwn,
        AddedIsAttached, HeldIsAttached, HandlesAreLiveOrInHand, ClosedIsIdle
<1> QED
  BY <1>1, <1>2, <1>3, <1>4, <1>5, <1>6, <1>7, <1>8, <1>9, <1>10, <1>11
  DEF Next, reconcileWorker

(* The invariant holds in every reachable state.                           *)
THEOREM AlwaysIInv == Spec => []IInv
  BY InitIInv, NextIInv, PTL DEF Spec

(* The map, objects and channels keep their types                          *)
(* (dataTrackSubscription, line 1506).                                     *)
THEOREM TypeCorrect == Spec => []TypeOK
<1>1. IInv => TypeOK
  BY DEF IInv
<1> QED BY <1>1, AlwaysIInv, PTL

(* A subscription in the map that has a down track is sent its data, for   *)
(* any number of calls that race in SubscribeToDataTrack.                  *)
THEOREM HeldIsAttachedSafe == Spec => []HeldIsAttached
<1>1. IInv => HeldIsAttached
  BY DEF IInv, Objects
<1> QED BY <1>1, AlwaysIInv, PTL

(* The handles the client holds are those of tracks that send to it, for   *)
(* every number of tracks and any interleaving of requests.                *)
THEOREM ClientHandlesAreLive == Spec => []HandlesAreLive
<1>1. IInv => HandlesAreLive
  BY DEF IInv, Objects, HandlesAreLiveOrInHand, HandlesAreLive
<1> QED BY <1>1, AlwaysIInv, PTL
=============================================================================
