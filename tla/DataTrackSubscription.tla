----------------------- MODULE DataTrackSubscription -----------------------
(***************************************************************************)
(* A participant's data track subscriptions: the data track half of        *)
(* pkg/rtc/subscriptionmanager.go, with datatrack.go, the data tracks of   *)
(* roomtrackmanager.go and the observers of utils/changenotifier.go.       *)
(*                                                                         *)
(* The shape is that of module SubscriptionManager, but a data down track  *)
(* reports nothing when its source goes: only the observer of the removed  *)
(* track does.  A data track gets a fresh id when it is published, so it   *)
(* never comes back.                                                       *)
(*                                                                         *)
(* A data down track is named by the object it was made for, a handle by   *)
(* its track.  Subscription options and the publishers one is subscribed   *)
(* to are left out.                                                        *)
(***************************************************************************)
EXTENDS Naturals, FiniteSets, FiniteSetsExt

CONSTANTS
  Track,      (* Data track ids.                                           *)
  Caller,     (* Goroutines that call SubscribeToDataTrack.                *)
  QueueSize,  (* Capacity of reconcileDataTrackCh.                         *)
  MaxSubs,    (* Bound: subscription objects alive at a time.              *)
  MaxChanges  (* Bound: changes of the permission to subscribe.            *)

ASSUME DataTrackSubscriptionAssumption ==
  /\ Track # {}
  /\ QueueSize \in Nat /\ MaxSubs \in Nat /\ MaxChanges \in Nat

SubId == 1..MaxSubs

(* trackIDForReconcileSubscriptions.                                       *)
All == "all"

VARIABLES
  subscriptions, (* dataTrackSubscriptions: track -> object, 0 when absent *)
  sub,           (* the subscription objects; notified: holds the notifier *)
  reconcileDataTrackCh,
  worker,        (* reconcileWorker: position, object, objects to do       *)
  caller,        (* SubscribeToDataTrack calls in progress                 *)
  closed,
  canSubscribe, changes,
  handles,       (* tracks of the handles last sent to the client          *)
  (* Publisher side.                                                       *)
  source,        (* state of each data track                               *)
  subscribers,   (* track -> the down track in its subscribedTracks, or 0  *)
  observers,     (* tracks whose removed notifier has this observer        *)
  (* Goroutines about to run.                                              *)
  unobserving,   (* RemoveObserver, by track                               *)
  removals       (* the removed notifier's observer, by track              *)

subVars == <<subscriptions, sub>>
sourceVars == <<source, subscribers, observers>>
permVars == <<canSubscribe, changes>>
goVars == <<unobserving, removals>>
vars == <<subVars, reconcileDataTrackCh, worker, caller, closed, permVars, handles,
          sourceVars, goVars>>

NoSub == [track |-> CHOOSE t \in Track : TRUE, desired |-> FALSE, down |-> FALSE,
          notified |-> FALSE]
Idle == [at |-> "idle", sub |-> 0, todo |-> {}]
NoCall == [at |-> "idle", track |-> CHOOSE t \in Track : TRUE]

TypeOK ==
  /\ subscriptions \in [Track -> 0..MaxSubs]
  /\ sub \in [SubId -> [track : Track, desired : BOOLEAN, down : BOOLEAN,
                        notified : BOOLEAN]]
  /\ reconcileDataTrackCh \subseteq Track \cup {All}
  /\ worker \in [at : {"idle", "resolved", "notified", "observed", "added",
                       "subscribed", "unsubscribed", "removed", "locked"},
                 sub : 0..MaxSubs, todo : SUBSET SubId]
  /\ caller \in [Caller -> [at : {"idle", "missing", "created"}, track : Track]]
  /\ closed \in {"no", "closing", "done"}
  /\ canSubscribe \in BOOLEAN /\ changes \in Nat
  /\ handles \subseteq Track
  /\ source \in [Track -> {"none", "open", "closed", "removed"}]
  /\ subscribers \in [Track -> 0..MaxSubs] /\ observers \subseteq Track
  /\ unobserving \subseteq Track /\ removals \subseteq Track

Init ==
  /\ subscriptions = [t \in Track |-> 0]
  /\ sub = [s \in SubId |-> NoSub]
  /\ reconcileDataTrackCh = {}
  /\ worker = Idle
  /\ caller = [c \in Caller |-> NoCall]
  /\ closed = "no"
  /\ canSubscribe \in BOOLEAN /\ changes = 0
  /\ handles = {}
  /\ source \in [Track -> {"none", "open"}]
  /\ subscribers = [t \in Track |-> 0] /\ observers = {}
  /\ unobserving = {} /\ removals = {}

-----------------------------------------------------------------------------
(* Requests.  All of them take the manager's lock.                         *)

LockIsFree == worker.at # "locked"

queueReconcileDataTrack(id) ==
  reconcileDataTrackCh' = IF Cardinality(reconcileDataTrackCh) < QueueSize
                            THEN reconcileDataTrackCh \cup {id}
                            ELSE reconcileDataTrackCh

(* setDesired(false) of the objects in S: they forget the notifiers and    *)
(* goroutines remove the observers.                                        *)
Undesire(S) ==
  /\ sub' = [s \in SubId |->
               IF s \in S THEN [sub[s] EXCEPT !.desired = FALSE, !.notified = FALSE]
                          ELSE sub[s]]
  /\ unobserving' = unobserving \cup {sub[s].track : s \in {r \in S : sub[r].notified}}

(* Objects nothing refers to, whose number may be used again.              *)
FreeSubs ==
  {s \in SubId :
     /\ \A t \in Track : subscriptions[t] # s /\ subscribers[t] # s
     /\ worker.sub # s /\ s \notin worker.todo}

newDataTrackSubscription(s, t) ==
  /\ s = Min(FreeSubs)
  /\ sub' = [sub EXCEPT ![s] = [NoSub EXCEPT !.track = t]]
  /\ subscriptions' = [subscriptions EXCEPT ![t] = s]

(* SubscribeToDataTrack of a track that has a subscription.                *)
SubscribeExisting(t) ==
  /\ LockIsFree
  /\ subscriptions[t] # 0
  /\ sub' = [sub EXCEPT ![subscriptions[t]].desired = TRUE]
  /\ queueReconcileDataTrack(t)
  /\ UNCHANGED <<subscriptions, worker, caller, closed, permVars, handles,
                 sourceVars, goVars>>

(* SubscribeToDataTrack of a new track: no subscription is found, one is   *)
(* created and put into the map, whatever is there by then, and what the   *)
(* map holds after that is desired.                                        *)
SubscribeFindsNone(c, t) ==
  /\ LockIsFree
  /\ caller[c].at = "idle" /\ subscriptions[t] = 0
  /\ caller' = [caller EXCEPT ![c] = [at |-> "missing", track |-> t]]
  /\ UNCHANGED <<subVars, reconcileDataTrackCh, worker, closed, permVars,
                 handles, sourceVars, goVars>>

SubscribeCreates(c) ==
  /\ LockIsFree
  /\ caller[c].at = "missing"
  /\ \E s \in FreeSubs : newDataTrackSubscription(s, caller[c].track)
  /\ caller' = [caller EXCEPT ![c].at = "created"]
  /\ UNCHANGED <<reconcileDataTrackCh, worker, closed, permVars, handles,
                 sourceVars, goVars>>

SubscribeDesires(c) ==
  LET s == subscriptions[caller[c].track] IN
  /\ LockIsFree
  /\ caller[c].at = "created"
  /\ sub' = IF s = 0 THEN sub ELSE [sub EXCEPT ![s].desired = TRUE]
  /\ queueReconcileDataTrack(caller[c].track)
  /\ caller' = [caller EXCEPT ![c] = NoCall]
  /\ UNCHANGED <<subscriptions, worker, closed, permVars, handles,
                 sourceVars, goVars>>

UnsubscribeFromDataTrack(t) ==
  /\ LockIsFree
  /\ subscriptions[t] # 0 /\ sub[subscriptions[t]].desired
  /\ Undesire({subscriptions[t]})
  /\ queueReconcileDataTrack(t)
  /\ UNCHANGED <<subscriptions, worker, caller, closed, permVars, handles,
                 sourceVars, removals>>

(* Room.onUpdateDataSubscriptions sets the options after it subscribes and *)
(* after it unsubscribes: a subscription that is gone comes back, not      *)
(* desired.                                                                *)
UpdateDataTrackSubscriptionOptions(t) ==
  /\ LockIsFree
  /\ subscriptions[t] = 0
  /\ \E s \in FreeSubs : newDataTrackSubscription(s, t)
  /\ UNCHANGED <<reconcileDataTrackCh, worker, caller, closed, permVars,
                 handles, sourceVars, goVars>>

InMap == {s \in SubId : subscriptions[sub[s].track] = s}

ClearAllSubscriptions ==
  /\ LockIsFree
  /\ \E s \in InMap : sub[s].desired
  /\ Undesire(InMap)
  /\ queueReconcileDataTrack(All)
  /\ UNCHANGED <<subscriptions, worker, caller, closed, permVars, handles,
                 sourceVars, removals>>

(* ParticipantImpl.SetPermission: a permission that is granted reconciles  *)
(* everything, one that is taken back leaves the data tracks subscribed.   *)
SetPermission ==
  /\ changes < MaxChanges
  /\ changes' = changes + 1
  /\ canSubscribe' = ~canSubscribe
  /\ IF canSubscribe' THEN queueReconcileDataTrack(All)
                      ELSE UNCHANGED reconcileDataTrackCh
  /\ UNCHANGED <<subVars, worker, caller, closed, handles, sourceVars, goVars>>

-----------------------------------------------------------------------------
(* The publisher.  Whoever asked for the track before it was published may *)
(* be told, if its observer is still there.                                *)

AddDataTrack(t) ==
  /\ source[t] = "none"
  /\ source' = [source EXCEPT ![t] = "open"]
  /\ queueReconcileDataTrack(t) \/ UNCHANGED reconcileDataTrackCh
  /\ UNCHANGED <<subVars, worker, caller, closed, permVars, handles,
                 subscribers, observers, goVars>>

(* RemovePublishedDataTrack closes the track, then removes it from the     *)
(* room, which tells the observers and drops the notifiers.                *)
CloseDataTrack(t) ==
  /\ source[t] = "open"
  /\ source' = [source EXCEPT ![t] = "closed"]
  /\ UNCHANGED <<subVars, reconcileDataTrackCh, worker, caller, closed,
                 permVars, handles, subscribers, observers, goVars>>

RemoveDataTrack(t) ==
  /\ source[t] = "closed"
  /\ source' = [source EXCEPT ![t] = "removed"]
  /\ removals' = removals \cup (observers \cap {t})
  /\ observers' = observers \ {t}
  /\ UNCHANGED <<subVars, reconcileDataTrackCh, worker, caller, closed,
                 permVars, handles, subscribers, unobserving>>

(* The observer finds the track gone (it never comes back) and gives the   *)
(* subscription up.                                                        *)
handleSourceDataTrackRemoved(t) ==
  /\ LockIsFree
  /\ t \in removals
  /\ removals' = removals \ {t}
  /\ Undesire({subscriptions[t]} \ {0})
  /\ UNCHANGED <<subscriptions, reconcileDataTrackCh, worker, caller, closed,
                 permVars, handles, sourceVars>>

(* By key: an observer that was added meanwhile goes as well.  Several     *)
(* goroutines may be about to do so.                                       *)
RemoveObserver(t) ==
  /\ t \in unobserving
  /\ unobserving' \in {unobserving, unobserving \ {t}}
  /\ observers' = observers \ {t}
  /\ UNCHANGED <<subVars, reconcileDataTrackCh, worker, caller, closed,
                 permVars, handles, source, subscribers, removals>>

-----------------------------------------------------------------------------
(* The worker.                                                             *)

NeedsSubscribe(s) == sub[s].desired /\ ~sub[s].down
NeedsUnsubscribe(s) == ~sub[s].desired /\ sub[s].down
NeedsCleanup(s) == ~sub[s].desired /\ ~sub[s].down

(* Mutant: the ticker does not look for what is to be left.                *)
NeedsReconcileNoUnsubscribe == {s \in InMap : NeedsSubscribe(s)}

(* What reconcileDataTrackSubscriptions looks for.                         *)
NeedsReconcile == {s \in InMap : NeedsSubscribe(s) \/ NeedsUnsubscribe(s)}

WorkerIsFree == worker.at = "idle" /\ worker.todo = {} /\ closed = "no"

Tick ==
  /\ WorkerIsFree
  /\ NeedsReconcile # {}
  /\ worker' = [Idle EXCEPT !.todo = NeedsReconcile]
  /\ UNCHANGED <<subVars, reconcileDataTrackCh, caller, closed, permVars,
                 handles, sourceVars, goVars>>

Receive(id) ==
  /\ WorkerIsFree
  /\ id \in reconcileDataTrackCh
  /\ reconcileDataTrackCh' = reconcileDataTrackCh \ {id}
  /\ worker' = [Idle EXCEPT !.todo =
                  IF id # All /\ subscriptions[id] # 0 THEN {subscriptions[id]}
                                                       ELSE NeedsReconcile]
  /\ UNCHANGED <<subVars, caller, closed, permVars, handles, sourceVars,
                 goVars>>

Reconcile(s) == worker.at = "idle" /\ s \in worker.todo /\ closed = "no"
Take(place, s) == worker' = [at |-> place, sub |-> s, todo |-> worker.todo \ {s}]
Goto(place) == worker' = [worker EXCEPT !.at = place]
Done == worker' = [Idle EXCEPT !.todo = worker.todo]
Drop(s) == worker' = [Idle EXCEPT !.todo = worker.todo \ {s}]

(* The permission or the resolution fails a subscribe, which is tried      *)
(* again later.                                                            *)
SubscribeFails(s) ==
  /\ Reconcile(s) /\ NeedsSubscribe(s)
  /\ ~canSubscribe \/ source[sub[s].track] \in {"none", "removed"}
  /\ Drop(s)
  /\ UNCHANGED <<subVars, reconcileDataTrackCh, caller, closed, permVars,
                 handles, sourceVars, goVars>>

(* After notFoundTimeout the subscription is given up; its id is queued    *)
(* for the media tracks, so the worker of module SubscriptionManager finds *)
(* nothing to do.                                                          *)
SubscribeTimesOut(s) ==
  /\ Reconcile(s) /\ NeedsSubscribe(s)
  /\ canSubscribe /\ source[sub[s].track] \in {"none", "removed"}
  /\ Undesire({s})
  /\ Drop(s)
  /\ UNCHANGED <<subscriptions, reconcileDataTrackCh, caller, closed,
                 permVars, handles, sourceVars, removals>>

(* subscribeDataTrack.  A track that resolves is observed, even if it is   *)
(* closed and refuses the subscriber.                                      *)
SubscribeResolves(s) ==
  /\ Reconcile(s) /\ NeedsSubscribe(s)
  /\ canSubscribe /\ source[sub[s].track] \in {"open", "closed"}
  /\ Take("resolved", s)
  /\ UNCHANGED <<subVars, reconcileDataTrackCh, caller, closed, permVars,
                 handles, sourceVars, goVars>>

setRemovedNotifier ==
  /\ worker.at = "resolved"
  /\ IF sub[worker.sub].notified
       THEN Goto("observed") /\ UNCHANGED sub
       ELSE Goto("notified") /\ sub' = [sub EXCEPT ![worker.sub].notified = TRUE]
  /\ UNCHANGED <<subscriptions, reconcileDataTrackCh, caller, closed,
                 permVars, handles, sourceVars, goVars>>

(* The notifier of a track that was removed meanwhile tells nobody.        *)
AddObserver ==
  LET t == sub[worker.sub].track IN
  /\ worker.at = "notified"
  /\ observers' = IF source[t] = "removed" THEN observers ELSE observers \cup {t}
  /\ Goto("observed")
  /\ UNCHANGED <<subVars, reconcileDataTrackCh, caller, closed, permVars,
                 handles, source, subscribers, goVars>>

AddSubscriberFails ==
  LET t == sub[worker.sub].track IN
  /\ worker.at = "observed"
  /\ subscribers[t] = 0 /\ source[t] # "open"
  /\ Done
  /\ UNCHANGED <<subVars, reconcileDataTrackCh, caller, closed, permVars,
                 handles, sourceVars, goVars>>

(* errAlreadySubscribed: the object gets no down track.                    *)
AddSubscriberFindsOne ==
  /\ worker.at = "observed"
  /\ subscribers[sub[worker.sub].track] # 0
  /\ Goto("subscribed")
  /\ UNCHANGED <<subVars, reconcileDataTrackCh, caller, closed, permVars,
                 handles, sourceVars, goVars>>

AddSubscriber ==
  LET t == sub[worker.sub].track IN
  /\ worker.at = "observed"
  /\ subscribers[t] = 0 /\ source[t] = "open"
  /\ subscribers' = [subscribers EXCEPT ![t] = worker.sub]
  /\ Goto("added")
  /\ UNCHANGED <<subVars, reconcileDataTrackCh, caller, closed, permVars,
                 handles, source, observers, goVars>>

setDataDownTrack ==
  /\ worker.at = "added"
  /\ sub' = [sub EXCEPT ![worker.sub].down = TRUE]
  /\ Goto("subscribed")
  /\ UNCHANGED <<subscriptions, reconcileDataTrackCh, caller, closed,
                 permVars, handles, sourceVars, goVars>>

unsubscribeDataTrack(s) ==
  /\ Reconcile(s) /\ NeedsUnsubscribe(s)
  /\ subscribers' = [subscribers EXCEPT ![sub[s].track] = 0]
  /\ Take("unsubscribed", s)
  /\ UNCHANGED <<subVars, reconcileDataTrackCh, caller, closed, permVars,
                 handles, source, observers, goVars>>

(* The map entry of the object's track, whichever object it holds.         *)
Delete(s) == subscriptions' = [subscriptions EXCEPT ![sub[s].track] = 0]

(* Mutants: a subscription that is desired again by now is kept; the       *)
(* client is not told.                                                     *)
DeleteUnlessDesired ==
  /\ worker.at = "unsubscribed"
  /\ IF sub[worker.sub].desired THEN UNCHANGED subscriptions ELSE Delete(worker.sub)
  /\ Goto("removed")
  /\ UNCHANGED <<sub, reconcileDataTrackCh, caller, closed, permVars,
                 handles, sourceVars, goVars>>
DeleteUnsubscribedSilently ==
  /\ worker.at = "unsubscribed"
  /\ Delete(worker.sub)
  /\ Done
  /\ UNCHANGED <<sub, reconcileDataTrackCh, caller, closed, permVars,
                 handles, sourceVars, goVars>>

DeleteUnsubscribed ==
  /\ worker.at = "unsubscribed"
  /\ Delete(worker.sub)
  /\ Goto("removed")
  /\ UNCHANGED <<sub, reconcileDataTrackCh, caller, closed, permVars,
                 handles, sourceVars, goVars>>

Held == {t \in Track : LET s == subscriptions[t]
                       IN  s # 0 /\ sub[s].desired /\ sub[s].down}

notifyDataTrackSubscriberHandles ==
  /\ worker.at \in {"subscribed", "removed"}
  /\ handles' = Held
  /\ Done
  /\ UNCHANGED <<subVars, reconcileDataTrackCh, caller, closed, permVars,
                 sourceVars, goVars>>

(* The clean-up calls notifyDataTrackSubscriberHandles with the lock held, *)
(* which takes it once more: the worker never gets further.                *)
Cleanup(s) ==
  /\ Reconcile(s) /\ NeedsCleanup(s)
  /\ Delete(s)
  /\ worker' = [Idle EXCEPT !.at = "locked"]
  /\ UNCHANGED <<sub, reconcileDataTrackCh, caller, closed, permVars,
                 handles, sourceVars, goVars>>

NothingToDo(s) ==
  /\ Reconcile(s)
  /\ sub[s].desired /\ sub[s].down
  /\ Drop(s)
  /\ UNCHANGED <<subVars, reconcileDataTrackCh, caller, closed, permVars,
                 handles, sourceVars, goVars>>

reconcileWorker ==
  \/ \E id \in Track \cup {All} : Receive(id)
  \/ \E s \in SubId :
       \/ SubscribeFails(s) \/ SubscribeTimesOut(s) \/ SubscribeResolves(s)
       \/ unsubscribeDataTrack(s) \/ Cleanup(s) \/ NothingToDo(s)
  \/ setRemovedNotifier \/ AddObserver
  \/ AddSubscriberFails \/ AddSubscriberFindsOne \/ AddSubscriber
  \/ setDataDownTrack
  \/ DeleteUnsubscribed \/ notifyDataTrackSubscriberHandles

(* Close stops the worker, waits for it, leaves the data tracks of the     *)
(* objects in the map and tells the client what they still hold.           *)
CloseBegins ==
  /\ LockIsFree
  /\ closed = "no"
  /\ closed' = "closing"
  /\ UNCHANGED <<subVars, reconcileDataTrackCh, worker, caller, permVars,
                 handles, sourceVars, goVars>>

CloseEnds ==
  /\ closed = "closing" /\ worker.at = "idle"
  /\ closed' = "done"
  /\ worker' = Idle
  /\ subscribers' = [t \in Track |->
       IF subscriptions[t] # 0 /\ sub[subscriptions[t]].down THEN 0
                                                             ELSE subscribers[t]]
  /\ handles' = Held
  /\ UNCHANGED <<subVars, reconcileDataTrackCh, caller, permVars, source,
                 observers, goVars>>

Next ==
  \/ \E t \in Track :
       \/ SubscribeExisting(t) \/ UnsubscribeFromDataTrack(t)
       \/ UpdateDataTrackSubscriptionOptions(t)
       \/ AddDataTrack(t) \/ CloseDataTrack(t) \/ RemoveDataTrack(t)
       \/ handleSourceDataTrackRemoved(t) \/ RemoveObserver(t)
       \/ \E c \in Caller : SubscribeFindsNone(c, t)
  \/ \E c \in Caller : SubscribeCreates(c) \/ SubscribeDesires(c)
  \/ ClearAllSubscriptions \/ SetPermission
  \/ Tick \/ reconcileWorker
  \/ CloseBegins \/ CloseEnds

Spec == Init /\ [][Next]_vars

(* As in module SubscriptionManager.                                       *)
FairSpec ==
  /\ Spec
  /\ WF_vars(reconcileWorker) /\ SF_vars(Tick) /\ WF_vars(CloseEnds)
  /\ \A t \in Track : /\ WF_vars(handleSourceDataTrackRemoved(t))
                      /\ WF_vars(RemoveObserver(t))
                      /\ WF_vars(RemoveDataTrack(t))

-----------------------------------------------------------------------------

(* A subscription in the map that has a down track is sent its data: an    *)
(* object that was unsubscribed never comes back to the map, where it      *)
(* would count as subscribed for ever, although the lock is free between   *)
(* the unsubscribe and the delete (line 632), and no racing call's object  *)
(* is unsubscribed in place of another.                                    *)
HeldIsAttached ==
  closed # "done" =>
    \A t \in Track :
      LET s == subscriptions[t]
      IN  s # 0 /\ sub[s].down =>
            \/ subscribers[t] = s
            \/ worker.at = "unsubscribed" /\ worker.sub = s

(* The client holds handles only of tracks that still send to it, whatever *)
(* it asked for while the worker was busy.                                 *)
HandlesAreLive ==
  worker.at = "idle" /\ closed = "no" => \A t \in handles : subscribers[t] # 0

(* A track whose down track is that of an object which a racing call has   *)
(* taken out of the map (line 222): nobody unsubscribes it.                *)
Overwritten(t) == subscribers[t] # 0 /\ subscriptions[t] # subscribers[t]

Desired(t) == subscriptions[t] # 0 /\ sub[subscriptions[t]].desired
Wanted(t) ==
  /\ Desired(t)
  /\ source[t] = "open" /\ canSubscribe
  /\ closed = "no"
Unwanted(t) == closed = "done" \/ (closed = "no" /\ ~Desired(t))
Settled(t) ==
  /\ Wanted(t) => subscribers[t] # 0
  /\ Unwanted(t) => subscribers[t] = 0 \/ Overwritten(t)

(* As long as the worker has not locked itself, what the participant gets  *)
(* follows what it wants: a desired data track that is published and       *)
(* permitted is subscribed, whatever attempts failed before; one that is   *)
(* not desired is left, even when the channel was full (line 660); and     *)
(* Close (line 104) leaves them all, but for one that was overwritten.     *)
Settles == \A t \in Track : []<>(Settled(t) \/ ~LockIsFree)

(* The worker goes on reconciling: a full queue is no loss because "will   *)
(* reconcile based on timer" (line 660).                                   *)
WorkerNeverLocksItself == LockIsFree
=============================================================================
