------------------------ MODULE SubscriptionManager ------------------------
(***************************************************************************)
(* A participant's media subscriptions: pkg/rtc/subscriptionmanager.go,    *)
(* with the parts of MediaTrackSubscriptions, SubscribedTrack, DownTrack   *)
(* and RoomTrackManager it calls.                                          *)
(*                                                                         *)
(* Callers record what they want in a subscription object; one worker      *)
(* goroutine reconciles the objects with reality, creating down tracks and *)
(* asking publishers to remove them.  A down track closes on goroutines of *)
(* its own, which report back through the callback the worker installed.   *)
(* Tracks are of one kind, under one subscription limit.                   *)
(*                                                                         *)
(* A track that is published again is a new MediaTrack, with a table of    *)
(* subscribers of its own: MediaTracks are numbered.                       *)
(*                                                                         *)
(* Whether a down track is bound only decides which error is reported, a   *)
(* failed bind is a call of UnsubscribeFromTrack, and the publishers one is*)
(* subscribed to only decide who is told of whose speaking: left out.      *)
(***************************************************************************)
EXTENDS Integers, FiniteSets, FiniteSetsExt

CONSTANTS
  Track,             (* Track ids.                                         *)
  Caller,            (* Goroutines that call SubscribeToTrack.             *)
  SubscriptionLimits,(* Values of SubscriptionLimitVideo; 0 is no limit.   *)
  QueueSize,         (* Capacity of reconcileCh.                           *)
  MaxSubs,           (* Bound: subscription objects alive at a time.       *)
  MaxDowns,          (* Bound: down tracks alive at a time.                *)
  MaxChanges         (* Bound: publications, permission changes, failures. *)

ASSUME SubscriptionManagerAssumption ==
  /\ Track # {}
  /\ SubscriptionLimits \subseteq Nat
  /\ QueueSize \in Nat
  /\ MaxSubs \in Nat
  /\ MaxDowns \in Nat
  /\ MaxChanges \in Nat

SubId == 1..MaxSubs
DownId == 1..MaxDowns

(* trackIDForReconcileSubscriptions: reconcile every subscription.         *)
All == "all"

VARIABLES
  subscriptions,  (* track -> subscription object, 0 when absent           *)
  sub,            (* the subscription objects                              *)
  subscribedCount,
  reconcileCh,    (* the ids in the channel; order does not matter         *)
  worker,         (* reconcileWorker: position, object, objects to do      *)
  caller,         (* SubscribeToTrack calls in progress                    *)
  closed,         (* "no", "closing" (closeCh closed) or "done"            *)
  (* Publisher side, one subscriber seen.                                  *)
  published,      (* track -> the MediaTrack that resolves and is open, or 0 *)
  permitted,      (* tracks whose publishers admit the subscriber          *)
  subscriptionLimit, (* the configured limit, fixed                        *)
  canSubscribe,   (* the participant's own permission                      *)
  down,           (* the down tracks; MediaTracks list the open ones       *)
  (* Goroutines about to run.                                              *)
  removing,       (* RemoveSubscriber, by MediaTrack: pendingUnsubscribes  *)
  flushing,       (* CloseWithFlush, by down track                         *)
  closeCallbacks, (* handleSubscribedTrackClose, by down track             *)
  releasing,      (* the same, once the subscription has let go            *)
  removals,       (* observers of a removed track, by track                *)
  changes

subVars == <<subscriptions, sub>>
pubVars == <<published, permitted, canSubscribe, subscriptionLimit, changes>>
closeVars == <<flushing, closeCallbacks, releasing>>
vars == <<subVars, subscribedCount, reconcileCh, worker, caller, closed, pubVars,
          down, removing, closeVars, removals>>

NoSub == [track |-> CHOOSE t \in Track : TRUE, desired |-> FALSE, down |-> 0]
NoDown == [track |-> CHOOSE t \in Track : TRUE, media |-> 0, sub |-> 0,
           open |-> FALSE, onClose |-> FALSE]
Idle == [at |-> "idle", sub |-> 0, media |-> 0, down |-> 0, todo |-> {}]
NoCall == [at |-> "idle", track |-> CHOOSE t \in Track : TRUE]

TypeOK ==
  /\ subscriptions \in [Track -> 0..MaxSubs]
  /\ sub \in [SubId -> [track : Track, desired : BOOLEAN, down : 0..MaxDowns]]
  /\ subscribedCount \in -1..MaxSubs + MaxDowns
  /\ reconcileCh \subseteq Track \cup {All}
  /\ worker \in [at : {"idle", "resolved", "adding", "added", "checked", "hooked",
                       "set"},
                 sub : 0..MaxSubs, media : Nat, down : 0..MaxDowns,
                 todo : SUBSET SubId]
  /\ caller \in [Caller -> [at : {"idle", "missing", "created"}, track : Track]]
  /\ closed \in {"no", "closing", "done"}
  /\ published \in [Track -> Nat] /\ permitted \subseteq Track
  /\ canSubscribe \in BOOLEAN /\ subscriptionLimit \in SubscriptionLimits
  /\ down \in [DownId -> [track : Track, media : Nat, sub : 0..MaxSubs,
                          open : BOOLEAN, onClose : BOOLEAN]]
  /\ removing \subseteq Track \X Nat /\ removals \subseteq Track
  /\ flushing \subseteq DownId /\ closeCallbacks \subseteq DownId
  /\ releasing \subseteq DownId
  /\ changes \in Nat

Init ==
  /\ subscriptions = [t \in Track |-> 0]
  /\ sub = [s \in SubId |-> NoSub]
  /\ subscribedCount = 0
  /\ reconcileCh = {}
  /\ worker = Idle
  /\ caller = [c \in Caller |-> NoCall]
  /\ closed = "no"
  /\ published \in [Track -> {0, 1}] /\ permitted = Track /\ canSubscribe = TRUE
  /\ subscriptionLimit \in SubscriptionLimits
  /\ down = [d \in DownId |-> NoDown]
  /\ removing = {} /\ removals = {}
  /\ flushing = {} /\ closeCallbacks = {} /\ releasing = {}
  /\ changes = 0

-----------------------------------------------------------------------------
(* Requests.                                                               *)

(* The channel with the id added; a full channel drops it.                 *)
Queued(id) ==
  IF Cardinality(reconcileCh) < QueueSize THEN reconcileCh \cup {id}
                                          ELSE reconcileCh
queueReconcile(id) == reconcileCh' = Queued(id)

Desired(s, d) == [sub EXCEPT ![s].desired = d]

(* Objects nothing refers to, whose number may be used again.              *)
FreeSubs ==
  {s \in SubId :
     /\ subscriptions[sub[s].track] # s
     /\ worker.sub # s /\ s \notin worker.todo
     /\ sub[s].down = 0
     /\ \A d \in DownId : down[d].sub = s =>
          ~down[d].open /\ d \notin closeCallbacks \cup {worker.down}}
FreeDowns ==
  {d \in DownId :
     /\ ~down[d].open
     /\ d \notin flushing \cup closeCallbacks \cup releasing
     /\ \A s \in SubId : sub[s].down # d}

newMediaTrackSubscription(s, t, desired) ==
  /\ s = Min(FreeSubs)
  /\ sub' = [sub EXCEPT ![s] = [track |-> t, desired |-> desired, down |-> 0]]
  /\ subscriptions' = [subscriptions EXCEPT ![t] = s]

(* SubscribeToTrack of a track that has a subscription.                    *)
SubscribeExisting(t) ==
  /\ subscriptions[t] # 0
  /\ sub' = Desired(subscriptions[t], TRUE)
  /\ queueReconcile(t)
  /\ UNCHANGED <<subscriptions, subscribedCount, worker, caller, closed,
                 pubVars, down, removing, closeVars, removals>>

(* SubscribeToTrack of a new track: no subscription is found, one is       *)
(* created and put into the map, whatever is there by then, and what the   *)
(* map holds after that is desired.                                        *)
SubscribeFindsNone(c, t) ==
  /\ caller[c].at = "idle" /\ subscriptions[t] = 0
  /\ caller' = [caller EXCEPT ![c] = [at |-> "missing", track |-> t]]
  /\ UNCHANGED <<subVars, subscribedCount, reconcileCh, worker, closed,
                 pubVars, down, removing, closeVars, removals>>

SubscribeCreates(c) ==
  /\ caller[c].at = "missing"
  /\ \E s \in FreeSubs : newMediaTrackSubscription(s, caller[c].track, FALSE)
  /\ caller' = [caller EXCEPT ![c].at = "created"]
  /\ UNCHANGED <<subscribedCount, reconcileCh, worker, closed, pubVars,
                 down, removing, closeVars, removals>>

SubscribeDesires(c) ==
  LET s == subscriptions[caller[c].track] IN
  /\ caller[c].at = "created"
  /\ sub' = IF s = 0 THEN sub ELSE Desired(s, TRUE)
  /\ queueReconcile(caller[c].track)
  /\ caller' = [caller EXCEPT ![c] = NoCall]
  /\ UNCHANGED <<subscriptions, subscribedCount, worker, closed, pubVars,
                 down, removing, closeVars, removals>>

UnsubscribeFromTrack(t) ==
  /\ subscriptions[t] # 0
  /\ sub[subscriptions[t]].desired
  /\ sub' = Desired(subscriptions[t], FALSE)
  /\ queueReconcile(t)
  /\ UNCHANGED <<subscriptions, subscribedCount, worker, caller, closed,
                 pubVars, down, removing, closeVars, removals>>

(* UpdateSubscribedTrackSettings of a track without a subscription: an     *)
(* object that is not desired keeps the settings.                          *)
UpdateSubscribedTrackSettings(t) ==
  /\ subscriptions[t] = 0
  /\ \E s \in FreeSubs : newMediaTrackSubscription(s, t, FALSE)
  /\ UNCHANGED <<subscribedCount, reconcileCh, worker, caller, closed,
                 pubVars, down, removing, closeVars, removals>>

ClearAllSubscriptions ==
  /\ \E t \in Track : subscriptions[t] # 0 /\ sub[subscriptions[t]].desired
  /\ sub' = [s \in SubId |-> IF subscriptions[sub[s].track] = s
                               THEN [sub[s] EXCEPT !.desired = FALSE]
                               ELSE sub[s]]
  /\ queueReconcile(All)
  /\ UNCHANGED <<subscriptions, subscribedCount, worker, caller, closed,
                 pubVars, down, removing, closeVars, removals>>

-----------------------------------------------------------------------------
(* Publishers.  An observer may be missing, because setDesired removes it  *)
(* on a goroutine: then the ticker finds the change.                       *)

MayQueue(t) == queueReconcile(t) \/ UNCHANGED reconcileCh

(* The entry of the participant in subscribedTracks of a MediaTrack.       *)
getSubscribedTrack(t, m) ==
  {d \in DownId : down[d].open /\ down[d].track = t /\ down[d].media = m}

Publish(t) ==
  /\ changes < MaxChanges /\ published[t] = 0
  /\ changes' = changes + 1
  /\ published' = [published EXCEPT ![t] = changes + 2]
  /\ MayQueue(t)
  /\ UNCHANGED <<subscriptionLimit, subVars, subscribedCount, worker,
                 caller, closed, permitted, canSubscribe, down, removing,
                 closeVars, removals>>

(* The track is closed, its down tracks are asked to close and its         *)
(* observers are told.                                                     *)
Unpublish(t) ==
  /\ changes < MaxChanges /\ published[t] # 0
  /\ changes' = changes + 1
  /\ published' = [published EXCEPT ![t] = 0]
  /\ flushing' = flushing \cup getSubscribedTrack(t, published[t])
  /\ removals' \in {removals, removals \cup {t}}
  /\ UNCHANGED <<subscriptionLimit, subVars, subscribedCount, reconcileCh,
                 worker, caller, closed, permitted, canSubscribe, down,
                 removing, closeCallbacks, releasing>>

GrantPermission(t) ==
  /\ changes < MaxChanges /\ t \notin permitted
  /\ changes' = changes + 1
  /\ permitted' = permitted \cup {t}
  /\ MayQueue(t)
  /\ UNCHANGED <<subscriptionLimit, subVars, subscribedCount, worker,
                 caller, closed, published, canSubscribe, down, removing,
                 closeVars, removals>>

(* RevokeDisallowedSubscribers.                                            *)
RevokePermission(t) ==
  /\ changes < MaxChanges /\ t \in permitted
  /\ changes' = changes + 1
  /\ permitted' = permitted \ {t}
  /\ flushing' = flushing \cup getSubscribedTrack(t, published[t])
  /\ MayQueue(t)
  /\ UNCHANGED <<subscriptionLimit, subVars, subscribedCount, worker,
                 caller, closed, published, canSubscribe, down, removing,
                 closeCallbacks, releasing, removals>>

GetSubscribedTracks ==
  {s \in SubId : subscriptions[sub[s].track] = s /\ sub[s].down # 0}

(* ParticipantImpl.SetPermission: with the permission everything is        *)
(* reconciled, without it the tracks subscribed by then are removed.       *)
AllowSubscribe ==
  /\ changes < MaxChanges /\ ~canSubscribe
  /\ changes' = changes + 1
  /\ canSubscribe' = TRUE
  /\ queueReconcile(All)
  /\ UNCHANGED <<subscriptionLimit, subVars, subscribedCount, worker,
                 caller, closed, published, permitted, down, removing,
                 closeVars, removals>>

DisallowSubscribe ==
  /\ changes < MaxChanges /\ canSubscribe
  /\ changes' = changes + 1
  /\ canSubscribe' = FALSE
  /\ flushing' = flushing \cup
       {d \in DownId : \E s \in GetSubscribedTracks :
            d \in getSubscribedTrack(sub[s].track, down[sub[s].down].media)}
  /\ UNCHANGED <<subscriptionLimit, subVars, subscribedCount, reconcileCh,
                 worker, caller, closed, published, permitted, down,
                 removing, closeCallbacks, releasing, removals>>

(* The observer of a removed track re-resolves it before it gives up the   *)
(* subscription.                                                           *)
handleSourceTrackRemoved(t) ==
  /\ t \in removals
  /\ removals' = removals \ {t}
  /\ sub' = IF published[t] # 0 \/ subscriptions[t] = 0 THEN sub
            ELSE Desired(subscriptions[t], FALSE)
  /\ UNCHANGED <<subscriptions, subscribedCount, reconcileCh, worker,
                 caller, closed, pubVars, down, removing, closeVars>>

-----------------------------------------------------------------------------
(* The worker.                                                             *)

NeedsSubscribe(s) == sub[s].desired /\ sub[s].down = 0
NeedsUnsubscribe(s) == ~sub[s].desired /\ sub[s].down # 0

NeedsCleanup(s) == ~sub[s].desired /\ sub[s].down = 0

(* Mutants: the ticker does not look for one of the reasons.               *)
NeedsReconcileNoCleanup ==
  {s \in SubId : /\ subscriptions[sub[s].track] = s
                 /\ NeedsSubscribe(s) \/ NeedsUnsubscribe(s)}
NeedsReconcileNoSubscribe ==
  {s \in SubId : /\ subscriptions[sub[s].track] = s
                 /\ NeedsUnsubscribe(s) \/ NeedsCleanup(s)}

NeedsReconcile ==
  {s \in SubId : /\ subscriptions[sub[s].track] = s
                 /\ NeedsSubscribe(s) \/ NeedsUnsubscribe(s) \/ NeedsCleanup(s)}

(* Mutant: one too many.                                                   *)
hasCapacityForOneMore ==
  subscriptionLimit = 0 \/ subscribedCount <= subscriptionLimit

hasCapacityForSubscription ==
  subscriptionLimit = 0 \/ subscribedCount < subscriptionLimit

WorkerIsFree == worker.at = "idle" /\ worker.todo = {} /\ closed = "no"

(* The ticker reconciles every subscription that needs it.                 *)
Tick ==
  /\ WorkerIsFree
  /\ NeedsReconcile # {}
  /\ worker' = [worker EXCEPT !.todo = NeedsReconcile]
  /\ UNCHANGED <<subVars, subscribedCount, reconcileCh, caller, closed,
                 pubVars, down, removing, closeVars, removals>>

(* An id is received; one without a subscription reconciles everything.    *)
Receive(id) ==
  /\ WorkerIsFree
  /\ id \in reconcileCh
  /\ reconcileCh' = reconcileCh \ {id}
  /\ worker' = [worker EXCEPT !.todo =
                  IF id # All /\ subscriptions[id] # 0 THEN {subscriptions[id]}
                                                       ELSE NeedsReconcile]
  /\ UNCHANGED <<subVars, subscribedCount, caller, closed, pubVars, down,
                 removing, closeVars, removals>>

(* reconcileSubscription(s) begins; it returns at once when closed.        *)
Reconcile(s) == worker.at = "idle" /\ s \in worker.todo /\ closed = "no"
Done(s) == worker' = [Idle EXCEPT !.todo = worker.todo \ {s}]

(* The limit, the resolution of the track or the permission fails a        *)
(* subscribe, which is tried again later.                                  *)
SubscribeFails(s) ==
  /\ Reconcile(s) /\ NeedsSubscribe(s)
  /\ \/ ~hasCapacityForSubscription \/ ~canSubscribe
     \/ published[sub[s].track] = 0 \/ sub[s].track \notin permitted
  /\ Done(s)
  /\ UNCHANGED <<subVars, subscribedCount, reconcileCh, caller, closed,
                 pubVars, down, removing, closeVars, removals>>

(* While unsubscribes are pending a subscribe is put off for a while, but  *)
(* for no longer than maxUnsubscribeWait: the other actions may be taken   *)
(* too.                                                                    *)
SubscribeWaits(s) ==
  /\ Reconcile(s) /\ NeedsSubscribe(s)
  /\ removing # {}
  /\ MayQueue(sub[s].track)
  /\ Done(s)
  /\ UNCHANGED <<subVars, subscribedCount, caller, closed, pubVars, down,
                 removing, closeVars, removals>>

(* After notFoundTimeout the subscription is given up.                     *)
SubscribeTimesOut(s) ==
  /\ Reconcile(s) /\ NeedsSubscribe(s)
  /\ canSubscribe /\ published[sub[s].track] = 0
  /\ sub' = Desired(s, FALSE)
  /\ queueReconcile(sub[s].track)
  /\ Done(s)
  /\ UNCHANGED <<subscriptions, subscribedCount, caller, closed, pubVars,
                 down, removing, closeVars, removals>>

SubscribeResolves(s) ==
  /\ Reconcile(s) /\ NeedsSubscribe(s)
  /\ hasCapacityForSubscription /\ canSubscribe
  /\ published[sub[s].track] # 0 /\ sub[s].track \in permitted
  /\ worker' = [worker EXCEPT !.at = "resolved", !.sub = s,
                              !.media = published[sub[s].track]]
  /\ UNCHANGED <<subVars, subscribedCount, reconcileCh, caller, closed,
                 pubVars, down, removing, closeVars, removals>>

unsubscribe(s) ==
  /\ Reconcile(s) /\ NeedsUnsubscribe(s)
  /\ removing' = removing \cup {<<sub[s].track, down[sub[s].down].media>>}
  /\ Done(s)
  /\ UNCHANGED <<subVars, subscribedCount, reconcileCh, caller, closed,
                 pubVars, down, closeVars, removals>>

(* The map entry of the object's track goes, whichever object it holds.    *)
Cleanup(s) ==
  /\ Reconcile(s) /\ NeedsCleanup(s)
  /\ subscriptions' = [subscriptions EXCEPT ![sub[s].track] = 0]
  /\ Done(s)
  /\ UNCHANGED <<sub, subscribedCount, reconcileCh, caller, closed, pubVars,
                 down, removing, closeVars, removals>>

NothingToDo(s) ==
  /\ Reconcile(s)
  /\ sub[s].desired /\ sub[s].down # 0
  /\ Done(s)
  /\ UNCHANGED <<subVars, subscribedCount, reconcileCh, caller, closed,
                 pubVars, down, removing, closeVars, removals>>

(* MediaTrackReceiver.AddSubscriber fails: the MediaTrack has closed since *)
(* it was resolved, has no receiver, or no transceiver could be added.     *)
AddSubscriberFails ==
  /\ worker.at \in {"resolved", "adding"}
  /\ \/ /\ worker.at = "resolved"
        /\ worker.media # published[sub[worker.sub].track]
        /\ UNCHANGED changes
     \/ changes < MaxChanges /\ changes' = changes + 1
  /\ Done(worker.sub)
  /\ UNCHANGED <<subVars, subscribedCount, reconcileCh, caller, closed,
                 published, permitted, canSubscribe, subscriptionLimit,
                 down, removing, closeVars, removals>>

AddSubscriberFindsOne ==
  LET t == sub[worker.sub].track IN
  /\ worker.at = "resolved"
  /\ worker.media = published[t] /\ getSubscribedTrack(t, worker.media) # {}
  /\ Done(worker.sub)
  /\ UNCHANGED <<subVars, subscribedCount, reconcileCh, caller, closed,
                 pubVars, down, removing, closeVars, removals>>

AddSubscriberBegins ==
  LET t == sub[worker.sub].track IN
  /\ worker.at = "resolved"
  /\ worker.media = published[t] /\ getSubscribedTrack(t, worker.media) = {}
  /\ worker' = [worker EXCEPT !.at = "adding"]
  /\ UNCHANGED <<subVars, subscribedCount, reconcileCh, caller, closed,
                 pubVars, down, removing, closeVars, removals>>

(* The MediaTrack's table gets the new down track, also when the           *)
(* MediaTrack has closed in the meantime.                                  *)
AddSubscriber(d) ==
  /\ worker.at = "adding"
  /\ d = Min(FreeDowns)
  /\ down' = [down EXCEPT ![d] =
                [track |-> sub[worker.sub].track, media |-> worker.media,
                 sub |-> worker.sub, open |-> TRUE, onClose |-> FALSE]]
  /\ worker' = [worker EXCEPT !.at = "added", !.down = d]
  /\ UNCHANGED <<subVars, subscribedCount, reconcileCh, caller, closed,
                 pubVars, removing, closeVars, removals>>

(* Mutants: a MediaTrack that closed while the subscriber was added is not *)
(* noticed, or its subscriber is not removed.                              *)
AddSubscriberEndsUnchecked ==
  /\ worker.at = "added"
  /\ worker' = [worker EXCEPT !.at = "checked"]
  /\ UNCHANGED <<subVars, subscribedCount, reconcileCh, caller, closed,
                 pubVars, down, removing, closeVars, removals>>
AddSubscriberGivesUp ==
  /\ worker.at = "added"
  /\ worker.media # published[sub[worker.sub].track]
  /\ Done(worker.sub)
  /\ UNCHANGED <<subVars, subscribedCount, reconcileCh, caller, closed,
                 pubVars, down, removing, closeVars, removals>>

AddSubscriberEnds ==
  /\ worker.at = "added"
  /\ worker.media = published[sub[worker.sub].track]
  /\ worker' = [worker EXCEPT !.at = "checked"]
  /\ UNCHANGED <<subVars, subscribedCount, reconcileCh, caller, closed,
                 pubVars, down, removing, closeVars, removals>>

(* The MediaTrack has closed while the subscriber was added: the new down  *)
(* track is closed on a goroutine, and nobody is told.                     *)
AddSubscriberUndone ==
  /\ worker.at = "added"
  /\ worker.media # published[sub[worker.sub].track]
  /\ flushing' = flushing \cup
                   getSubscribedTrack(sub[worker.sub].track, worker.media)
  /\ Done(worker.sub)
  /\ UNCHANGED <<subVars, subscribedCount, reconcileCh, caller, closed,
                 pubVars, down, removing, closeCallbacks, releasing,
                 removals>>

(* Mutant: the callback is not installed.                                  *)
OnCloseForgotten ==
  /\ worker.at = "checked"
  /\ worker' = [worker EXCEPT !.at = "hooked"]
  /\ UNCHANGED <<subVars, subscribedCount, reconcileCh, caller, closed,
                 pubVars, down, removing, closeVars, removals>>

OnClose ==
  /\ worker.at = "checked"
  /\ down' = [down EXCEPT ![worker.down].onClose = TRUE]
  /\ worker' = [worker EXCEPT !.at = "hooked"]
  /\ UNCHANGED <<subVars, subscribedCount, reconcileCh, caller, closed,
                 pubVars, removing, closeVars, removals>>

setSubscribedTrack ==
  /\ worker.at = "hooked"
  /\ sub' = [sub EXCEPT ![worker.sub].down = worker.down]
  /\ worker' = [worker EXCEPT !.at = "set"]
  /\ UNCHANGED <<subscriptions, subscribedCount, reconcileCh, caller,
                 closed, pubVars, down, removing, closeVars, removals>>

CountSubscribed ==
  /\ worker.at = "set"
  /\ subscribedCount' = subscribedCount + 1
  /\ Done(worker.sub)
  /\ UNCHANGED <<subVars, reconcileCh, caller, closed, pubVars, down,
                 removing, closeVars, removals>>

reconcileWorker ==
  \/ \E id \in Track \cup {All} : Receive(id)
  \/ \E s \in SubId :
       \/ SubscribeWaits(s) \/ SubscribeFails(s) \/ SubscribeTimesOut(s)
       \/ SubscribeResolves(s)
       \/ unsubscribe(s) \/ Cleanup(s) \/ NothingToDo(s)
  \/ AddSubscriberFails \/ AddSubscriberFindsOne \/ AddSubscriberBegins
  \/ \E d \in FreeDowns : AddSubscriber(d)
  \/ AddSubscriberEnds \/ AddSubscriberUndone
  \/ OnClose \/ setSubscribedTrack \/ CountSubscribed

-----------------------------------------------------------------------------
(* Goroutines that close down tracks.                                      *)

(* Mutant: a subscriber that is not there is closed nonetheless.           *)
RemoveSubscriberUnchecked(t, m) ==
  /\ <<t, m>> \in removing
  /\ removing' = removing \ {<<t, m>>}
  /\ flushing' = flushing \cup (IF getSubscribedTrack(t, m) = {} THEN {0}
                               ELSE getSubscribedTrack(t, m))
  /\ UNCHANGED <<subVars, subscribedCount, reconcileCh, worker, caller,
                 closed, pubVars, down, closeCallbacks, releasing,
                 removals>>

RemoveSubscriber(t, m) ==
  /\ <<t, m>> \in removing
  /\ removing' = removing \ {<<t, m>>}
  /\ flushing' = flushing \cup getSubscribedTrack(t, m)
  /\ UNCHANGED <<subVars, subscribedCount, reconcileCh, worker, caller,
                 closed, pubVars, down, closeCallbacks, releasing,
                 removals>>

(* The first close of a down track takes it out of its MediaTrack's table  *)
(* and starts the callback installed by then.                              *)
CloseWithFlush(d) ==
  /\ d \in flushing
  /\ flushing' = flushing \ {d}
  /\ IF down[d].open
       THEN /\ down' = [down EXCEPT ![d].open = FALSE]
            /\ closeCallbacks' =
                 closeCallbacks \cup (IF down[d].onClose THEN {d} ELSE {})
       ELSE UNCHANGED <<down, closeCallbacks>>
  /\ UNCHANGED <<subVars, subscribedCount, reconcileCh, worker, caller,
                 closed, pubVars, removing, releasing, removals>>

(* The callback finds nothing to do when it runs before the worker has     *)
(* handed the down track to the subscription.                              *)
handleSubscribedTrackClose(d) ==
  LET s == down[d].sub IN
  /\ d \in closeCallbacks
  /\ closeCallbacks' = closeCallbacks \ {d}
  /\ IF sub[s].down = 0
       THEN UNCHANGED <<sub, releasing>>
       ELSE /\ sub' = [sub EXCEPT ![s].down = 0]
            /\ releasing' = releasing \cup {d}
  /\ UNCHANGED <<subscriptions, subscribedCount, reconcileCh, worker,
                 caller, closed, pubVars, down, removing, flushing,
                 removals>>

CountReleased(d) ==
  LET relieved == subscriptionLimit > 0 /\ subscribedCount = subscriptionLimit IN
  /\ d \in releasing
  /\ releasing' = releasing \ {d}
  /\ subscribedCount' = subscribedCount - 1
  /\ queueReconcile(IF relieved THEN All ELSE down[d].track)
  /\ down' = [down EXCEPT ![d] = NoDown]
  /\ UNCHANGED <<subVars, worker, caller, closed, pubVars, removing,
                 flushing, closeCallbacks, removals>>

(* Close stops the worker, waits for it and closes what is subscribed.     *)
CloseBegins ==
  /\ closed = "no"
  /\ closed' = "closing"
  /\ UNCHANGED <<subVars, subscribedCount, reconcileCh, worker, caller,
                 pubVars, down, removing, closeVars, removals>>

CloseEnds ==
  /\ closed = "closing" /\ worker.at = "idle"
  /\ closed' = "done"
  /\ worker' = Idle
  /\ sub' = [s \in SubId |-> IF s \in GetSubscribedTracks
                               THEN [sub[s] EXCEPT !.desired = FALSE]
                               ELSE sub[s]]
  /\ flushing' = flushing \cup {sub[s].down : s \in GetSubscribedTracks}
  /\ UNCHANGED <<subscriptions, subscribedCount, reconcileCh, caller,
                 pubVars, down, removing, closeCallbacks, releasing,
                 removals>>

Next ==
  \/ \E t \in Track :
       \/ SubscribeExisting(t) \/ UnsubscribeFromTrack(t)
       \/ UpdateSubscribedTrackSettings(t)
       \/ Publish(t) \/ Unpublish(t) \/ GrantPermission(t) \/ RevokePermission(t)
       \/ handleSourceTrackRemoved(t)
       \/ \E c \in Caller : SubscribeFindsNone(c, t)
  \/ \E c \in Caller : SubscribeCreates(c) \/ SubscribeDesires(c)
  \/ ClearAllSubscriptions \/ AllowSubscribe \/ DisallowSubscribe
  \/ Tick \/ reconcileWorker
  \/ \E tm \in removing : RemoveSubscriber(tm[1], tm[2])
  \/ \E d \in DownId :
       CloseWithFlush(d) \/ handleSubscribedTrackClose(d) \/ CountReleased(d)
  \/ CloseBegins \/ CloseEnds

Spec == Init /\ [][Next]_vars

(* Goroutines get to run.  Go's select picks among its ready cases at      *)
(* random, so the ticker is served in the end however busy the channel is. *)
FairSpec ==
  /\ Spec
  /\ WF_vars(reconcileWorker) /\ SF_vars(Tick)
  /\ WF_vars(\E tm \in removing : RemoveSubscriber(tm[1], tm[2]))
  /\ \A d \in DownId : /\ WF_vars(CloseWithFlush(d))
                       /\ WF_vars(handleSubscribedTrackClose(d) \/ CountReleased(d))
  /\ WF_vars(CloseEnds)

-----------------------------------------------------------------------------

(* The participant never receives more tracks than its limit allows, but   *)
(* for those that are being closed: the counter the worker compares with   *)
(* the limit (line 702) never falls behind, however calls race, down       *)
(* tracks close while they are installed and their closing is counted late.*)
OpenWithinLimit ==
  subscriptionLimit > 0 =>
    Cardinality({d \in DownId : down[d].open /\ d \notin flushing})
      <= subscriptionLimit

Installing == worker.at \in {"added", "checked", "hooked"}

(* A down track that nobody is closing is in the hands of its subscription,*)
(* which will be told when it closes, or of the worker: a subscribe that   *)
(* fails leaves none behind (mediatrackreceiver.go, line 608).             *)
OpenIsHeld ==
  \A d \in DownId :
    down[d].open => \/ d \in flushing
                    \/ sub[down[d].sub].down = d
                    \/ Installing /\ worker.down = d

(* A MediaTrack that has closed keeps no subscriber: one that was added    *)
(* while it closed is removed again (mediatrackreceiver.go, line 591).     *)
NoneOnClosedTrack ==
  \A d \in DownId :
    down[d].open => \/ d \in flushing
                    \/ down[d].media = published[down[d].track]
                    \/ worker.at = "added" /\ worker.down = d

(* A down track that is its subscription's when it is asked to close is    *)
(* given up by it, whichever of the callers of CloseWithFlush comes first  *)
(* (line 937).                                                             *)
Leaving(s) ==
  sub[s].down # 0 /\ down[sub[s].down].open /\ sub[s].down \in flushing
InstalledIsReleased == \A s \in SubId : Leaving(s) ~> sub[s].down = 0

(* A subscription whose down track closed while it was being installed:    *)
(* it keeps the closed down track, although the comment at line 548 says   *)
(* that it goes back to needing to subscribe.                              *)
Stuck(s) ==
  /\ sub[s].down # 0
  /\ ~down[sub[s].down].open /\ sub[s].down \notin closeCallbacks

Subscribed(s) == subscriptions[sub[s].track] = s
Unwanted(s) == Subscribed(s) /\ (~sub[s].desired \/ closed # "no")

(* What is no longer wanted is closed and forgotten, even when the channel *)
(* was full (line 652) and although closing takes three goroutines; and    *)
(* Close (line 104) closes the down tracks of every subscription, the one  *)
(* the worker was just installing included.  A subscription that is stuck  *)
(* is not forgotten, but its down track is closed.                         *)
UnsubscribedIsRemoved ==
  \A s \in SubId :
    Unwanted(s) ~>
      \/ ~Unwanted(s) \/ Stuck(s)
      \/ closed = "done" /\ \A d \in DownId : down[d].sub = s => ~down[d].open

Wanted(t) ==
  /\ closed = "no"
  /\ canSubscribe /\ published[t] # 0 /\ t \in permitted
  /\ subscriptions[t] # 0 /\ sub[subscriptions[t]].desired
  /\ ~Stuck(subscriptions[t])
  /\ hasCapacityForSubscription
Received(t) == getSubscribedTrack(t, published[t]) # {}

(* A desired track that is available, permitted and within the limit is    *)
(* received, whatever attempts failed before, and also by a participant    *)
(* whose racing calls made several subscriptions of it.                    *)
SubscribeIsHonoured == \A t \in Track : Wanted(t) ~> Received(t) \/ ~Wanted(t)

=============================================================================
