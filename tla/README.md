# Verification of the HubLive server

HubLive streams screens over WebRTC: a capture agent publishes, a Go server
(`SERVER/`, a selective forwarding unit) forwards, a browser watches. This
directory holds TLA+ models of the server's core, the TLC configurations that
check them on small instances, and TLAPS proofs of the properties that matter
most for every size. `PROJECT.json` maps each definition to the lines it
models. Paths below are relative to `SERVER/pkg/`; `SM` is
`rtc/subscriptionmanager.go`.

## 1. Inventory

### The core: one participant's signalling and subscriptions

A participant has up to two peer connections, each wrapped by a `PCTransport`,
and one `SubscriptionManager`. When a subscription changes, the manager adds or
removes a down track on the subscriber peer connection, which asks that
connection's transport to negotiate; the transport offers the new set of tracks
to the client over the signal connection and applies the client's answer.

| Component | State | Operations | Concurrency | What makes it correct |
|---|---|---|---|---|
| `OpsQueue` (`utils/opsqueue.go`) | deque, wake channel of capacity one, started and stopped flags, done channel | `Start`, `Stop`, `Enqueue`, `process` | any number of callers, one worker | serial execution in order, no lost wakeup, `Stop` releases its waiter, flush on stop |
| `PCTransport`, offering side (`rtc/transport*.go`) | negotiation state (none, remote, retry), pending restart flags, debounce timer, negotiation timer with a version, the peer connection | `Negotiate`, `ICERestart`, `HandleRemoteDescription`, `Close`, event handlers | callers, two kinds of timer goroutines, pion callbacks, one event worker (an `OpsQueue`) | every requested change is offered, every negotiation ends, the state machine agrees with the peer connection, offers and answers stay paired |
| `PCTransport`, answering side | deferred offer of an ICE restart, current ICE credentials, candidate caches | the same handlers for remote offers | the same | every remote offer is answered, no candidate is lost or applied too early |
| `TransportManager` (`rtc/transportmanager.go`) | the two transports, failure counts, ICE configuration, pending data messages | selection of the ICE policy, routing of messages | callers and transport callbacks | the policy only degrades for a reason; messages go to a live channel |
| `SubscriptionManager`, media (`SM`) | map of subscription objects, counters, publishers' marks, reconcile channel | `SubscribeToTrack`, `UnsubscribeFromTrack`, settings, `ReconcileAll`, `ClearAllSubscriptions`, `Close`, the reconcile worker | callers, one worker, the goroutines that close down tracks, observers | wanted tracks are served, unwanted ones closed, the limit holds, nothing open is forgotten |
| `SubscriptionManager`, data tracks | a second map, the handles sent to the client | the same for data tracks | the same | the same, and the client's handles are live |
| `MediaTrackSubscriptions`, `SubscribedTrack`, `DownTrack` | the publisher's table of subscribers, bound and closed flags, close callbacks | add, remove, close | the publisher's and the subscriber's goroutines | one subscriber entry per participant; every close is reported once |
| `DataTrack`, `DataDownTrack`, `UpDataTrackManager` | subscribers by participant | add, remove, close | the same | no packet to a participant without a subscription |
| `RoomTrackManager`, `ChangeNotifier` | tracks by id, observers by key | add and remove track, observe, notify | notifications run on goroutines | an observer that is needed is not removed late |
| `MediaTrack`, `MediaTrackReceiver` | life cycle open, closing, closed; receivers per codec; potential subscribers | `SetupReceiver`, `AddSubscriber`, `Close`, `RevokeDisallowedSubscribers` | publishers, subscribers | nothing subscribes to a closed track for good |
| `ParticipantImpl` (`rtc/participant*.go`) | participant state, publications pending and done, permissions, migration state | join, publish, unpublish, `SetPermission`, `Close`, migration | client messages, timers, room | states only advance, pending publications resolve, `Close` releases everything |
| `Room` (`rtc/room.go`) | participants by identity and id, hold count, batched updates | `Join`, `ResumeParticipant`, `RemoveParticipant`, `CloseIfEmpty`, `Close` | sessions, janitor, participant callbacks | an identity has one session; updates arrive in version order; an occupied room is not closed |
| Room manager, allocator, stores (`service/`, `store/`) | rooms by name, the room lock with a token and an expiry | start session, delete room, lock | sessions on several nodes | one room per name; the lock excludes |
| Routing and signal relay (`routing/`, `transport/`) | bounded message channels, sequence numbers per stream | write, close, retry | two nodes | in-order delivery without loss or a close |
| Agents (`agent/`, `service/agentservice.go`) | workers, load, running jobs, pending assignments | register, assign, time out, drain | workers over web sockets | a job is assigned once |
| RTP path (`sfu/`): `RTPMunger`, `Sequencer`, `RangeMap`, codec mungers | 16- and 32-bit counters, offset tables, a ring of sent packets | translate, drop, pad, look up a NACK | a forwarding goroutine per layer, padding on another | no number is used twice or skipped for nothing; a NACK gets the packet that had the number |
| Stream tracker, stream allocator, prober, dynacast, supervisor | small event-driven state machines with timers | see the sources | timers, workers | a status or a probe of an earlier generation is ignored |
| Bandwidth estimation, connection quality, buffer and RTP statistics, telemetry | floating-point windows | calculations | - | numerical, outside this project |

`PROJECT.json` lists every component with what is modelled of it, the unmodelled
ones with the reason. Modelled, wholly or in part, are: `OpsQueue`; both sides of
`PCTransport`; the `SubscriptionManager` with what it calls of
`MediaTrackSubscriptions`, `SubscribedTrack`, `DownTrack`, `DataTrack`,
`RoomTrackManager` and `ChangeNotifier`; the room manager, `Room` and
`ParticipantImpl` as far as sessions and publishing go; `MediaTrack`,
`MediaTrackReceiver` and `UpTrackManager`; and, of the RTP path, the numbering of
packets in `Forwarder`, `RTPMunger`, `RangeMap` and `Sequencer`.

### The hard behaviours

- *Interleaving*: a caller, a timer goroutine and the worker all touch the
  debounce and negotiation timers; callers and the reconcile worker share the
  subscription objects under locks that are released between check and use.
- *Ordering*: an ICE restart has to wait for gathering, or overtakes the answer
  to an earlier offer; a down track's close, its callback and the publisher's
  bookkeeping run on three goroutines.
- *Lost messages*: the signal connection may be lost with an offer or an answer
  in flight; only the restart that follows a resume repairs it.
- *Partial failure*: each step of starting a session may fail after earlier ones
  have put the session or the room where others find them.
- *Late callbacks*: close, state and permission callbacks run after the object they
  speak of has been replaced under the same name.
- *Limits*: the wake channel holds one token, the reconcile channels drop
  requests when they are full, subscriptions are limited by kind.
- *Liveness*: an accepted operation runs, a requested change is offered, a wanted
  track is served, an idle room closes, `Stop` and `Close` come back.

The list under `hazards` in `PROJECT.json` names each of them at its line, with the
properties that would catch it, or the reason why none does yet.

## 2. Modules and how they correspond to the code

### `SerialExecutor` and `OpsQueue` (`utils/opsqueue.go`)

`OpsQueue` has one action per call and per step of the worker between two
acquisitions of the lock: `Wake` is the receive from the wake channel, `Return`,
`GoBackToSleep` and `PopFront` are the three outcomes of the critical section at
lines 141 to 152, `RunCompletes` the end of the operation run outside the lock.
`pc` is the worker's position (`none` before `Start`, `done` when the done channel
is closed). `accepted` and `executed` are history variables. `flushOnStop` is
chosen in `Init`, since both settings are in use.

`SerialExecutor` says what owners of a queue rely on, without deque, channel or
worker: operations are accepted until `Stop`, run one by one in the order of
acceptance, and do run unless the queue was stopped without `FlushOnStop`.
`OpsQueue` is shown to implement it (`ImplementsSerialExecutor`): the executor has
started when the worker exists, and has accepted what ran followed by what the
deque still holds (`accepted <- executed \o ops`).

### `Negotiation` (`rtc/transport.go`, `transport_negotiation.go`, `transport_ice.go`)

The offering transport. Handlers that the event worker runs (`handleSendOffer`,
`handleRemoteAnswerReceived`, `handleICERestart`, `handleICEGatheringComplete`)
are one action each, because the queue runs them one at a time, which is what
`OpsQueue` establishes. What happens beside the worker has actions of its own:
`Negotiate` with and without force, the debounce timer firing and its callback
running (`DebounceFires`, `DebounceCallback`), the negotiation timer expiring and
its callback running (`SignalStateCheckTimerExpires`,
`SignalStateCheckTimerCallback`), pion's callbacks, the client's answer, and the
two halves of `Close`. `Resume` is the loss of the signal connection with
everything in flight, followed by `Room.ResumeParticipant`, which posts a restart.

Abstractions: a description is a generation number, an answer names the
generation it answers; offer and answer ids only produce log lines and are left
out; local candidates are cached and flushed inside one event and are left out.
A caller or a timer that has released the lock and has yet to post its event counts in
`posting`. `unoffered` is a history variable: a change was requested that no offer
contains. With `Errors`, pion may refuse to create an offer or to set a description, at
every place where the code checks for it, and writing to the signal connection may fail;
an answer may also be applied and its handler fail afterwards (a cached candidate, a
sender), which leaves the peer connection stable and the negotiation state behind.
`failed` has the reasons for which `OnNegotiationFailed` was called: the properties say
which state each of them may leave, and which it may not.

### `Answering` (the same files, the publisher's transport)

The client's offers, answered one at a time by the event worker, while pion gathers
candidates beside it. An offer is its id together with its ICE credential, which
grows when the client restarts ICE; the candidates of one ICE session are one
candidate, named like its credential. `DeferOffer` and `AcceptOffer` are the two ways
of `handleRemoteOfferReceived`; the worker reads the gathering state directly
(`IsGathering`) but hears of its end through the queue, which is what makes a deferred
offer and a newer one cross. `answers` is what the client received, with the offer
that was really applied as a ghost field. The client is external and may have up to
`MaxOutstanding` offers unanswered, as the code expects
(`transport_negotiation.go:991`): an offer that is put off can then be overtaken by a
later one (`Overtaken`).

### `SubscriptionManager` (`SM`, with `mediatracksubscriptions.go`, `downtrack.go`, `roomtrackmanager.go`)

`sub` holds subscription objects and `subscriptions` the map from tracks to them,
so that two objects for one track (an overwritten map entry) can be told apart.
`SubscribeToTrack` is the three critical sections of the code (`SubscribeFindsNone`,
`SubscribeCreates`, `SubscribeDesires`), and what other callers do may come in between. The
worker's subscribe is split where other goroutines can come in: resolved, about to be
added, added to the publisher's table, checked once more, close callback installed,
subscribed track installed, counted. A publication has a number (`published`), since a
track that is published again is a new `MediaTrack` with a table of its own; when it closes while
a subscriber is added to it, the subscriber is inserted and taken out again, and the attempt
fails. `removing`, `flushing`, `closeCallbacks`, `releasing` and `removals` are the goroutines
that have been started and have not run; a down track may close at any moment, also before
its callback is installed (`Stuck` is what becomes of its subscription).

Abstractions: tracks are of one kind and there is one limit, chosen in `Init`;
whether a down track is bound only decides which error is reported; a failed bind is
a call of `UnsubscribeFromTrack`; back-off times only decide when an attempt is made,
and an attempt may be made at any time; `reconcileCh` is a set, as the order of
requests and a duplicate make no difference to a worker that looks at the object. The
synchronous path of one-shot signalling is not modelled.

### `DataTrackSubscription` (`SM`, with `datatrack.go`, `changenotifier.go`, `roomtrackmanager.go`)

The data track half. Here observers are state (`observers`, `notified`,
`unobserving`), because nothing else reports that a source has gone. Subscriptions are
objects, as in `SubscriptionManager`, and `SubscribeToDataTrack` is its three critical sections;
the worker resolves, fetches the notifier, observes, adds the subscriber, sets the down track and
marks the publisher in separate steps. A worker at `locked` waits for a lock it
holds. A published data track has a fresh id, so a track goes none, open, closed, removed and
never back. `Overwritten` is a down track whose object a racing call has taken out of the map.

### `Session` (`service/roommanager.go`, `roomallocator.go`, `rtc/room.go`, `participant.go`)

One room name and one identity. Each call of `StartSession` is a process, with a
position for every place where it holds no lock: room looked up, created, inserted,
held; the earlier session of the identity resumed or evicted; the new one made,
joined, and handed to `rtcSessionWorker`, which is a process of its own. The call
brings a connection, and the session it creates has its number, so that a session
and its successor are told apart where the code goes by identity. Room objects go
from open through the steps of `Close` to closed; the manager's entry (`rooms`) may
name another object by then. `connected` has the sessions that were active once
(`HasConnected`), which decides whether a lost signal connection ends a session.
`callbacks`, `removing` and `closer` are the goroutines under way. Every step that can fail in the code may fail here. Faults and
requests from outside (`Event`) are bounded; the rest is not. The records in the
store, topics on the message bus and messages to the client are left out: what they
can do is fail.

### `Publishing` (`rtc/participant_publisher.go`, `uptrackmanager.go`, `mediatrack*.go`)

The client publishes one track over and over under one client id: this is where
requests queue behind the track before them. Media `m` is the `m`-th remote track,
handled by a goroutine of its own (`pc`), and the `MediaTrack` it creates. A track
is closed by its receivers, by a revoked permission, by the check at the end of
`onMediaTrack` or by the participant's `Close`; each of them is a process in
`closers`, because they run concurrently and meet in `TryClose`. Taking the receiver out
(`ClearReceiver`) and removing the subscribers (`removeAllSubscribersForMime`) are two
steps, and the removal only starts a goroutine that flushes the down track and takes it out of
the table (`CloseWithFlush`). `lock` is `pendingTracksLock` where it is held across steps.
`AddSubscriber` is three steps: check, insert, check again. `AddReceiver` may fail as
the code does: the transport has no buffers for the media any more, the layer or the codec is
not the track's, the layer has a receiver already, or the buffer cannot be bound; and media
may come before its transceiver has a mid. A behaviour has one disturbance (a revocation, a
`Close`, or one such fault), and the client waits for its request to be granted, sends media
early, or publishes a single track with a subscriber (`scenario`).

### `RangeMap` and `Forwarding` (`sfu/utils/rangemap.go`, `rtpmunger.go`, `forwarder.go`, `sequencer.go`, `downtrack.go`)

`RangeMap` is the map as a sequence of ranges and its operations as operators.
`Forwarding` is one down track: a goroutine for each layer and one for padding. A
packet is its layer and its extended sequence number, and may be lost, late or out of
order. The selectors' and codec mungers' decisions are choices: a packet in order is
sent (`Forward`), translated and not sent (`Waste`), filtered by its temporal layer
(`Filter`), excluded because it has no payload (`Exclude`), or rejected although it is
relevant (`Reject`); a late one is sent with the number kept for it (`Late`) or dropped
(`TooLate`). Padding that the munger refuses because the last packet ends no frame
changes nothing and is no step. `kind` restricts the choices to what the code can do for audio, simulcast,
dependency descriptors and VP9. Numbers are given under the forwarder's lock and
recorded in the sequencer later (`pending`, then `push` or `pushPadding`), in any order.
Numbers on the wire are modulo `Width`. `used`, `reserved` and `holes` are history: the
numbers sent, those kept for packets that are missing from the source, and those given
up.

## 3. Runs

| Run | Instance | Shows |
|---|---|---|
| `ops_queue` | 2 operations, 4 accepted, both settings of `FlushOnStop` | no lost wakeup, flush, `Stop` returns, and the refinement of `SerialExecutor` (order, once each) with its liveness |
| `negotiation` | 2 requests, 1 restart or resume, errors of pion and of the signal connection, `Close` | no request lost; the states agree; a deferred restart is due; requests are offered; negotiations end |
| `answering` | 5 offers, 3 outstanding | the first answer that names an offer is for that offer; an offer that arrives while ICE gathers does not restart it; every offer is answered; the candidates of every session arrive |
| `subscription_settles` | 1 track, limit 1, racing calls, 2 publications or permission changes, a channel that is always full, `Close` | open down tracks are held by a subscription, none stays on a closed `MediaTrack`; what closes is released, the unwanted removed, the wanted served; `Close` complete |
| `subscription_limits` | 2 tracks, a limit of 1 or none, racing calls, closes at any moment, a channel of 1 | never more open down tracks than the limit |
| `data_track` | 1 track, racing calls, 2 permission changes, `Close` | what the map holds is sent, the client's handles are live, the unwanted is left and the wanted subscribed |
| `session` | 2 calls, 1 room, 1 fault or request | no live session without an owner, a settled session is ended only by what is meant for it, closed sessions leave, closed rooms drain, idle rooms close |
| `publishing` | 2 requests, 2 remote tracks, a revocation, a `Close` or a fault | tracks of a client id do not overlap, a subscriber of a closed track is on the way out and does leave, the queue moves on, granted media is published, tracks close with the permission and with the participant |
| `forwarding` | 4 packets of any kind of track, numbers across the wrap (width 16), a ring of 2, 1 closed range, 2 bursts of padding, 1 stop | numbers are unique and without holes, late packets get their number, NACKs get their packet |

Three runs show a disagreement between the code and what its comments say; TLC finds
a violation, and `PROJECT.json` quotes the line under `findings`.

| Run | What happens |
|---|---|
| `session_split` | A room closes; before its `OnClose` runs, another room of the name is created and joined. `OnClose` deletes the entry by name: the new room has a session and cannot be found. |
| `publishing_early` | Media sent before its request is answered arrives while the previous track of the client id is closing and still listed: it joins that track, is refused, and is lost. |
| `data_track_lock` | The clean-up of a data track subscription calls a function that takes the lock it holds. |

### Known disagreements without a run

Found while modelling, reproducible with the module and the setting named, and not
kept as runs of their own:

- *Stale negotiation timer* (`rtc/transport_negotiation.go:691`, against the comment at
  `transport.go:241`): a timer fires, the answer arrives, a new offer is made, and
  only then does the old callback run. It clears the new offer's timer before it
  compares versions. A client that answers is not hurt (`NegotiationEnds`).
- *Older offer applied last* (`transport_negotiation.go:640`, against the warning
  "duplicate answer" at `:962`): with several offers outstanding, an offer that waits for
  gathering is applied after a newer one that was handled first, and two answers bear one id
  (`Overtaken` in `Answering`; the first answer of an id is right, which is
  `FirstAnswerIsForItsOffer`). A completion event left over from the previous gathering can
  release the offer while the next gathering runs. A client's candidates that arrive while
  its restart offer waits go to the old ICE session, which drops them
  (`transport_ice.go:510`).
- *Request lost when pion fails* (`transport_negotiation.go:778` and `:794`): when an offer
  cannot be created or set, the request is in no offer and nothing will produce one;
  `OnNegotiationFailed` is the way out. When an answer's handler fails after pion has applied it
  (`:907`, `:1081`), the state machine still waits although the peer connection is stable.
  `RequestNotLost` and `SignallingAgrees` say that only a failure that was reported does this.
- *Overwritten subscription* (`SM:173`, against `SM:535`): two calls both find no
  subscription, and the second overwrites an object whose down track may be open. The
  object is in no map, but still holds its down track and hears of its close
  (`OpenIsHeld`); the limit is kept and the track is served all the same.
- *Close during installation* (`SM:848`, against `SM:548`): a down track closes before
  its callback or the track is installed, and the subscription keeps a closed track for good
  (`Stuck`). The liveness properties except it and nothing else.
- *Overwritten data track subscription* (`SM:221`): as for media, but here the object in the
  map and the one with the down track part, and nobody unsubscribes the latter
  (`Overwritten`).
- *Forgotten data track request* (`SM:632`, against `SM:594`): a subscribe between the
  worker's unsubscribe and its delete is forgotten with the object.
- *Dropped observer* (`SM:1236`, against `SM:592`): unsubscribe and subscribe before
  the worker runs drop the observer of the source; its removal is never noticed.
- *Overlap after a revocation* (`rtc/uptrackmanager.go`, `RemovePublishedTrack`): the closer that
  a revoked permission starts deletes the track from the list by its id, after its close callback
  has let the next one in. A later track with the same id is taken off in its stead
  while it lives, and the one after it overlaps with it. It takes four requests
  and four remote tracks in `Publishing`; `TracksDoNotOverlap` is stated without a
  revocation.
- *Track without a receiver* (`rtc/mediatrack.go:297`): a track that is published while the
  participant's `Close` runs, after `UpTrackManager.Close` took its list, and whose media has no
  buffers any more gets no receiver, so that nothing closes it (`Unserved`, excepted in
  `TracksAreClosed`).
- *Resume closes a stranger's connection* (`rtc/room.go:533`): a resume that found the
  old session closes the identity's request source, which may by then belong to the
  session that has replaced it; that client reconnects.
- *VP9 after a mute* (`sfu/forwarder.go:508` and `:534`, "resync when muted so that
  sequence numbers do not jump on unmute"): the first packet of the key frame is
  relevant but not selected, so the munger takes the muted stretch for a gap. In
  `Forwarding` those numbers are `holes`.
- *Ring boundary* (`sfu/sequencer.go:283` against `:199`): `pushPadding` invalidates a slot
  one number further back than `push` would accept. It takes padding that is
  overtaken by a whole ring (`MaxOvertake` = `Size`) to violate `NacksAreServed`; the
  ring has hundreds of slots.
- *First push overtaken* (`sfu/sequencer.go:173`): when the first two packets of a track
  are recorded in the wrong order, the earlier one is never sent again. The property
  is stated from `extStartSN` on.

### Bounds and why they are enough

- `MaxAccepted` 4: the wake token matters when the queue goes from empty to one
  and again while the worker runs; four operations give every combination of a
  token left over and a queue refilled. The proofs need no bound.
- `MaxRequests` 2, `MaxRestarts` 1 (`Negotiation`): one request before and one during a
  negotiation reach the retry state; one restart meets an unanswered offer, an
  answered one, gathering, and another pending request. `Errors` is true, so that every
  call of pion may fail. The safety properties are
  proved without bounds.
- `MaxOffers` 5: a first offer, a restart that is put off, an offer that wrongly looks
  like a restart because of it, and a further pair of them. `MaxOutstanding` 3: an offer
  that waits, one that overtakes it, and one behind both.
- Tracks: one track exercises every path of one subscription, and liveness is
  stated per track; two tracks with a limit of one make them compete. One caller in the middle
  of a subscribe is enough for the races between callers, since updates of settings
  and later subscribes may come in between and need none.
  `MaxSubs` and `MaxDowns` bound the objects alive at one time, and a number is used
  again only when nothing refers to it, so behaviours are not cut off. `MaxChanges`
  bounds what publishers and moderators do, not what the subscriber asks for.
- `QueueSize` 1 and 0: a channel that is sometimes full, and one that always is, so that
  only the ticker is left (`subscription_settles`).
- `MaxCalls` 2, `MaxEvents` 1: a session and the one that resumes or replaces it, with
  one fault or request at any point. `MaxRooms` is 1 for the passing run, since a second
  room of the name meets the disagreement of `session_split`; there it is 2. The two
  safety properties and the types are proved for any number of each.
- `MaxRequests` 2, `MaxMedia` 2 (`Publishing`): a track and the next one of its client id.
  One disturbance at a time, and subscribers only of a client that publishes one track
  (`Scenario`): their closers would multiply the states and do not meet those of another
  track. The safety properties are proved for any number.
- `Forwarding`: with four packets of two layers a packet can be missing, followed by
  padding or a drop, and come late after a switch back; sequence numbers 14 to 16
  straddle the wrap of width 16; a ring of two and one closed range are full at once,
  so that everything that forgets does forget. `MaxOvertake` 1 lets another goroutine
  take a number between the two steps of one. All but `NacksAreServed`
  is proved without bounds.

Deadlock is not checked: a stopped queue, a closed transport, a closed manager, an
ended session and a track without packets really stop.

### Fairness

- *Workers* (`Process`, `Worker`, `reconcileWorker`, `CallStep`, `WorkerStep`, `MediaStep`,
  `TrackStep`): goroutines that are ready are scheduled; weak fairness.
- *The ticker of the subscription manager* (`Tick`): Go's `select` chooses at random
  among ready cases, so the ticker is served although the channel may always be ready
  too; strong fairness. *The janitor's ticker* has nothing to compete with: weak.
- *Timers and goroutines already started* (`DebounceFires`, `DebounceCallback`,
  `PostSendOffer`, `RemoveSubscriber`, `CloseWithFlush`, `handleSubscribedTrackClose`, observers,
  `SessionStep`, `RoomStep`, `AddSubscriber`, a `Close` that has begun and the transports
  it closes): they run in the end; weak fairness.
- *Gathering* (`Gatherer`, `IceGatheringCompletes`): pion bounds it by timeouts.
- *The client of the offering transport* (`ClientAnswers`, `HandleRemoteDescription`): a
  client on a live or resumed connection answers. One that never answers is the
  business of the negotiation timer, which may expire at any time and is given no
  fairness.
- Other clients, callers, publishers, failures, and the decision to close are given
  none. `Forwarding` has safety properties only.

## 4. Proofs

### `OpsQueueProofs`

For every set of operations, every bound on their number and both settings of
`FlushOnStop` (assumption: the bound is a natural number). `Fifo` and `TypeOK` are
almost inductive alone; `NoLostWakeup` is not, because the worker drains the queue
while the token stays in the channel: the invariant adds that the worker exists
exactly when the queue was started, and that a worker that has returned had to
(`done` implies `MustReturn`), which gives `FlushedWhenDone` from `Fifo`. The
theorems are `TypeCorrect`, `QueueIsFifo`, `NoWakeupIsLost`, `StopFlushes`, and
`QueueIsSerial`: every step of the queue is a step of `SerialExecutor` or leaves
its variables alone.

### `NegotiationProofs`

For any number of requests, restarts and resumed connections (assumption: the
bounds are natural numbers). The inductive invariant is the conjunction of
`TypeOK`, `SignallingAgrees`, `RequestNotLost`, `DeferredRestartIsDue` and two
strengthenings. `DebounceIsPending`: a set `debouncePending` has an armed timer or a
callback that fired; without it a debounced request that finds one pending could
rely on nothing. `ClosedInOrder`: the peer connection is closed only after the
transport; without it a callback that finds the queue stopped would lose a
request. Lemmas `HoldsAppend` and `HoldsTail` say what appending and taking an
event do to the queue; one lemma per handler and per conjunct it can disturb
leads to the step theorem. The proof covers every error of pion and of the signal connection:
the invariants name the reported reason that excuses a state, and a path that fails without
reporting would break them. Theorems: `TypeCorrect`, `StatesAgree`, `NoRequestIsLost`,
`RestartIsDue`.

### `DataTrackProofs`

For every set of data tracks, any number of racing callers, of subscription objects and of
permission changes, and every channel size. `HeldIsAttached` says of the map what the table of
the source does not know: the object in the map has a down track only while the source sends to
it. It takes `OnePerTrack` and `TodoIsOwn`: the worker never has two objects of one
track in hand, and where a racing call has replaced one that is still to be done, the new one
has no down track yet. `HandlesAreLiveOrInHand` adds that a dead handle is of the track the
worker is unsubscribing, and `ClosedIsIdle` that `Close` waits for the worker. Theorems:
`TypeCorrect`, `HeldIsAttachedSafe`, `ClientHandlesAreLive`.

### `SessionProofs`

For any number of calls, rooms, faults and requests. `NoOrphanSession` needs to know
that a session has not joined before its call asks it to (`SessionsHaveCalls`) and that
such a call has a room (`CallsHaveRooms`); lemma `RemoveKeepsTrack` is the heart:
`RemoveParticipant` takes out the session it was called for, and its caller closes it.
Theorem: `NoSessionIsOrphaned`.

How many holds a room has takes a count of calls. `HoldsAreCounted` says it is the number
of calls that are going to release the room, or one less: the hold of the call that
creates a room is asked for without the manager's lock, `Hold` refuses it when the room has
been closed by then, and the call releases it all the same. The invariant adds that calls
know only rooms that were created, each by one call (`RoomsAreCreated`), and that a call or
a worker that goes by a session has one (`SessionsAreNamed`). Theorems: `HoldsFollowCalls`
and `SessionTypes`.

`SettledSessionStays` is an action property about every step of every goroutine: callbacks,
timers, workers, evictions, resumes and closers that a replaced session has left behind. It
needs `Located`: the session in a room's map was made by its call, joined that very room and
is not being removed (`PresentIsLocated`), an active session has connected
(`ActiveIsConnected`), and whoever acts on a session acts on one that was made
(`ActedOnIsKnown`, `FoundIsKnown`). Theorem: `SettledSessionsStay`.

### `PublishingProofs`

For any number of requests, remote tracks, receivers and errors. `ClosedTrackIsLeft` is about
three steps of `AddSubscriber` against concurrent closers, one of which may mark the track closed
while another has yet to remove the subscribers. `TrackInv` says why it holds: a track gives
up its receiver only while it closes and gets no other; whoever takes the receiver out goes on to
remove the subscribers (`Going`); and a subscriber that stays was inserted before that or
leaves by its second check. `BeginInv` says that a closer runs once, `MediaInv` and `ListInv` tie
tracks to the media that made them. Theorems: `TypeCorrect`, `ClosedTracksAreLeft`.

`TracksDoNotOverlap` speaks of the life of tracks, while the code looks at the list of
published ones. `ListedInv` closes the gap: as long as the participant may publish and is
not closing, a track is closed by its receiver only, and is on the list from when it is made
until that closer takes it off, which is after it is closed. With at most one track on the
list (`OneOnList`) this gives `TracksDoNotOverlapSafe`. The attempt to prove it without
the condition failed for a good reason, see *Known disagreements*.

### `SubscriptionProofs`

For any number of tracks, racing callers, subscription objects, down tracks, publications and
failures, and any size of the channel (assumption: there is a track; limits and bounds are
natural numbers). `OpenWithinLimit` counts open down tracks, the code counts subscriptions that
have one. The invariant says how they correspond: a down track that is open, or whose
closing is still to be reported, is its subscription's or the one that the worker
installs, or is closing because its `MediaTrack` closed first (`DownsAreHeld`); no two
subscriptions have the same one (`DownsAreApart`); closing is reported after it and counted after
that (`ReportedIsClosed`); the counter is exact (`CountIsExact`); and while the worker
installs one, the place it found for it is still free (`WorkerInv`). Theorems:
`SubscriptionTypes`, `OpenIsHeldSafe`, `NoneOnClosedTrackSafe`, `OpenWithinLimitSafe`. An
injection from open down tracks to subscriptions turns the correspondence into the inequality.

### `AnsweringProofs`

For any number of offers and however many of them are out. `IInv`: credentials grow, offers are
received in the order they were made and each once, and begin at most one ICE session
each. Theorem: `AnsweringTypes`.

The worker keeps one id for the answer and one pending offer for all that are out. `OInv` says what
survives: while an offer waits, the id is its own, or that of a later offer that has been
answered (`LatestIsAnswered`), so that the first answer of an id is right; and the credential
with which offers are compared may be stale but is never ahead until an overtaken offer is
applied (`CredentialLags`), so that an offer whose credential is new is seen to be new.
Theorems: `FirstAnswersAreExact`, and the action property `OffersWaitForGathering`.

### `ForwardingProofs`

Of `RangeMap`: ranges stay in order and apart (`IsRangeMap`), so that a key has one
value; `DecKeepsOthers` and `ExcludeKeepsOthers` say what the two changes do to every key,
the pruned ones included.

Of `Forwarding`, for any number of packets, bursts and stops, any sizes of the ring and
the map, and every kind of track (assumption: the bounds are natural numbers, sizes and
first numbers not zero). The invariant relates the munger to what was sent. `NextSN` is the number that the
next packet in order would get. `Numbered`: every number sent is at most the last one,
and the next follows on it, or repeats it before the first packet. `KeptNumbers`: the
numbers kept for missing packets are smaller than the last one, different from
each other, and used by nobody but the packet they are kept for (`Fits`), and the range
map translates each missing packet it remembers into the number kept for it. One lemma per
operation of the munger says that it keeps `GoodMunger` and where `NextSN` goes; one
per action follows. Theorems: `NumbersStayUnique`, `LatePacketsFindTheirNumber`.

`NoHoles` starts from the first number sent, which is not inductive: a packet may come late
and precede all that were sent. `Covered` starts from the numbers that are kept, too. What
is accounted for only grows, and the numbers between the one that was next and the one a packet
gets are those of the packets it passes over (`PassedNumbers`). Theorem: `NoNumberIsLost`.

The sequencer is the ring in which goroutines record, in any order, what they sent. Its proof
assumes `SizeFits`: fewer numbers are given while a goroutine is between sending
and recording than the ring has slots (`MaxOvertake < Size`; with equality it is false, see *Ring
boundary*), and the ring has at most half as many slots as there are numbers on the wire
(200 or 500 by default, of 65536). `Steady` says of the ranges that later keys have greater
values and still get later slots, which `ExcludeRange` and pruning preserve (`ExcludeSteady`,
`PruneSteady`); so packets less than a ring apart have different slots. `SInv` is inductive beside `IInv`:

- `PendingIsSent`: what is about to be recorded was sent, and padding that is overtaken is
  overtaken by few;
- `GoodSequencer`, `HighestIsRecorded`: the offset is that of the open range, and the highest
  number was sent and is recorded;
- `GapsArePadding`: what the ranges leave out is padding, so that no packet is without a slot;
- `Recorded`: a recorded packet stays in its slot while it is recent; the heart of the proof,
  since `push` clears the slots between the highest number and the new one, and `pushPadding`
  those of padding that comes late;
- `SlotsAreSent`: a slot is empty or has a packet that was sent.

Theorem `NacksFindTheirPacket`. That recent packets are found (`RecentIsServed`) holds without a further
condition. That only the packet with the number is sent again does not: padding that follows on
numbers nobody has recorded moves the highest number without clearing the slots it passes over,
so that nothing but the packets that come next keeps a slot from staying as it is for a whole turn
of the numbers on the wire; the packet in it would then be taken for the one that has its number
now. `RingIsRecent` is the condition that excludes this; it holds throughout the first turn, which
is the third part of the theorem, and in the instance of run `forwarding`.

The four `TypeOK`s of `OpsQueue`, `Negotiation`, `DataTrackSubscription` and `Publishing`
are proved and are not among the runs' invariants.

### Only model-checked

Liveness, also in the refinement of `SerialExecutor`, is outside the prover. The invariants and
action properties of the passing runs are all proved, `NacksAreServed` under the condition just
named.

## 5. Not modelled

- *Numerical code*: bandwidth estimation, layer allocation by bit rate, connection quality,
  RTP statistics, jitter, timestamps. Floating point over time windows is out of TLC's
  reach, and an integer abstraction would check the abstraction.
- *Content of messages*: SDP and its munging, codec headers, metadata, the text of
  responses. Sequential transformations without state.
- *Forwarding of requests*: egress, ingress, SIP, WHIP, the HTTP front ends, telemetry.
- *Clients*: the capture agent and the dashboard; they appear as external actions.
- *Generated code and fakes*, which are a large part of the source's lines.
- *Migration* of a participant between nodes enters `ParticipantImpl`, `Publishing` and
  `Forwarding` as a start from a given state; the modules start from an empty one.

The other components without a module are in the plan.

## 6. Plan

1. *Signal relay and message channels* (`routing/`): sequence numbers, retries, close.
2. *Small machines*: supervisor, dynacast, stream tracker, prober, the store's
   lock, agent jobs, the packet deduper, data track handles modulo 2^16.
3. *Batched participant updates* of `Room`: versions in order.
4. *Migration* as further initial states of `Publishing` and `Forwarding`.
