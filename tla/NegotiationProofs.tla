------------------------- MODULE NegotiationProofs -------------------------
(***************************************************************************)
(* Proofs about module Negotiation, for any number of requests, restarts   *)
(* and resumes.                                                            *)
(***************************************************************************)
EXTENDS Negotiation, TLAPS

(* A pending debounce has a timer or a callback that will post the event.  *)
DebounceIsPending == debouncePending => debounce \/ debounceFired > 0

(* The peer connection is closed only by Close.                            *)
ClosedInOrder == pc.closed => isClosed

(* The inductive invariant.  A debounced request that finds a debounce     *)
(* pending relies on DebounceIsPending, and a callback that finds the      *)
(* queue stopped on ClosedInOrder.                                         *)
IInv ==
  /\ TypeOK
  /\ DebounceIsPending
  /\ ClosedInOrder
  /\ SignallingAgrees
  /\ RequestNotLost
  /\ DeferredRestartIsDue

-----------------------------------------------------------------------------
(* The queue of events.                                                    *)

(* An event that is appended is in the queue with all the others.          *)
LEMMA HoldsAppend ==
  ASSUME NEW q \in Seq(EventSet), NEW e \in EventSet, NEW s
  PROVE  Holds(Append(q, e), s) <=> Holds(q, s) \/ e.signal = s
<1> DEFINE a == Append(q, e)
<1>1. Len(a) = Len(q) + 1 /\ a[Len(q) + 1] = e /\ \A i \in 1..Len(q) : a[i] = q[i]
  OBVIOUS
<1>2. ASSUME Holds(a, s) PROVE Holds(q, s) \/ e.signal = s
  BY <1>1, <1>2 DEF Holds
<1>3. ASSUME Holds(q, s) PROVE Holds(a, s)
  BY <1>1, <1>3 DEF Holds
<1>4. ASSUME e.signal = s PROVE Holds(a, s)
  BY <1>1, <1>4 DEF Holds
<1> QED BY <1>2, <1>3, <1>4

(* Taking the first event loses no event with another signal.              *)
LEMMA HoldsTail ==
  ASSUME NEW q \in Seq(EventSet), q # <<>>, NEW s, Holds(q, s), Head(q).signal # s
  PROVE  Holds(Tail(q), s)
<1>1. PICK i \in 1..Len(q) : q[i].signal = s
  BY DEF Holds
<1>2. i # 1
  BY <1>1
<1>3. i - 1 \in 1..Len(Tail(q)) /\ Tail(q)[i - 1] = q[i]
  BY <1>2
<1> QED BY <1>1, <1>3 DEF Holds

-----------------------------------------------------------------------------
(* The initial state.                                                      *)

(* A new transport (NewPCTransport, a migrated session included) satisfies *)
(* the invariant.                                                          *)
LEMMA InitIInv == Init => IInv
<1> SUFFICES ASSUME Init PROVE IInv
  OBVIOUS
<1>1. pc \in PeerConnection /\ queue \in Seq(EventSet)
  BY DEF Init, PeerConnection
<1> FlagsOK
  BY DEF Init, FlagsOK
<1> TypeOK
  BY <1>1 DEF Init, TypeOK
<1>2. DebounceIsPending /\ ClosedInOrder /\ SignallingAgrees
  BY DEF Init, DebounceIsPending, ClosedInOrder, SignallingAgrees
<1>3. RequestNotLost /\ DeferredRestartIsDue
  BY DEF Init, RequestNotLost, DeferredRestartIsDue
<1> QED BY <1>2, <1>3 DEF IInv

-----------------------------------------------------------------------------
(* The steps outside of the worker.                                        *)

(* postEvent keeps the queue typed and every event in it, so a step that   *)
(* only posts keeps whatever was due.                                      *)
LEMMA PostKeeps ==
  ASSUME TypeOK, NEW e \in EventSet, queue' = Append(queue, e)
  PROVE  /\ queue' \in Seq(EventSet)
         /\ \A s : Queued(s)' <=> Queued(s) \/ e.signal = s
<1>1. queue \in Seq(EventSet)
  BY DEF TypeOK
<1>2. queue' \in Seq(EventSet)
  BY <1>1
<1>3. \A s : Holds(queue', s) <=> Holds(queue, s) \/ e.signal = s
  BY <1>1, HoldsAppend, Zenon
<1> QED BY <1>2, <1>3 DEF Queued

(* The events that the handlers, timers and callers post are typed.        *)
LEMMA EventTyped ==
  \A s \in Signal, d \in Nat : Event(s, d) \in EventSet /\ Event(s, d).signal = s
BY DEF Event, EventSet

(* Negotiate(true) keeps the invariant: it cancels the debounced callback  *)
(* only together with going to post the event itself.                      *)
LEMMA NegotiateForceIInv == IInv /\ NegotiateForce => IInv'
<1> SUFFICES ASSUME IInv, NegotiateForce PROVE IInv'
  OBVIOUS
<1>2. FlagsOK'
  BY DEF IInv, TypeOK, FlagsOK, NegotiateForce, restartVars
<1>3. TypeOK'
  BY <1>2 DEF IInv, TypeOK, NegotiateForce, timerVars
<1>4. DebounceIsPending' /\ ClosedInOrder' /\ SignallingAgrees'
  BY DEF IInv, TypeOK, DebounceIsPending, ClosedInOrder, SignallingAgrees,
         NegotiateForce
<1>5. RequestNotLost' /\ DeferredRestartIsDue'
  BY DEF IInv, TypeOK, RequestNotLost, DeferredRestartIsDue, NegotiateForce,
         restartVars, Queued
<1> QED BY <1>3, <1>4, <1>5 DEF IInv

(* Negotiate(false) keeps the invariant: when it does not arm the timer, a *)
(* pending callback will still post.                                       *)
LEMMA NegotiateDebouncedIInv == IInv /\ NegotiateDebounced => IInv'
<1> SUFFICES ASSUME IInv, NegotiateDebounced PROVE IInv'
  OBVIOUS
<1>2. FlagsOK'
  BY DEF IInv, TypeOK, FlagsOK, NegotiateDebounced, restartVars
<1>3. TypeOK'
  BY <1>2 DEF IInv, TypeOK, NegotiateDebounced, timerVars
<1>4. DebounceIsPending' /\ ClosedInOrder' /\ SignallingAgrees'
  BY DEF IInv, TypeOK, DebounceIsPending, ClosedInOrder, SignallingAgrees,
         NegotiateDebounced
<1>5. RequestNotLost' /\ DeferredRestartIsDue'
  BY DEF IInv, RequestNotLost, DeferredRestartIsDue, NegotiateDebounced, restartVars,
         DebounceIsPending, Queued
<1> QED BY <1>3, <1>4, <1>5 DEF IInv

(* The expiry of the debounce timer keeps the invariant: the armed         *)
(* callback becomes a running one.                                         *)
LEMMA DebounceFiresIInv == IInv /\ DebounceFires => IInv'
<1> SUFFICES ASSUME IInv, DebounceFires PROVE IInv'
  OBVIOUS
<1>2. FlagsOK'
  BY DEF IInv, TypeOK, FlagsOK, DebounceFires, restartVars
<1>3. TypeOK'
  BY <1>2 DEF IInv, TypeOK, DebounceFires, timerVars, bounds
<1>4. DebounceIsPending' /\ ClosedInOrder' /\ SignallingAgrees'
  BY DEF IInv, TypeOK, DebounceIsPending, ClosedInOrder, SignallingAgrees,
         DebounceFires
<1>5. RequestNotLost' /\ DeferredRestartIsDue'
  BY DEF IInv, TypeOK, RequestNotLost, DeferredRestartIsDue, DebounceFires,
         restartVars, Queued
<1> QED BY <1>3, <1>4, <1>5 DEF IInv

(* ICERestart keeps the invariant: it only posts.                          *)
LEMMA ICERestartIInv == IInv /\ ICERestart => IInv'
<1> SUFFICES ASSUME IInv, ICERestart PROVE IInv'
  OBVIOUS
<1>1. queue' \in Seq(EventSet) /\ \A s : Queued(s)' <=> Queued(s) \/ "iceRestart" = s
  BY EventTyped, PostKeeps DEF IInv, ICERestart, postEvent, Signal
<1>2. FlagsOK'
  BY DEF IInv, TypeOK, FlagsOK, ICERestart, restartVars, callerVars
<1>3. TypeOK'
  BY <1>1, <1>2 DEF IInv, TypeOK, ICERestart, timerVars, callerVars
<1>4. DebounceIsPending' /\ ClosedInOrder' /\ SignallingAgrees'
  BY DEF IInv, TypeOK, DebounceIsPending, ClosedInOrder, SignallingAgrees,
         ICERestart, callerVars
<1>5. RequestNotLost' /\ DeferredRestartIsDue'
  BY <1>1 DEF IInv, RequestNotLost, DeferredRestartIsDue, ICERestart, restartVars,
         callerVars, callerVars
<1> QED BY <1>3, <1>4, <1>5 DEF IInv

(* A resumed signal connection keeps the invariant: the descriptions in    *)
(* flight are lost and a restart is posted.                                *)
LEMMA ResumeIInv == IInv /\ Resume => IInv'
<1> SUFFICES ASSUME IInv, Resume PROVE IInv'
  OBVIOUS
<1>1. queue' \in Seq(EventSet) /\ \A s : Queued(s)' <=> Queued(s) \/ "iceRestart" = s
  BY EventTyped, PostKeeps DEF IInv, Resume, postEvent, Signal
<1>2. FlagsOK'
  BY DEF IInv, TypeOK, FlagsOK, Resume, restartVars, callerVars
<1>3. TypeOK'
  BY <1>1, <1>2 DEF IInv, TypeOK, Resume, timerVars, callerVars
<1>4. DebounceIsPending' /\ ClosedInOrder' /\ SignallingAgrees'
  BY DEF IInv, TypeOK, DebounceIsPending, ClosedInOrder, SignallingAgrees,
         Resume, callerVars
<1>5. RequestNotLost' /\ DeferredRestartIsDue'
  BY <1>1 DEF IInv, RequestNotLost, DeferredRestartIsDue, Resume, restartVars,
         callerVars, callerVars
<1> QED BY <1>3, <1>4, <1>5 DEF IInv

(* Setting isClosed at the start of Close keeps the invariant.             *)
LEMMA CloseBeginsIInv == IInv /\ CloseBegins => IInv'
<1> SUFFICES ASSUME IInv, CloseBegins PROVE IInv'
  OBVIOUS
<1>2. FlagsOK'
  BY DEF IInv, TypeOK, FlagsOK, CloseBegins, restartVars, callerVars
<1>3. TypeOK'
  BY <1>2 DEF IInv, TypeOK, CloseBegins, timerVars, callerVars, bounds
<1>4. DebounceIsPending' /\ ClosedInOrder' /\ SignallingAgrees'
  BY DEF IInv, TypeOK, DebounceIsPending, ClosedInOrder, SignallingAgrees,
         CloseBegins, callerVars
<1>5. RequestNotLost' /\ DeferredRestartIsDue'
  BY DEF IInv, RequestNotLost, DeferredRestartIsDue, CloseBegins, restartVars, callerVars, Queued
<1> QED BY <1>3, <1>4, <1>5 DEF IInv

(* The expiry of the negotiation timeout keeps the invariant: the version  *)
(* that fired is that of an offer that was made.                           *)
LEMMA SignalStateCheckTimerExpiresIInv == IInv /\ SignalStateCheckTimerExpires => IInv'
<1> SUFFICES ASSUME IInv, SignalStateCheckTimerExpires PROVE IInv'
  OBVIOUS
<1>2. FlagsOK'
  BY DEF IInv, TypeOK, FlagsOK, SignalStateCheckTimerExpires, restartVars, callerVars
<1>3. TypeOK'
  BY <1>2 DEF IInv, TypeOK, SignalStateCheckTimerExpires, callerVars, bounds
<1>4. DebounceIsPending' /\ ClosedInOrder' /\ SignallingAgrees'
  BY DEF IInv, TypeOK, DebounceIsPending, ClosedInOrder, SignallingAgrees,
         SignalStateCheckTimerExpires, callerVars
<1>5. RequestNotLost' /\ DeferredRestartIsDue'
  BY DEF IInv, RequestNotLost, DeferredRestartIsDue, SignalStateCheckTimerExpires, restartVars, callerVars, Queued
<1> QED BY <1>3, <1>4, <1>5 DEF IInv

(* Connecting the peer connection keeps the invariant.                     *)
LEMMA PeerConnectsIInv == IInv /\ PeerConnects => IInv'
<1> SUFFICES ASSUME IInv, PeerConnects PROVE IInv'
  OBVIOUS
<1>2. FlagsOK'
  BY DEF IInv, TypeOK, FlagsOK, PeerConnects, restartVars, callerVars
<1>3. TypeOK'
  BY <1>2 DEF IInv, TypeOK, PeerConnects, timerVars, callerVars, bounds, PeerConnection
<1>4. DebounceIsPending' /\ ClosedInOrder' /\ SignallingAgrees'
  BY DEF IInv, TypeOK, DebounceIsPending, ClosedInOrder, SignallingAgrees,
         PeerConnects, callerVars,
         PeerConnection
<1>5. RequestNotLost' /\ DeferredRestartIsDue'
  BY DEF IInv, RequestNotLost, DeferredRestartIsDue, PeerConnects, restartVars, callerVars,
         PeerConnection, Queued
<1> QED BY <1>3, <1>4, <1>5 DEF IInv

(* The client's answer keeps the invariant: it changes the signal          *)
(* connection only.                                                        *)
LEMMA ClientAnswersIInv == IInv /\ ClientAnswers => IInv'
<1> SUFFICES ASSUME IInv, ClientAnswers PROVE IInv'
  OBVIOUS
<1>2. FlagsOK'
  BY DEF IInv, TypeOK, FlagsOK, ClientAnswers, restartVars, callerVars
<1>3. TypeOK'
  BY <1>2 DEF IInv, TypeOK, ClientAnswers, timerVars, callerVars, bounds
<1>4. DebounceIsPending' /\ ClosedInOrder' /\ SignallingAgrees'
  BY DEF IInv, TypeOK, DebounceIsPending, ClosedInOrder, SignallingAgrees,
         ClientAnswers, callerVars
<1>5. RequestNotLost' /\ DeferredRestartIsDue'
  BY DEF IInv, RequestNotLost, DeferredRestartIsDue, ClientAnswers, restartVars, callerVars, Queued
<1> QED BY <1>3, <1>4, <1>5 DEF IInv

(* HandleRemoteDescription keeps the invariant: it posts the answer it     *)
(* received.                                                               *)
LEMMA HandleRemoteDescriptionIInv == IInv /\ HandleRemoteDescription => IInv'
<1> SUFFICES ASSUME IInv, HandleRemoteDescription PROVE IInv'
  OBVIOUS
<1>1. queue' \in Seq(EventSet) /\ \A s : Queued(s)' <=> Queued(s) \/ "answer" = s
  <2>1. Head(toServer) \in Nat
    BY DEF IInv, TypeOK, HandleRemoteDescription
  <2>2. Event("answer", Head(toServer)) \in EventSet
        /\ Event("answer", Head(toServer)).signal = "answer"
    BY <2>1, EventTyped DEF Signal
  <2> QED BY <2>2, PostKeeps DEF IInv, HandleRemoteDescription
<1>2. FlagsOK'
  BY DEF IInv, TypeOK, FlagsOK, HandleRemoteDescription, restartVars, callerVars
<1>3. TypeOK'
  BY <1>1, <1>2 DEF IInv, TypeOK, HandleRemoteDescription, timerVars, callerVars, bounds
<1>4. DebounceIsPending' /\ ClosedInOrder' /\ SignallingAgrees'
  BY DEF IInv, TypeOK, DebounceIsPending, ClosedInOrder, SignallingAgrees,
         HandleRemoteDescription, callerVars
<1>5. RequestNotLost' /\ DeferredRestartIsDue'
  BY <1>1 DEF IInv, RequestNotLost, DeferredRestartIsDue, HandleRemoteDescription, restartVars, callerVars
<1> QED BY <1>3, <1>4, <1>5 DEF IInv

(* The end of gathering keeps the invariant: the event it posts replaces   *)
(* the gathering that a deferred restart waited for.                       *)
LEMMA IceGatheringCompletesIInv == IInv /\ IceGatheringCompletes => IInv'
<1> SUFFICES ASSUME IInv, IceGatheringCompletes PROVE IInv'
  OBVIOUS
<1>1. queue' \in Seq(EventSet) /\ \A s : Queued(s)' <=> Queued(s) \/ "iceGatheringComplete" = s
  BY EventTyped, PostKeeps DEF IInv, IceGatheringCompletes, postEvent, Signal
<1>2. FlagsOK'
  BY DEF IInv, TypeOK, FlagsOK, IceGatheringCompletes, restartVars, callerVars
<1>3. TypeOK'
  BY <1>1, <1>2 DEF IInv, TypeOK, IceGatheringCompletes, timerVars, callerVars, bounds, PeerConnection
<1>4. DebounceIsPending' /\ ClosedInOrder' /\ SignallingAgrees'
  BY DEF IInv, TypeOK, DebounceIsPending, ClosedInOrder, SignallingAgrees,
         IceGatheringCompletes, callerVars,
         PeerConnection
<1>5. RequestNotLost' /\ DeferredRestartIsDue'
  BY <1>1 DEF IInv, RequestNotLost, DeferredRestartIsDue, IceGatheringCompletes, restartVars, callerVars,
         PeerConnection
<1> QED BY <1>3, <1>4, <1>5 DEF IInv

(* The debounced callback keeps the invariant: what it no longer holds     *)
(* back it is going to post.                                               *)
LEMMA DebounceCallbackIInv == IInv /\ DebounceCallback => IInv'
<1> SUFFICES ASSUME IInv, DebounceCallback PROVE IInv'
  OBVIOUS
<1>2. FlagsOK'
  BY DEF IInv, TypeOK, FlagsOK, DebounceCallback, restartVars
<1>3. TypeOK'
  BY <1>2 DEF IInv, TypeOK, DebounceCallback, timerVars, bounds
<1>4. DebounceIsPending' /\ ClosedInOrder' /\ SignallingAgrees'
  BY DEF IInv, DebounceIsPending, ClosedInOrder, SignallingAgrees, DebounceCallback
<1>5. RequestNotLost' /\ DeferredRestartIsDue'
  BY DEF IInv, TypeOK, RequestNotLost, DeferredRestartIsDue, DebounceCallback,
         restartVars, Queued
<1> QED BY <1>3, <1>4, <1>5 DEF IInv

(* Posting keeps the invariant: the event is in the queue, unless the      *)
(* transport is closed.                                                    *)
LEMMA PostSendOfferIInv == IInv /\ PostSendOffer => IInv'
<1> SUFFICES ASSUME IInv, PostSendOffer PROVE IInv'
  OBVIOUS
<1>1. /\ queue' \in Seq(EventSet)
      /\ \A s : Queued(s) => Queued(s)'
      /\ pc.closed \/ Queued("sendOffer")'
  <2>1. CASE pc.closed
    BY <2>1 DEF IInv, TypeOK, PostSendOffer, Queued
  <2>2. CASE ~pc.closed
    BY <2>2, EventTyped, PostKeeps DEF IInv, PostSendOffer, postEvent, Signal
  <2> QED BY <2>1, <2>2
<1>2. FlagsOK'
  BY DEF IInv, TypeOK, FlagsOK, PostSendOffer, restartVars
<1>3. TypeOK'
  BY <1>1, <1>2 DEF IInv, TypeOK, PostSendOffer, timerVars, bounds
<1>4. DebounceIsPending' /\ ClosedInOrder' /\ SignallingAgrees'
  BY DEF IInv, DebounceIsPending, ClosedInOrder, SignallingAgrees, PostSendOffer
<1>5. RequestNotLost' /\ DeferredRestartIsDue'
  BY <1>1 DEF IInv, ClosedInOrder, RequestNotLost, DeferredRestartIsDue,
              PostSendOffer, restartVars
<1> QED BY <1>3, <1>4, <1>5 DEF IInv

(* The rest of Close keeps the invariant: it drops the queued events of a  *)
(* transport that is closed already.                                       *)
LEMMA CloseEndsIInv == IInv /\ CloseEnds => IInv'
<1> SUFFICES ASSUME IInv, CloseEnds PROVE IInv'
  OBVIOUS
<1>1. pc' \in PeerConnection /\ pc'.closed /\ pc'.signalling = pc.signalling
  BY DEF IInv, TypeOK, CloseEnds, PeerConnection
<1>2. FlagsOK'
  BY DEF IInv, TypeOK, FlagsOK, CloseEnds, callerVars, restartVars
<1>3. TypeOK'
  BY <1>1, <1>2 DEF IInv, TypeOK, CloseEnds, callerVars, bounds
<1>4. DebounceIsPending' /\ ClosedInOrder' /\ SignallingAgrees'
  BY <1>1 DEF IInv, DebounceIsPending, ClosedInOrder, SignallingAgrees, CloseEnds,
              callerVars
<1>5. RequestNotLost' /\ DeferredRestartIsDue'
  BY <1>1 DEF RequestNotLost, DeferredRestartIsDue, CloseEnds
<1> QED BY <1>3, <1>4, <1>5 DEF IInv

(* The callback of the negotiation timeout keeps the invariant, whichever  *)
(* timer it clears.                                                        *)
LEMMA TimerCallbackIInv ==
  ASSUME IInv, NEW version \in timersFired, SignalStateCheckTimerCallback(version)
  PROVE  IInv'
<1>1. failed' \subseteq Reason /\ failed \subseteq failed'
        /\ failed' \cap {"offer", "answer"} = failed \cap {"offer", "answer"}
  BY DEF SignalStateCheckTimerCallback, IInv, TypeOK, Reason
<1>2. FlagsOK'
  BY DEF IInv, TypeOK, FlagsOK, SignalStateCheckTimerCallback, callerVars,
              restartVars
<1>3. TypeOK'
  BY <1>1, <1>2 DEF IInv, TypeOK, SignalStateCheckTimerCallback, callerVars, bounds
<1>4. DebounceIsPending' /\ ClosedInOrder' /\ SignallingAgrees'
  BY <1>1 DEF IInv, DebounceIsPending, ClosedInOrder, SignallingAgrees,
         SignalStateCheckTimerCallback, callerVars
<1>5. RequestNotLost' /\ DeferredRestartIsDue'
  BY <1>1 DEF IInv, RequestNotLost, DeferredRestartIsDue, SignalStateCheckTimerCallback,
         callerVars, restartVars, Queued
<1> QED BY <1>3, <1>4, <1>5 DEF IInv

-----------------------------------------------------------------------------
(* The worker's steps.                                                     *)

(* Taking an event keeps the events with other signals, and what callers   *)
(* and timers own.                                                         *)
LEMMA TakeKeeps ==
  ASSUME TypeOK, NEW signal, Take(signal)
  PROVE  /\ queue' \in Seq(EventSet)
         /\ \A s : s # signal /\ Queued(s) => Queued(s)'
<1>1. queue \in Seq(EventSet) /\ queue # <<>> /\ queue' = Tail(queue)
  BY DEF TypeOK, Take
<1>2. queue' \in Seq(EventSet)
  BY <1>1
<1>3. \A s : s # signal /\ Holds(queue, s) => Holds(Tail(queue), s)
  BY <1>1, HoldsTail, Zenon DEF Take
<1> QED BY <1>1, <1>2, <1>3 DEF Queued

(* What a handler may assume when it shows that it keeps the invariant: an *)
(* event was taken, and a restart that waits has gathering to wait for.    *)
Handles(signal) ==
  /\ IInv
  /\ signal \in Signal
  /\ Take(signal)
  /\ restartAfterGathering' \in BOOLEAN
  /\ restartAfterGathering' /\ ~pc'.closed =>
       pc'.gathering = "gathering" \/ Queued("iceGatheringComplete")'

(* A failure adds its reason to the others, unless the transport closes.   *)
LEMMA HandlerFailsTyped ==
  ASSUME TypeOK, NEW reason \in Reason, HandlerFails(reason)
  PROVE  /\ failed' \subseteq Reason /\ failed \subseteq failed'
         /\ isClosed \/ reason \in failed'
         /\ \A x \in Reason : x # reason => (x \in failed' <=> x \in failed)
BY DEF TypeOK, HandlerFails

(* Writing an offer to the signal connection keeps its contents typed,     *)
(* whether it succeeds or not; its failure is no failure of pion.          *)
LEMMA OnOfferTyped ==
  ASSUME TypeOK, NEW g \in Nat, OnOffer(g)
  PROVE  /\ toClient' \in Seq(Nat) /\ failed' \subseteq Reason /\ failed \subseteq failed'
         /\ "offer" \in failed' <=> "offer" \in failed
         /\ "answer" \in failed' <=> "answer" \in failed
<1>1. CASE toClient' = Append(toClient, g) /\ UNCHANGED failed
  BY <1>1 DEF TypeOK
<1>2. CASE /\ HandlerFails("write")
           /\ toClient' \in {toClient, Append(toClient, g)}
  <2>1. toClient \in Seq(Nat) /\ Append(toClient, g) \in Seq(Nat)
    BY DEF TypeOK
  <2>2. toClient' \in Seq(Nat)
    BY <1>2, <2>1
  <2>3. "write" \in Reason /\ "offer" \in Reason /\ "answer" \in Reason
    BY DEF Reason
  <2> QED BY <1>2, <2>2, <2>3, HandlerFailsTyped
<1> QED BY <1>1, <1>2 DEF OnOffer

(* A new offer contains every request, and the restarts that waited for it.*)
LEMMA MakeOfferIInv ==
  ASSUME NEW signal, Handles(signal), NEW restart \in BOOLEAN, NEW answered \in Nat,
         makeOffer(restart, answered)
  PROVE  IInv'
<1>1. queue' \in Seq(EventSet)
  BY TakeKeeps DEF Handles, IInv
<1>2. pc' \in PeerConnection /\ pc'.signalling = "have-local-offer"
      /\ pc'.closed = pc.closed
  <2>1. pc \in PeerConnection
    BY DEF Handles, IInv, TypeOK
  <2>2. PICK g \in {pc.gathering, "gathering"} :
          pc' = [pc EXCEPT !.signalling = "have-local-offer", !.generation = @ + 1,
                           !.answered = answered, !.gathering = g]
    BY <2>1, Zenon DEF makeOffer
  <2>3. g \in {"new", "gathering", "complete"} /\ pc.generation + 1 \in Nat
    BY <2>1, <2>2 DEF PeerConnection
  <2>4. pc' \in PeerConnection
    BY <2>1, <2>2, <2>3 DEF PeerConnection
  <2>5. pc'.signalling = "have-local-offer" /\ pc'.closed = pc.closed
    BY <2>1, <2>2 DEF PeerConnection
  <2> QED BY <2>4, <2>5
<1>3. toClient' \in Seq(Nat) /\ failed' \subseteq Reason
  <2>1. pc.generation + 1 \in Nat
    BY DEF Handles, IInv, TypeOK, PeerConnection
  <2> QED BY <2>1, OnOfferTyped DEF Handles, IInv, makeOffer
<1>4. FlagsOK'
  BY DEF Handles, IInv, TypeOK, FlagsOK, makeOffer, Take, callerVars
<1>5. TypeOK'
  <2>1. /\ negotiateCounter' \in Nat /\ signalStateCheckTimer' \in 0..negotiateCounter'
        /\ timersFired' \subseteq 1..negotiateCounter'
    BY DEF Handles, IInv, TypeOK, makeOffer, setupSignalStateCheckTimer
  <2> QED BY <1>1, <1>2, <1>3, <1>4, <2>1
          DEF Handles, IInv, TypeOK, makeOffer, Take, callerVars, bounds
<1>6. DebounceIsPending' /\ ClosedInOrder' /\ SignallingAgrees'
  BY <1>2 DEF Handles, IInv, DebounceIsPending, ClosedInOrder, SignallingAgrees,
              makeOffer, Take, callerVars
<1>7. RequestNotLost' /\ DeferredRestartIsDue'
  BY DEF Handles, RequestNotLost, DeferredRestartIsDue, makeOffer
<1> QED BY <1>5, <1>6, <1>7 DEF IInv

(* An offer that pion fails to make is reported.                           *)
LEMMA FailOfferIInv ==
  ASSUME NEW signal, Handles(signal), NEW answered \in Nat,
         NEW timer \in {0, signalStateCheckTimer}, failOffer(answered, timer)
  PROVE  IInv'
<1>1. queue' \in Seq(EventSet)
  BY TakeKeeps DEF Handles, IInv
<1>2. pc' \in PeerConnection /\ pc'.closed = pc.closed
  <2>1. pc \in PeerConnection /\ pc.generation + 1 \in Nat
    BY DEF Handles, IInv, TypeOK, PeerConnection
  <2>2. CASE pc' = [pc EXCEPT !.signalling = "stable", !.answered = answered]
    BY <2>1, <2>2 DEF PeerConnection
  <2>3. CASE pc' = [pc EXCEPT !.signalling = "have-local-offer", !.generation = @ + 1,
                              !.answered = answered]
    BY <2>1, <2>3 DEF PeerConnection
  <2> QED BY <2>2, <2>3 DEF failOffer
<1>3. failed' \subseteq Reason /\ (isClosed \/ "offer" \in failed')
  BY HandlerFailsTyped DEF Handles, IInv, failOffer, Reason
<1>4. FlagsOK'
  BY DEF Handles, IInv, TypeOK, FlagsOK, failOffer, Take, callerVars
<1>5. TypeOK'
  BY <1>1, <1>2, <1>3, <1>4
     DEF Handles, IInv, TypeOK, failOffer, Take, callerVars, bounds
<1>6. DebounceIsPending' /\ ClosedInOrder' /\ SignallingAgrees'
  BY <1>2, <1>3 DEF Handles, IInv, DebounceIsPending, ClosedInOrder, SignallingAgrees,
                    Take, callerVars
<1>7. RequestNotLost' /\ DeferredRestartIsDue'
  BY <1>3 DEF Handles, RequestNotLost, DeferredRestartIsDue, failOffer, Take, callerVars
<1> QED BY <1>5, <1>6, <1>7 DEF IInv

(* createAndSendOffer keeps the invariant, whether an offer is made or not.*)
LEMMA SendOfferIInv ==
  ASSUME NEW signal, Handles(signal), NEW restart \in BOOLEAN, NEW answered \in Nat,
         NEW timer \in {0, signalStateCheckTimer}, sendOffer(restart, answered, timer)
  PROVE  IInv'
BY MakeOfferIInv, FailOfferIInv DEF sendOffer

(* A step of the worker that changes at most restartAfterGathering, and of *)
(* the negotiation only that it is to be repeated.  The signalling state   *)
(* may change when that is reported as a failure.                          *)
LEMMA PutOffIInv ==
  ASSUME NEW signal, Handles(signal),
         \/ UNCHANGED negotiationState /\ signal # "sendOffer"
         \/ negotiationState # "none" /\ negotiationState' = "retry",
         restartAtNextOffer' => restartAtNextOffer \/ negotiationState' = "retry",
         restartAtNextOffer' \in BOOLEAN,
         UNCHANGED <<previousAnswer, negotiateCounter, timersFired, unoffered>>,
         signalStateCheckTimer' \in {0, signalStateCheckTimer},
         toClient' \in Seq(Nat),
         failed' \subseteq Reason, failed \subseteq failed',
         pc' \in PeerConnection, pc'.closed = pc.closed,
         \/ pc'.signalling = pc.signalling
         \/ isClosed \/ "answer" \in failed'
  PROVE  IInv'
<1>1. queue' \in Seq(EventSet) /\ \A s : s # signal /\ Queued(s) => Queued(s)'
  BY TakeKeeps DEF Handles, IInv
<1>2. FlagsOK'
  BY DEF Handles, IInv, TypeOK, FlagsOK, Take, callerVars
<1>3. TypeOK'
  BY <1>1, <1>2 DEF Handles, IInv, TypeOK, Take, callerVars, bounds
<1>4. DebounceIsPending' /\ ClosedInOrder' /\ SignallingAgrees'
  BY DEF Handles, IInv, DebounceIsPending, ClosedInOrder, SignallingAgrees, Take,
         callerVars
<1>5. RequestNotLost'
  BY <1>1 DEF Handles, IInv, RequestNotLost, Take, callerVars
<1>6. DeferredRestartIsDue'
  BY DEF Handles, IInv, DeferredRestartIsDue
<1> QED BY <1>3, <1>4, <1>5, <1>6 DEF IInv

(* Sending the unanswered first offer again keeps the invariant: the       *)
(* restart left to the next offer has the retry state.                     *)
LEMMA ResendOfferIInv ==
  ASSUME NEW signal, Handles(signal), negotiationState # "none", resendOffer
  PROVE  IInv'
<1>1. pc.generation \in Nat
  BY DEF Handles, IInv, TypeOK, PeerConnection
<1>2. toClient' \in Seq(Nat) /\ failed' \subseteq Reason /\ failed \subseteq failed'
  BY <1>1, OnOfferTyped DEF Handles, IInv, resendOffer
<1>3. /\ UNCHANGED <<previousAnswer, negotiateCounter, timersFired, unoffered, pc>>
      /\ signalStateCheckTimer' = signalStateCheckTimer
      /\ pc' \in PeerConnection
  BY DEF resendOffer, timerVars, Handles, IInv, TypeOK
<1> QED BY <1>2, <1>3, PutOffIInv DEF resendOffer

(* Restarting ICE, when the caller vouches for the restart it hands over.  *)
LEMMA DoICERestartIInv ==
  ASSUME IInv, NEW signal \in {"iceRestart", "iceGatheringComplete"}, Take(signal),
         NEW deferred \in BOOLEAN, doICERestart(deferred),
         deferred /\ ~pc.closed =>
           pc.gathering = "gathering" \/ Queued("iceGatheringComplete")'
  PROVE  IInv'
<1>1. pc \in PeerConnection /\ pc.answered \in Nat
  BY DEF IInv, TypeOK, PeerConnection
<1>2. signal \in Signal /\ restartAfterGathering' \in BOOLEAN
  BY DEF Signal, doICERestart
<1>3. CASE pc.gathering # "complete"
  <2>1. UNCHANGED <<negotiationState, restartAtNextOffer, previousAnswer, timerVars,
                    pc, toClient, unoffered, failed>>
    BY <1>3 DEF doICERestart
  <2>2. Handles(signal)
    BY <1>2, <2>1 DEF Handles, doICERestart
  <2>3. /\ toClient' \in Seq(Nat) /\ failed' \subseteq Reason /\ pc' \in PeerConnection
        /\ restartAtNextOffer' \in BOOLEAN
    BY <2>1 DEF IInv, TypeOK, FlagsOK
  <2> QED BY <2>1, <2>2, <2>3, PutOffIInv DEF timerVars
<1>4. CASE pc.gathering = "complete"
  <2>1. restartAfterGathering' = deferred
    BY <1>4 DEF doICERestart
  <2>2. CASE sendOffer(TRUE, pc.answered, signalStateCheckTimer)
    <3>1. pc'.closed = pc.closed
      BY <1>1, <2>2 DEF sendOffer, makeOffer, failOffer, PeerConnection
    <3>2. Handles(signal)
      BY <1>2, <1>4, <2>1, <3>1 DEF Handles
    <3> QED BY <1>1, <2>2, <3>2, SendOfferIInv
  <2>3. CASE negotiationState # "none" /\ resendOffer
    <3>1. Handles(signal)
      BY <1>2, <1>4, <2>1, <2>3 DEF Handles, resendOffer
    <3> QED BY <2>3, <3>1, ResendOfferIInv
  (* Pion does not apply the last answer again.                            *)
  <2>4. CASE /\ HandlerFails("answer")
             /\ pc' \in {pc, [pc EXCEPT !.signalling = "stable"]}
             /\ UNCHANGED <<negotiationState, restartAtNextOffer, previousAnswer,
                            timerVars, toClient, unoffered>>
    <3>1. pc' \in PeerConnection /\ pc'.closed = pc.closed
      BY <1>1, <2>4 DEF PeerConnection
    <3>2. Handles(signal)
      BY <1>2, <1>4, <2>1, <3>1 DEF Handles
    <3>3. /\ failed' \subseteq Reason /\ failed \subseteq failed'
          /\ isClosed \/ "answer" \in failed'
      BY <2>4, HandlerFailsTyped DEF IInv, Reason
    <3>4. toClient' \in Seq(Nat) /\ restartAtNextOffer' \in BOOLEAN
      BY <2>4 DEF IInv, TypeOK, FlagsOK
    <3> QED BY <2>4, <3>1, <3>2, <3>3, <3>4, PutOffIInv DEF timerVars
  <2> QED BY <1>4, <2>2, <2>3, <2>4 DEF doICERestart
<1> QED BY <1>3, <1>4

(* An event other than the end of gathering leaves a waiting restart alone.*)
LEMMA OtherHandles ==
  ASSUME IInv, NEW signal \in Signal \ {"iceGatheringComplete"}, Take(signal),
         UNCHANGED restartAfterGathering,
         pc'.closed = pc.closed, pc.gathering = "gathering" => pc'.gathering = "gathering"
  PROVE  Handles(signal)
<1>1. \A s : s # signal /\ Queued(s) => Queued(s)'
  BY TakeKeeps DEF IInv
<1> QED
  BY <1>1 DEF Handles, IInv, TypeOK, FlagsOK, DeferredRestartIsDue

(* Making an offer does not end gathering and does not close the peer      *)
(* connection, so what a deferred restart waits for is still to come.      *)
LEMMA SendOfferHandles ==
  ASSUME IInv, NEW restart \in BOOLEAN, NEW answered, NEW timer,
         sendOffer(restart, answered, timer)
  PROVE  pc'.closed = pc.closed
         /\ (pc.gathering = "gathering" => pc'.gathering = "gathering")
<1>1. pc \in PeerConnection
  BY DEF IInv, TypeOK
<1> QED BY <1>1 DEF sendOffer, makeOffer, failOffer, PeerConnection

(* handleSendOffer keeps the invariant: the request whose event it takes   *)
(* is in the offer it makes or remembered by the retry state.              *)
LEMMA HandleSendOfferIInv == IInv /\ handleSendOffer => IInv'
<1> SUFFICES ASSUME IInv, handleSendOffer PROVE IInv'
  OBVIOUS
<1> DEFINE sig == "sendOffer"
<1>1. sig \in Signal \ {"iceGatheringComplete"} /\ Take(sig)
  BY DEF Signal, handleSendOffer
<1>2. CASE sendOffer(FALSE, pc.answered, signalStateCheckTimer)
  <2>1. Handles(sig)
    BY <1>1, <1>2, SendOfferHandles, OtherHandles DEF handleSendOffer
  <2>2. pc.answered \in Nat
    BY DEF IInv, TypeOK, PeerConnection
  <2> QED BY <1>2, <2>1, <2>2, SendOfferIInv
<1>3. CASE /\ negotiationState # "none"
           /\ negotiationState' = "retry"
           /\ UNCHANGED <<restartAtNextOffer, previousAnswer, timerVars, pc, toClient,
                          unoffered, failed>>
  <2>1. Handles(sig)
    BY <1>1, <1>3, OtherHandles DEF handleSendOffer
  <2>2. /\ toClient' \in Seq(Nat) /\ failed' \subseteq Reason
        /\ pc' \in PeerConnection /\ restartAtNextOffer' \in BOOLEAN
    BY <1>3 DEF IInv, TypeOK, FlagsOK
  <2> QED BY <1>3, <2>1, <2>2, PutOffIInv DEF timerVars
<1> QED BY <1>2, <1>3 DEF handleSendOffer, createAndSendOffer

(* handleRemoteAnswerReceived keeps the invariant: it leaves the retry     *)
(* state only by making an offer, and an answer it refuses finds no        *)
(* negotiation.                                                            *)
LEMMA HandleRemoteAnswerIInv == IInv /\ handleRemoteAnswerReceived => IInv'
<1> SUFFICES ASSUME IInv, handleRemoteAnswerReceived PROVE IInv'
  OBVIOUS
<1> DEFINE sig == "answer"
           answer == Head(queue).data
<1>1. sig \in Signal \ {"iceGatheringComplete"} /\ Take(sig)
  BY DEF Signal, handleRemoteAnswerReceived
<1>2. answer \in Nat
  <2>1. queue \in Seq(EventSet) /\ queue # <<>>
    BY <1>1 DEF IInv, TypeOK, Take
  <2>2. Head(queue) \in EventSet
    BY <2>1
  <2> QED BY <2>2 DEF EventSet
<1>3. pc \in PeerConnection
  BY DEF IInv, TypeOK
<1>4. queue' \in Seq(EventSet) /\ \A s : s # sig /\ Queued(s) => Queued(s)'
  BY <1>1, TakeKeeps DEF IInv
<1>5. CASE sendOffer(FALSE, answer, 0)
  <2>1. Handles(sig)
    BY <1>1, <1>5, SendOfferHandles, OtherHandles DEF handleRemoteAnswerReceived
  <2> QED BY <1>2, <1>5, <2>1, SendOfferIInv
(* The negotiation ends; no restart waited for it, or it would be repeated.*)
<1>6. CASE /\ negotiationState # "retry"
           /\ pc' = [pc EXCEPT !.signalling = "stable", !.answered = answer]
           /\ negotiationState' = "none"
           /\ clearSignalStateCheckTimer
           /\ UNCHANGED <<restartAtNextOffer, previousAnswer, toClient, unoffered,
                          failed>>
  <2>1. /\ pc' \in PeerConnection /\ pc'.signalling = "stable"
        /\ pc'.closed = pc.closed /\ pc'.gathering = pc.gathering
    BY <1>2, <1>3, <1>6 DEF PeerConnection
  <2>2. Handles(sig)
    BY <1>1, <2>1, OtherHandles DEF handleRemoteAnswerReceived
  <2>3. FlagsOK'
    BY <1>6, <2>2 DEF Handles, IInv, TypeOK, FlagsOK, Take, callerVars
  <2>4. TypeOK'
    BY <1>4, <1>6, <2>1, <2>2, <2>3
       DEF Handles, IInv, TypeOK, Take, callerVars, bounds, clearSignalStateCheckTimer
  <2>5. DebounceIsPending' /\ ClosedInOrder' /\ SignallingAgrees'
    BY <1>6, <2>1, <2>2
       DEF Handles, IInv, DebounceIsPending, ClosedInOrder, SignallingAgrees, Take,
           callerVars
  <2>6. RequestNotLost'
    BY <1>4, <1>6, <2>2 DEF Handles, IInv, RequestNotLost, Take, callerVars
  <2>7. DeferredRestartIsDue'
    BY <1>6, <2>1, <2>2 DEF Handles, IInv, DeferredRestartIsDue
  <2> QED BY <2>4, <2>5, <2>6, <2>7 DEF IInv
(* Pion refuses the answer, or fails after it has applied it; or there was *)
(* nothing to be answered.                                                 *)
<1>7. ASSUME NEW reason \in {"answer", "stale"}, HandlerFails(reason),
             \/ UNCHANGED pc
             \/ /\ reason = "answer"
                /\ pc' = [pc EXCEPT !.signalling = "stable", !.answered = answer],
             clearSignalStateCheckTimer,
             UNCHANGED <<negotiationState, restartAtNextOffer, previousAnswer,
                         toClient, unoffered>>
      PROVE  IInv'
  <2>1. /\ pc' \in PeerConnection
        /\ pc'.closed = pc.closed /\ pc'.gathering = pc.gathering
        /\ pc'.signalling = pc.signalling \/ reason = "answer"
    BY <1>2, <1>3, <1>7 DEF PeerConnection
  <2>2. Handles(sig)
    BY <1>1, <1>7, <2>1, OtherHandles DEF handleRemoteAnswerReceived
  <2>3. /\ failed' \subseteq Reason /\ failed \subseteq failed'
        /\ isClosed \/ reason \in failed'
    BY <1>7, HandlerFailsTyped DEF IInv, Reason
  <2>4. toClient' \in Seq(Nat) /\ restartAtNextOffer' \in BOOLEAN
    BY <1>7 DEF IInv, TypeOK, FlagsOK
  <2> QED BY <1>7, <2>1, <2>2, <2>3, <2>4, PutOffIInv DEF clearSignalStateCheckTimer
<1> QED BY <1>5, <1>6, <1>7 DEF handleRemoteAnswerReceived

(* handleICERestart keeps the invariant: a restart that it defers while    *)
(* candidates are gathered is due when they are complete.                  *)
LEMMA HandleICERestartIInv == IInv /\ handleICERestart => IInv'
<1> SUFFICES ASSUME IInv, handleICERestart PROVE IInv'
  OBVIOUS
<1>1. Take("iceRestart") /\ doICERestart(restartAfterGathering)
  BY DEF handleICERestart
<1>2. \A s : s # "iceRestart" /\ Queued(s) => Queued(s)'
  BY <1>1, TakeKeeps DEF IInv
<1>3. restartAfterGathering \in BOOLEAN
  BY DEF IInv, TypeOK, FlagsOK
<1>4. restartAfterGathering /\ ~pc.closed =>
        pc.gathering = "gathering" \/ Queued("iceGatheringComplete")'
  BY <1>2 DEF IInv, DeferredRestartIsDue
<1> QED BY <1>1, <1>3, <1>4, DoICERestartIInv

(* handleICEGatheringComplete keeps the invariant: it performs the         *)
(* deferred restart, or leaves it due.                                     *)
LEMMA HandleICEGatheringCompleteIInv == IInv /\ handleICEGatheringComplete => IInv'
<1> SUFFICES ASSUME IInv, handleICEGatheringComplete PROVE IInv'
  OBVIOUS
<1> DEFINE sig == "iceGatheringComplete"
<1>1. Take(sig)
  BY DEF handleICEGatheringComplete
<1>2. CASE doICERestart(FALSE)
  BY <1>1, <1>2, DoICERestartIInv
<1>3. CASE /\ ~restartAfterGathering
           /\ UNCHANGED <<negotiationState, restartVars, timerVars, pc, toClient,
                          unoffered, failed>>
  <2>1. UNCHANGED <<restartAfterGathering, restartAtNextOffer, previousAnswer>>
    BY <1>3 DEF restartVars
  <2>2. Handles(sig)
    BY <1>1, <1>3, <2>1 DEF Handles, Signal, IInv, TypeOK, FlagsOK
  <2>3. /\ toClient' \in Seq(Nat) /\ failed' \subseteq Reason
        /\ pc' \in PeerConnection /\ restartAtNextOffer' \in BOOLEAN
    BY <1>3, <2>1 DEF IInv, TypeOK, FlagsOK
  <2> QED BY <1>3, <2>1, <2>2, <2>3, PutOffIInv DEF timerVars
<1> QED BY <1>2, <1>3 DEF handleICEGatheringComplete

-----------------------------------------------------------------------------
(* All steps.                                                              *)

(* A step that changes nothing keeps the invariant.                        *)
LEMMA StutterIInv == IInv /\ UNCHANGED vars => IInv'
<1> SUFFICES ASSUME IInv, UNCHANGED vars PROVE IInv'
  OBVIOUS
<1> USE DEF vars, callerVars, restartVars, timerVars, bounds
<1>1. FlagsOK'
  BY DEF IInv, TypeOK, FlagsOK
<1>2. TypeOK'
  BY <1>1 DEF IInv, TypeOK
<1>3. DebounceIsPending' /\ ClosedInOrder' /\ SignallingAgrees'
  BY DEF IInv, DebounceIsPending, ClosedInOrder, SignallingAgrees
<1>4. RequestNotLost' /\ DeferredRestartIsDue'
  BY DEF IInv, RequestNotLost, DeferredRestartIsDue, Queued
<1> QED BY <1>2, <1>3, <1>4 DEF IInv

(* Every step of a caller, a timer, the worker, the peer connection or the *)
(* client keeps the invariant.                                             *)
LEMMA NextIInv == IInv /\ [Next]_vars => IInv'
<1> SUFFICES ASSUME IInv, [Next]_vars PROVE IInv'
  OBVIOUS
<1>1. CASE NegotiateForce \/ NegotiateDebounced
  BY <1>1, NegotiateForceIInv, NegotiateDebouncedIInv
<1>2. CASE DebounceFires \/ DebounceCallback \/ PostSendOffer
  BY <1>2, DebounceFiresIInv, DebounceCallbackIInv, PostSendOfferIInv
<1>3. CASE ICERestart \/ Resume
  BY <1>3, ICERestartIInv, ResumeIInv
<1>4. CASE CloseBegins \/ CloseEnds
  BY <1>4, CloseBeginsIInv, CloseEndsIInv
<1>5. CASE SignalStateCheckTimerExpires
  BY <1>5, SignalStateCheckTimerExpiresIInv
<1>6. CASE \E version \in timersFired : SignalStateCheckTimerCallback(version)
  BY <1>6, TimerCallbackIInv
<1>7. CASE IceGatheringCompletes \/ PeerConnects
  BY <1>7, IceGatheringCompletesIInv, PeerConnectsIInv
<1>8. CASE ClientAnswers \/ HandleRemoteDescription
  BY <1>8, ClientAnswersIInv, HandleRemoteDescriptionIInv
<1>9. CASE Worker
  BY <1>9, HandleSendOfferIInv, HandleRemoteAnswerIInv, HandleICERestartIInv,
     HandleICEGatheringCompleteIInv DEF Worker
<1>10. CASE UNCHANGED vars
  BY <1>10, StutterIInv
<1> QED
  BY <1>1, <1>2, <1>3, <1>4, <1>5, <1>6, <1>7, <1>8, <1>9, <1>10 DEF Next

(* The inductive invariant holds in every reachable state.                 *)
THEOREM AlwaysIInv == Spec => []IInv
BY InitIInv, NextIInv, PTL DEF Spec

(* The transport's fields, timers and queue always have their types: a     *)
(* timer carries the version of an offer that was made.                    *)
THEOREM TypeCorrect == Spec => []TypeOK
<1>1. IInv => TypeOK
  BY DEF IInv
<1> QED BY <1>1, AlwaysIInv, PTL

(* No request to negotiate is forgotten: Negotiate, the debounce timer and *)
(* createAndSendOffer always leave something that will produce an offer.   *)
THEOREM NoRequestIsLost == Spec => []RequestNotLost
<1>1. IInv => RequestNotLost
  BY DEF IInv
<1> QED BY <1>1, AlwaysIInv, PTL

(* The worker's negotiation state agrees with the signalling state of the  *)
(* peer connection.                                                        *)
THEOREM StatesAgree == Spec => []SignallingAgrees
<1>1. IInv => SignallingAgrees
  BY DEF IInv
<1> QED BY <1>1, AlwaysIInv, PTL

(* A deferred ICE restart is never forgotten by doICERestart and           *)
(* createAndSendOffer.                                                     *)
THEOREM RestartIsDue == Spec => []DeferredRestartIsDue
<1>1. IInv => DeferredRestartIsDue
  BY DEF IInv
<1> QED BY <1>1, AlwaysIInv, PTL
=============================================================================
