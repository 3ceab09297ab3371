---------------------------- MODULE Negotiation ----------------------------
(***************************************************************************)
(* Offer/answer negotiation of the PCTransport that offers (the subscriber *)
(* peer connection): pkg/rtc/transport_negotiation.go, transport_ice.go    *)
(* and transport.go.                                                       *)
(*                                                                         *)
(* Requests to negotiate are debounced, turned into events and handled one *)
(* at a time by the worker of the transport's operations queue (module     *)
(* OpsQueue).  The timer goroutines of the debouncer and of the            *)
(* negotiation timeout run beside that worker.  The peer connection (pion) *)
(* and the client are external: an offer is a generation of the local      *)
(* description, an answer names the generation it answers.                 *)
(*                                                                         *)
(* Offer and answer ids are compared only to log a warning and local ICE   *)
(* candidates are cached and flushed within one event: both are left out.  *)
(***************************************************************************)
EXTENDS Naturals, Sequences, FiniteSets

CONSTANTS
  MaxRequests, (* Bound: calls of Negotiate.                               *)
  MaxRestarts, (* Bound: ICE restarts, of a resumed client or otherwise.   *)
  Errors       (* May pion refuse a description or a candidate, or writing *)
               (* to the signal connection fail?                           *)

ASSUME NegotiationBounds ==
  /\ MaxRequests \in Nat
  /\ MaxRestarts \in Nat
  /\ Errors \in BOOLEAN

VARIABLES
  (* Shared by callers and timers, under t.lock or atomic.                 *)
  debounce,         (* is the debounce timer armed with the real callback? *)
  debounceFired,    (* number of its callbacks that fired and did not run  *)
  debouncePending,
  posting,          (* goroutines that released t.lock and have yet to     *)
                    (* post their offer event                              *)
  isClosed,
  (* Owned by the worker of the operations queue.                          *)
  queue,
  negotiationState,
  restartAfterGathering,
  restartAtNextOffer,
  previousAnswer,   (* was the session migrated and not yet offered?       *)
  negotiateCounter,
  signalStateCheckTimer, (* version of the armed timer, 0 when nil         *)
  timersFired,      (* versions whose callback fired and did not run       *)
  (* The peer connection.                                                  *)
  pc,
  (* The signal connection: generations of offers and answers in flight.   *)
  toClient,
  toServer,
  (* History and bounds.                                                   *)
  unoffered,        (* was a change requested that no offer contains yet?  *)
  failed,           (* why OnNegotiationFailed was called                  *)
  requests, restarts

callerVars == <<debounce, debounceFired, debouncePending, posting>>
restartVars == <<restartAfterGathering, restartAtNextOffer, previousAnswer>>
timerVars == <<negotiateCounter, signalStateCheckTimer, timersFired>>
bounds == <<requests, restarts>>
vars == <<callerVars, isClosed, queue, negotiationState, restartVars, timerVars,
          pc, toClient, toServer, unoffered, failed, bounds>>

Signal == {"sendOffer", "answer", "iceRestart", "iceGatheringComplete"}
Reason == {"timeout", "write", "offer", "answer", "stale"}
EventSet == [signal : Signal, data : Nat]
Event(s, d) == [signal |-> s, data |-> d]
postEvent(s) == queue' = Append(queue, Event(s, 0))

PeerConnection ==
  [signalling : {"stable", "have-local-offer"},
   gathering : {"new", "gathering", "complete"},
   generation : Nat,  (* of the last local description                     *)
   answered : Nat,    (* generation of the current answer, or 0            *)
   connected : BOOLEAN,
   closed : BOOLEAN]

FlagsOK ==
  /\ debounce \in BOOLEAN
  /\ debouncePending \in BOOLEAN
  /\ isClosed \in BOOLEAN
  /\ restartAfterGathering \in BOOLEAN
  /\ restartAtNextOffer \in BOOLEAN
  /\ previousAnswer \in BOOLEAN
  /\ unoffered \in BOOLEAN

TypeOK ==
  /\ FlagsOK
  /\ debounceFired \in Nat /\ posting \in Nat
  /\ failed \subseteq Reason
  /\ queue \in Seq(EventSet)
  /\ negotiationState \in {"none", "remote", "retry"}
  /\ negotiateCounter \in Nat
  /\ signalStateCheckTimer \in 0..negotiateCounter
  /\ timersFired \subseteq 1..negotiateCounter
  /\ pc \in PeerConnection
  /\ toClient \in Seq(Nat)
  /\ toServer \in Seq(Nat)
  /\ requests \in Nat /\ restarts \in Nat

(* NewPCTransport; a migrated session starts with the previous answer.     *)
Init ==
  /\ debounce = FALSE /\ debounceFired = 0 /\ debouncePending = FALSE
  /\ posting = 0
  /\ isClosed = FALSE
  /\ queue = <<>>
  /\ negotiationState = "none"
  /\ restartAfterGathering = FALSE
  /\ restartAtNextOffer = FALSE
  /\ previousAnswer \in BOOLEAN
  /\ negotiateCounter = 0 /\ signalStateCheckTimer = 0 /\ timersFired = {}
  /\ pc = [signalling |-> "stable", gathering |-> "new", generation |-> 0,
           answered |-> 0, connected |-> FALSE, closed |-> FALSE]
  /\ toClient = <<>> /\ toServer = <<>>
  /\ unoffered = FALSE /\ failed = {}
  /\ requests = 0 /\ restarts = 0

-----------------------------------------------------------------------------
(* Callers and the debounce timer.                                         *)

(* Mutant: a forced request forgets to post when one is already pending.   *)
NegotiateForceCancels ==
  /\ ~isClosed /\ requests < MaxRequests
  /\ requests' = requests + 1
  /\ unoffered' = TRUE
  /\ debounce' = FALSE
  /\ debouncePending' = FALSE
  /\ IF debouncePending THEN UNCHANGED posting ELSE posting' = posting + 1
  /\ UNCHANGED <<debounceFired, isClosed, queue, negotiationState, restartVars,
                 timerVars, pc, toClient, toServer, failed, restarts>>

(* Negotiate(true): replaces the debounced callback by a no-op; the event  *)
(* is posted after the lock is released.                                   *)
NegotiateForce ==
  /\ ~isClosed /\ requests < MaxRequests
  /\ requests' = requests + 1
  /\ unoffered' = TRUE
  /\ debounce' = FALSE
  /\ debouncePending' = FALSE
  /\ posting' = posting + 1
  /\ UNCHANGED <<debounceFired, isClosed, queue, negotiationState, restartVars,
                 timerVars, pc, toClient, toServer, failed, restarts>>

(* Negotiate(false): arms the debounce timer unless it is pending.         *)
NegotiateDebounced ==
  /\ ~isClosed /\ requests < MaxRequests
  /\ requests' = requests + 1
  /\ unoffered' = TRUE
  /\ debounce' = (debounce \/ ~debouncePending)
  /\ debouncePending' = TRUE
  /\ UNCHANGED <<debounceFired, posting, isClosed, queue, negotiationState, restartVars,
                 timerVars, pc, toClient, toServer, failed, restarts>>

(* The debounce timer expires: its callback now races with the callers.    *)
DebounceFires ==
  /\ debounce
  /\ debounce' = FALSE
  /\ debounceFired' = debounceFired + 1
  /\ UNCHANGED <<debouncePending, posting, isClosed, queue, negotiationState,
                 restartVars, timerVars, pc, toClient, toServer, unoffered,
                 failed, bounds>>

DebounceCallback ==
  /\ debounceFired > 0
  /\ debounceFired' = debounceFired - 1
  /\ debouncePending' = FALSE
  /\ posting' = posting + 1
  /\ UNCHANGED <<debounce, isClosed, queue, negotiationState, restartVars,
                 timerVars, pc, toClient, toServer, unoffered, failed, bounds>>

(* The event of Negotiate(true) or of the debounced callback; the queue    *)
(* drops what is posted after it was stopped.                              *)
PostSendOffer ==
  /\ posting > 0
  /\ posting' = posting - 1
  /\ IF pc.closed THEN UNCHANGED queue ELSE postEvent("sendOffer")
  /\ UNCHANGED <<debounce, debounceFired, debouncePending, isClosed,
                 negotiationState, restartVars, timerVars, pc, toClient, toServer,
                 unoffered, failed, bounds>>

ICERestart ==
  /\ ~pc.closed /\ restarts < MaxRestarts
  /\ restarts' = restarts + 1
  /\ postEvent("iceRestart")
  /\ UNCHANGED <<callerVars, isClosed, negotiationState, restartVars, timerVars,
                 pc, toClient, toServer, unoffered, failed, requests>>

(* The client resumes on a new signal connection: what was in flight on    *)
(* the old one is lost, and Room.ResumeParticipant restarts ICE.           *)
Resume ==
  /\ ~pc.closed /\ restarts < MaxRestarts
  /\ restarts' = restarts + 1
  /\ toClient' = <<>> /\ toServer' = <<>>
  /\ postEvent("iceRestart")
  /\ UNCHANGED <<callerVars, isClosed, negotiationState, restartVars, timerVars,
                 pc, unoffered, failed, requests>>

CloseBegins ==
  /\ ~isClosed
  /\ isClosed' = TRUE
  /\ UNCHANGED <<callerVars, queue, negotiationState, restartVars, timerVars,
                 pc, toClient, toServer, unoffered, failed, bounds>>

(* Close after isClosed is set: the queue is stopped, which drops its      *)
(* events, the timer is cleared and the peer connection closed.            *)
CloseEnds ==
  /\ isClosed /\ ~pc.closed
  /\ queue' = <<>>
  /\ signalStateCheckTimer' = 0
  /\ pc' = [pc EXCEPT !.closed = TRUE]
  /\ UNCHANGED <<callerVars, isClosed, negotiationState, restartVars,
                 negotiateCounter, timersFired, toClient, toServer, unoffered,
                 failed, bounds>>

-----------------------------------------------------------------------------
(* The negotiation timeout: its callback runs on a goroutine of its own.   *)

SignalStateCheckTimerExpires ==
  /\ signalStateCheckTimer # 0
  /\ signalStateCheckTimer' = 0
  /\ timersFired' = timersFired \cup {signalStateCheckTimer}
  /\ UNCHANGED <<callerVars, isClosed, queue, negotiationState, restartVars,
                 negotiateCounter, pc, toClient, toServer, unoffered, failed,
                 bounds>>

(* The callback clears whatever timer is armed by now, then reports a      *)
(* failure if no later offer was made and the peer is connected.           *)
SignalStateCheckTimerCallback(version) ==
  /\ timersFired' = timersFired \ {version}
  /\ signalStateCheckTimer' = 0
  /\ failed' = IF /\ negotiateCounter = version
                  /\ negotiationState # "none"
                  /\ pc.connected /\ ~pc.closed
                 THEN failed \cup {"timeout"} ELSE failed
  /\ UNCHANGED <<callerVars, isClosed, queue, negotiationState, restartVars,
                 negotiateCounter, pc, toClient, toServer, unoffered, bounds>>

-----------------------------------------------------------------------------
(* The peer connection and the client, external.                           *)

IceGatheringCompletes ==
  /\ pc.gathering = "gathering" /\ ~pc.closed
  /\ pc' = [pc EXCEPT !.gathering = "complete"]
  /\ postEvent("iceGatheringComplete")
  /\ UNCHANGED <<callerVars, isClosed, negotiationState, restartVars, timerVars,
                 toClient, toServer, unoffered, failed, bounds>>

PeerConnects ==
  /\ pc.answered # 0 /\ ~pc.connected /\ ~pc.closed
  /\ pc' = [pc EXCEPT !.connected = TRUE]
  /\ UNCHANGED <<callerVars, isClosed, queue, negotiationState, restartVars,
                 timerVars, toClient, toServer, unoffered, failed, bounds>>

ClientAnswers ==
  /\ toClient # <<>>
  /\ toClient' = Tail(toClient)
  /\ toServer' = Append(toServer, Head(toClient))
  /\ UNCHANGED <<callerVars, isClosed, queue, negotiationState, restartVars,
                 timerVars, pc, unoffered, failed, bounds>>

HandleRemoteDescription ==
  /\ toServer # <<>> /\ ~pc.closed
  /\ toServer' = Tail(toServer)
  /\ queue' = Append(queue, Event("answer", Head(toServer)))
  /\ UNCHANGED <<callerVars, isClosed, negotiationState, restartVars, timerVars,
                 pc, toClient, unoffered, failed, bounds>>

-----------------------------------------------------------------------------
(* The worker's handlers.                                                  *)

(* The worker takes the next event; a stopped queue has none.              *)
Take(signal) ==
  /\ queue # <<>>
  /\ Head(queue).signal = signal
  /\ queue' = Tail(queue)
  /\ UNCHANGED <<callerVars, isClosed, toServer, bounds>>

(* An error returned by a handler is a negotiation failure, unless the     *)
(* transport is closing.                                                   *)
HandlerFails(reason) ==
  failed' = IF isClosed THEN failed ELSE failed \cup {reason}

setupSignalStateCheckTimer ==
  /\ negotiateCounter' = negotiateCounter + 1
  /\ signalStateCheckTimer' = negotiateCounter'
  /\ UNCHANGED timersFired

clearSignalStateCheckTimer ==
  /\ signalStateCheckTimer' = 0
  /\ UNCHANGED <<negotiateCounter, timersFired>>

(* Mutant: the offer is neither sent nor is its loss reported.             *)
OnOfferSwallowsError(generation) == UNCHANGED <<toClient, failed>>

(* The offer and the candidates that were held back for it are written to  *)
(* the signal connection; writing the latter may fail when the former went.*)
OnOffer(generation) ==
  \/ toClient' = Append(toClient, generation) /\ UNCHANGED failed
  \/ /\ Errors /\ HandlerFails("write")
     /\ toClient' \in {toClient, Append(toClient, generation)}

(* The offer holds every change made so far, restarts ICE when asked to,   *)
(* and starts the timeout.                                                 *)
makeOffer(iceRestart, answered) ==
  LET restart == iceRestart \/ previousAnswer \/ restartAtNextOffer IN
  /\ previousAnswer' = FALSE
  /\ restartAtNextOffer' = FALSE
  /\ pc' = [pc EXCEPT !.signalling = "have-local-offer",
                      !.generation = @ + 1,
                      !.answered = answered,
                      !.gathering = IF restart \/ @ = "new" THEN "gathering"
                                                            ELSE @]
  /\ unoffered' = FALSE
  /\ negotiationState' = "remote"
  /\ setupSignalStateCheckTimer
  /\ OnOffer(pc.generation + 1)

(* CreateOffer or SetLocalDescription fails, the latter before or after    *)
(* pion has taken the offer: the restarts are forgotten all the same.      *)
failOffer(answered, timer) ==
  /\ Errors
  /\ previousAnswer' = FALSE
  /\ restartAtNextOffer' = FALSE
  /\ \/ pc' = [pc EXCEPT !.signalling = "stable", !.answered = answered]
     \/ pc' = [pc EXCEPT !.signalling = "have-local-offer",
                         !.generation = @ + 1, !.answered = answered]
  /\ negotiationState' = "none"
  /\ HandlerFails("offer")
  /\ signalStateCheckTimer' = timer
  /\ UNCHANGED <<negotiateCounter, timersFired, toClient, unoffered>>

(* createAndSendOffer with no negotiation under way, after the generation  *)
(* "answered" has been answered; "timer" is the negotiation timer by then. *)
sendOffer(iceRestart, answered, timer) ==
  makeOffer(iceRestart, answered) \/ failOffer(answered, timer)

(* Mutant: an attempt during a negotiation is skipped, not retried.        *)
createAndSendOfferNoRetry ==
  \/ negotiationState = "none" /\ sendOffer(FALSE, pc.answered, signalStateCheckTimer)
  \/ /\ negotiationState # "none"
     /\ UNCHANGED <<negotiationState, restartAtNextOffer, previousAnswer,
                    timerVars, pc, toClient, unoffered, failed>>

(* Mutant: an attempt during a negotiation abandons it.                    *)
createAndSendOfferAbandons ==
  \/ negotiationState = "none" /\ sendOffer(FALSE, pc.answered, signalStateCheckTimer)
  \/ /\ negotiationState # "none"
     /\ negotiationState' = "none"
     /\ UNCHANGED <<restartAtNextOffer, previousAnswer, timerVars, pc, toClient,
                    unoffered, failed>>

(* createAndSendOffer(nil): while an offer is unanswered the attempt is    *)
(* remembered and repeated after the answer.                               *)
createAndSendOffer ==
  \/ negotiationState = "none" /\ sendOffer(FALSE, pc.answered, signalStateCheckTimer)
  \/ /\ negotiationState # "none"
     /\ negotiationState' = "retry"
     /\ UNCHANGED <<restartAtNextOffer, previousAnswer, timerVars, pc, toClient,
                    unoffered, failed>>

handleSendOffer ==
  /\ Take("sendOffer")
  /\ createAndSendOffer
  /\ UNCHANGED restartAfterGathering

(* handleRemoteAnswerReceived.  The answer is applied to the pending offer *)
(* whatever offer it was made for; pion refuses it in the stable state.    *)
(* setRemoteDescription may also fail when pion has applied the answer: a  *)
(* sender does not start, or a cached candidate is refused.                *)
handleRemoteAnswerReceived ==
  LET answer == Head(queue).data IN
  /\ Take("answer")
  /\ \/ /\ pc.signalling = "have-local-offer"
        /\ negotiationState = "retry"
        /\ sendOffer(FALSE, answer, 0)
     \/ /\ pc.signalling = "have-local-offer"
        /\ negotiationState # "retry"
        /\ pc' = [pc EXCEPT !.signalling = "stable", !.answered = answer]
        /\ negotiationState' = "none"
        /\ clearSignalStateCheckTimer
        /\ UNCHANGED <<restartAtNextOffer, previousAnswer, toClient, unoffered,
                       failed>>
     \/ /\ Errors /\ pc.signalling = "have-local-offer"
        /\ HandlerFails("answer")
        /\ pc' \in {pc, [pc EXCEPT !.signalling = "stable", !.answered = answer]}
        /\ clearSignalStateCheckTimer
        /\ UNCHANGED <<negotiationState, restartAtNextOffer, previousAnswer,
                       toClient, unoffered>>
     \/ /\ pc.signalling = "stable"
        /\ HandlerFails("stale")
        /\ clearSignalStateCheckTimer
        /\ UNCHANGED <<negotiationState, restartAtNextOffer, previousAnswer, pc,
                       toClient, unoffered>>
  /\ UNCHANGED restartAfterGathering

(* Mutant: the first offer is sent again but no further offer follows it.  *)
resendOfferNoRetry ==
  /\ restartAtNextOffer' = TRUE
  /\ OnOffer(pc.generation)
  /\ UNCHANGED <<negotiationState, previousAnswer, timerVars, pc, unoffered>>

(* The branch of doICERestart for a first offer that was never answered:   *)
(* send it again and restart ICE at the next offer.                        *)
resendOffer ==
  /\ negotiationState' = "retry"
  /\ restartAtNextOffer' = TRUE
  /\ OnOffer(pc.generation)
  /\ UNCHANGED <<previousAnswer, timerVars, pc, unoffered>>

(* doICERestart, with restartAfterGathering = deferred when it is called.  *)
(* Nothing happens before the first offer, and a restart waits for the end *)
(* of gathering.  An unanswered first offer is sent again; an unanswered   *)
(* later one is rolled back by applying the last answer once more, which   *)
(* pion accepts while the offer is pending, or refuses.                    *)
doICERestart(deferred) ==
  /\ restartAfterGathering' = (deferred \/ pc.gathering = "gathering")
  /\ \/ /\ pc.gathering # "complete"
        /\ UNCHANGED <<negotiationState, restartAtNextOffer, previousAnswer,
                       timerVars, pc, toClient, unoffered, failed>>
     \/ /\ pc.gathering = "complete"
        /\ \/ negotiationState = "none"
           \/ pc.answered # 0 /\ pc.signalling = "have-local-offer"
        /\ sendOffer(TRUE, pc.answered, signalStateCheckTimer)
     \/ /\ pc.gathering = "complete"
        /\ negotiationState # "none" /\ pc.answered # 0
        /\ Errors \/ pc.signalling = "stable"
        /\ HandlerFails("answer")
        /\ pc' \in {pc, [pc EXCEPT !.signalling = "stable"]}
        /\ UNCHANGED <<negotiationState, restartAtNextOffer, previousAnswer,
                       timerVars, toClient, unoffered>>
     \/ /\ pc.gathering = "complete"
        /\ negotiationState # "none" /\ pc.answered = 0
        /\ resendOffer

handleICERestart == Take("iceRestart") /\ doICERestart(restartAfterGathering)

handleICEGatheringComplete ==
  /\ Take("iceGatheringComplete")
  /\ \/ restartAfterGathering /\ doICERestart(FALSE)
     \/ /\ ~restartAfterGathering
        /\ UNCHANGED <<negotiationState, restartVars, timerVars, pc, toClient,
                       unoffered, failed>>

Worker ==
  \/ handleSendOffer
  \/ handleRemoteAnswerReceived
  \/ handleICERestart
  \/ handleICEGatheringComplete

Next ==
  \/ NegotiateForce \/ NegotiateDebounced
  \/ DebounceFires \/ DebounceCallback \/ PostSendOffer
  \/ ICERestart \/ Resume
  \/ CloseBegins \/ CloseEnds
  \/ SignalStateCheckTimerExpires
  \/ \E version \in timersFired : SignalStateCheckTimerCallback(version)
  \/ IceGatheringCompletes \/ PeerConnects
  \/ ClientAnswers \/ HandleRemoteDescription
  \/ Worker

Spec == Init /\ [][Next]_vars

(* The worker and the debounce timer are goroutines that get to run, the   *)
(* client answers what it receives over a signal connection that is either *)
(* alive or resumed, and gathering ends.                                   *)
FairSpec ==
  /\ Spec
  /\ WF_vars(Worker)
  /\ WF_vars(DebounceFires) /\ WF_vars(DebounceCallback)
  /\ WF_vars(PostSendOffer)
  /\ WF_vars(ClientAnswers) /\ WF_vars(HandleRemoteDescription)
  /\ WF_vars(IceGatheringCompletes)

-----------------------------------------------------------------------------

Holds(q, signal) == \E i \in 1..Len(q) : q[i].signal = signal
Queued(signal) == Holds(queue, signal)

(* No request is forgotten: as long as some requested change is in no      *)
(* offer, the debounce timer, a callback, a queued event or the retry      *)
(* state will produce one, however callers, timers and the worker          *)
(* interleave; or pion refused to make the offer, and this was reported.   *)
RequestNotLost ==
  unoffered /\ ~isClosed =>
    \/ debounce \/ debounceFired > 0 \/ posting > 0
    \/ Queued("sendOffer")
    \/ negotiationState = "retry"
    \/ "offer" \in failed

(* The worker's negotiation state and the peer connection agree on whether *)
(* an offer is unanswered, so createAndSendOffer never disrupts a          *)
(* negotiation and pion accepts every answer the state machine waits for.  *)
(* They part only when pion fails, which is reported; neither a stale      *)
(* answer nor a lost message nor a timeout does it.                        *)
SignallingAgrees ==
  ~isClosed /\ failed \cap {"offer", "answer"} = {} =>
    (negotiationState = "none" <=> pc.signalling = "stable")

(* A restart that had to wait is not forgotten: gathering will complete or *)
(* its event is queued, and a restart left to the next offer has an offer  *)
(* to come.                                                                *)
DeferredRestartIsDue ==
  ~pc.closed =>
    /\ restartAfterGathering =>
         pc.gathering = "gathering" \/ Queued("iceGatheringComplete")
    /\ restartAtNextOffer => negotiationState = "retry"

(* Every requested change is offered to the client, unless the transport   *)
(* is closed or reports that negotiation failed.                           *)
RequestIsOffered == unoffered ~> ~unoffered \/ failed # {} \/ isClosed

(* A negotiation ends: the offer is answered, or a failure is reported.    *)
NegotiationEnds ==
  negotiationState # "none" ~> negotiationState = "none" \/ failed # {} \/ isClosed
=============================================================================
