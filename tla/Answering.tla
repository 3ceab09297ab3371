----------------------------- MODULE Answering -----------------------------
(***************************************************************************)
(* The answering side of PCTransport (pkg/rtc/transport_negotiation.go,    *)
(* transport_ice.go): the publisher's transport, which takes the client's  *)
(* offers, answers them and trickles ICE candidates both ways.             *)
(*                                                                         *)
(* Everything runs on the transport's event worker, one event at a time,   *)
(* in the order the events were posted (OpsQueue), while pion gathers      *)
(* candidates in a goroutine of its own: its state is read directly by the *)
(* worker, but its completion is only heard of through the queue.          *)
(*                                                                         *)
(* An offer is its identifier together with its ICE credential, a number   *)
(* that grows when the client restarts ICE.  A generation of local or      *)
(* remote candidates is one candidate, named like its credential.          *)
(* preferTCP and mDNS filtering are off, and connection statistics, RTX    *)
(* repairs and requests for more media sections are left out.              *)
(***************************************************************************)
EXTENDS Naturals, Sequences, SequencesExt, FiniteSets

CONSTANTS
  MaxOffers,      (* Bound: offers the client makes.                       *)
  MaxOutstanding  (* Bound: offers of the client that await an answer.     *)

ASSUME AnsweringAssumption ==
  MaxOffers \in Nat \ {0} /\ MaxOutstanding \in Nat \ {0}

Offer == 1..MaxOffers

VARIABLES
  (* The client.                                                           *)
  credential,  (* the ICE credential of each offer made so far             *)
  answers,     (* the answers that reached it: their id and, by the ghost  *)
               (* field "to", the offer that was applied                   *)
  candidates,  (* the server's candidates that reached it                  *)
  (* The event worker.                                                     *)
  queue, remoteOfferId, localAnswerId, currentOfferIceCredential,
  pendingRestartIceOffer, cacheLocalCandidates, cachedLocalCandidates,
  pendingRemoteCandidates, failed,
  (* The peer connection.                                                  *)
  remoteDescription,  (* the offer applied last, or 0                      *)
  gathering,          (* ICEGatheringState, "trickled" when it gathers and *)
                      (* has emitted its candidate                         *)
  generation,         (* ICE sessions begun                                *)
  added               (* remote candidates given to the ICE session        *)

clientVars == <<credential, answers, candidates>>
idVars == <<remoteOfferId, localAnswerId, currentOfferIceCredential>>
cacheVars == <<cacheLocalCandidates, cachedLocalCandidates>>
pcVars == <<remoteDescription, gathering, generation, added>>
vars == <<clientVars, queue, idVars, pendingRestartIceOffer, cacheVars,
          pendingRemoteCandidates, failed, pcVars>>

Event == [signal : {"offer", "local", "remote"}, data : Offer]
           \cup [signal : {"complete"}, data : {0}]

TypeOK ==
  /\ credential \in Seq(Offer) /\ Len(credential) <= MaxOffers
  /\ answers \in Seq([id : Offer, to : Offer])
  /\ candidates \subseteq Offer
  /\ queue \in Seq(Event)
  /\ remoteOfferId \in 0..MaxOffers /\ localAnswerId \in 0..MaxOffers
  /\ currentOfferIceCredential \in 0..MaxOffers
  /\ pendingRestartIceOffer \in 0..MaxOffers
  /\ cacheLocalCandidates \in BOOLEAN /\ cachedLocalCandidates \subseteq Offer
  /\ pendingRemoteCandidates \subseteq Offer /\ failed \in BOOLEAN
  /\ remoteDescription \in 0..MaxOffers
  /\ gathering \in {"new", "gathering", "trickled", "complete"}
  /\ generation \in 0..MaxOffers /\ added \subseteq Offer

Init ==
  /\ credential = <<>> /\ answers = <<>> /\ candidates = {}
  /\ queue = <<>> /\ remoteOfferId = 0 /\ localAnswerId = 0
  /\ currentOfferIceCredential = 0 /\ pendingRestartIceOffer = 0
  /\ cacheLocalCandidates = FALSE /\ cachedLocalCandidates = {}
  /\ pendingRemoteCandidates = {} /\ failed = FALSE
  /\ remoteDescription = 0 /\ gathering = "new" /\ generation = 0
  /\ added = {}

-----------------------------------------------------------------------------
(* The client.  It makes a plain offer when none of its offers awaits an   *)
(* answer, and restarts ICE also when some do (the server logs "multiple   *)
(* offers without answer" and goes on); a new credential comes with a      *)
(* candidate, signalled before or after the offer.                         *)

(* An answer settles the offer it names and those made before.             *)
Outstanding ==
  {o \in DOMAIN credential : \A i \in DOMAIN answers : answers[i].id < o}

(* The event an offer or a candidate of the client is posted as.           *)
Signalled(signal, data) == [signal |-> signal, data |-> data]

MakeOffer ==
  /\ credential # <<>> /\ Outstanding = {} /\ Len(credential) < MaxOffers
  /\ credential' = Append(credential, Last(credential))
  /\ queue' = Append(queue, Signalled("offer", Len(credential) + 1))
  /\ UNCHANGED <<answers, candidates, idVars, pendingRestartIceOffer,
                 cacheVars, pendingRemoteCandidates, failed, pcVars>>

RestartICE ==
  LET c == IF credential = <<>> THEN 1 ELSE Last(credential) + 1
      offer == Signalled("offer", Len(credential) + 1)
      candidate == Signalled("remote", c)
  IN  /\ Cardinality(Outstanding) < MaxOutstanding
      /\ Len(credential) < MaxOffers
      /\ credential' = Append(credential, c)
      /\ queue' \in {queue \o <<offer, candidate>>, queue \o <<candidate, offer>>}
      /\ UNCHANGED <<answers, candidates, idVars, pendingRestartIceOffer,
                     cacheVars, pendingRemoteCandidates, failed, pcVars>>

-----------------------------------------------------------------------------
(* pion's gathering goroutine emits the candidate of the session and then  *)
(* completes; the state changes before the event is handled.               *)

(* Mutant: the candidate is taken for one of the session before.           *)
onICECandidateTrickleLate ==
  /\ gathering = "gathering"
  /\ gathering' = "trickled"
  /\ queue' = Append(queue, Signalled("local", generation - 1))
  /\ UNCHANGED <<clientVars, idVars, pendingRestartIceOffer, cacheVars,
                 pendingRemoteCandidates, failed, remoteDescription,
                 generation, added>>

onICECandidateTrickle ==
  /\ gathering = "gathering"
  /\ gathering' = "trickled"
  /\ queue' = Append(queue, Signalled("local", generation))
  /\ UNCHANGED <<clientVars, idVars, pendingRestartIceOffer, cacheVars,
                 pendingRemoteCandidates, failed, remoteDescription,
                 generation, added>>

onICEGatheringStateChange ==
  /\ gathering = "trickled"
  /\ gathering' = "complete"
  /\ queue' = Append(queue, [signal |-> "complete", data |-> 0])
  /\ UNCHANGED <<clientVars, idVars, pendingRestartIceOffer, cacheVars,
                 pendingRemoteCandidates, failed, remoteDescription,
                 generation, added>>

IsGathering == gathering \in {"gathering", "trickled"}

-----------------------------------------------------------------------------
(* The handlers of the event worker.                                       *)

Take(signal) ==
  /\ ~failed /\ queue # <<>> /\ Head(queue).signal = signal
  /\ queue' = Tail(queue)

(* setRemoteDescription: a new credential restarts ICE and gathers afresh, *)
(* and candidates kept for want of a description are handed over.          *)
RestartsSession(o) ==
  remoteDescription = 0 \/ credential[o] # credential[remoteDescription]

setRemoteDescription(o) ==
  /\ remoteDescription' = o
  /\ added' = added \cup pendingRemoteCandidates
  /\ pendingRemoteCandidates' = {}
  /\ IF RestartsSession(o)
       THEN gathering' = "gathering" /\ generation' = generation + 1
       ELSE UNCHANGED <<gathering, generation>>

(* Mutant: localDescriptionSent is not called.                             *)
createAndSendAnswerOnly(o, cached) ==
  /\ answers' = Append(answers, [id |-> remoteOfferId', to |-> o])
  /\ localAnswerId' = remoteOfferId'
  /\ UNCHANGED <<cacheVars, candidates>>

(* createAndSendAnswer and localDescriptionSent: the answer bears the id   *)
(* of the last offer received; the cached candidates follow it.            *)
createAndSendAnswer(o, cached) ==
  /\ answers' = Append(answers, [id |-> remoteOfferId', to |-> o])
  /\ localAnswerId' = remoteOfferId'
  /\ cacheLocalCandidates' = FALSE /\ cachedLocalCandidates' = {}
  /\ candidates' = candidates \cup cached

(* An error of a handler, here a failing write of the answer, fails the    *)
(* negotiation: the client is told to reconnect and the transport closes.  *)
Fail == failed' = TRUE /\ UNCHANGED <<answers, localAnswerId, candidates>>

isRemoteOfferRestartICE(o) ==
  /\ currentOfferIceCredential # 0
  /\ currentOfferIceCredential # credential[o]

(* Is clearLocalDescriptionSent called?  It starts caching candidates and  *)
(* drops those in the cache.                                               *)
Clears(o) == isRemoteOfferRestartICE(o) /\ pendingRestartIceOffer = 0
Cached(o) == IF Clears(o) THEN {} ELSE cachedLocalCandidates

clearLocalDescriptionSent(o) ==
  /\ cacheLocalCandidates' = (cacheLocalCandidates \/ Clears(o))
  /\ cachedLocalCandidates' = Cached(o)

(* Mutants: no offer waits; every offer that restarts ICE waits.           *)
NeverWait(o) == FALSE
WaitAnyway(o) == isRemoteOfferRestartICE(o)

(* handleRemoteOfferReceived: an offer that restarts ICE while candidates  *)
(* are gathered waits for the gathering to complete.                       *)
MustWait(o) == isRemoteOfferRestartICE(o) /\ IsGathering

(* Mutant: the first offer that waits stays the one to apply.              *)
DeferFirstOffer(o) ==
  /\ MustWait(o)
  /\ remoteOfferId' = o
  /\ pendingRestartIceOffer' = IF pendingRestartIceOffer = 0
                                 THEN o ELSE pendingRestartIceOffer
  /\ clearLocalDescriptionSent(o)
  /\ UNCHANGED <<clientVars, localAnswerId, currentOfferIceCredential,
                 pendingRemoteCandidates, failed, pcVars>>

DeferOffer(o) ==
  /\ MustWait(o)
  /\ remoteOfferId' = o
  /\ pendingRestartIceOffer' = o
  /\ clearLocalDescriptionSent(o)
  /\ UNCHANGED <<clientVars, localAnswerId, currentOfferIceCredential,
                 pendingRemoteCandidates, failed, pcVars>>

AcceptOffer(o) ==
  /\ ~MustWait(o)
  /\ remoteOfferId' = o
  /\ setRemoteDescription(o)
  /\ currentOfferIceCredential' =
       IF currentOfferIceCredential = 0 \/ isRemoteOfferRestartICE(o)
         THEN credential[o] ELSE currentOfferIceCredential
  /\ \/ /\ createAndSendAnswer(o, Cached(o))
        /\ UNCHANGED failed
     \/ /\ Fail
        /\ clearLocalDescriptionSent(o)
  /\ UNCHANGED <<credential, pendingRestartIceOffer>>

handleRemoteOfferReceived ==
  /\ Take("offer")
  /\ DeferOffer(Head(queue).data) \/ AcceptOffer(Head(queue).data)

(* handleICEGatheringCompleteAnswerer: the offer that waited, if any, is   *)
(* applied now.  The credential it brought is not recorded.                *)
handleICEGatheringCompleteAnswerer ==
  /\ Take("complete")
  /\ \/ /\ pendingRestartIceOffer = 0
        /\ UNCHANGED <<answers, candidates, localAnswerId, cacheVars,
                       pendingRemoteCandidates, failed, pcVars>>
     \/ /\ pendingRestartIceOffer # 0
        /\ remoteOfferId' = remoteOfferId
        /\ setRemoteDescription(pendingRestartIceOffer)
        /\ \/ /\ createAndSendAnswer(pendingRestartIceOffer, cachedLocalCandidates)
              /\ UNCHANGED failed
           \/ /\ Fail
              /\ UNCHANGED cacheVars
  /\ pendingRestartIceOffer' = 0
  /\ UNCHANGED <<credential, remoteOfferId, currentOfferIceCredential>>

handleLocalICECandidate ==
  /\ Take("local")
  /\ IF cacheLocalCandidates
       THEN /\ cachedLocalCandidates' = cachedLocalCandidates \cup {Head(queue).data}
            /\ UNCHANGED candidates
       ELSE /\ candidates' = candidates \cup {Head(queue).data}
            /\ UNCHANGED cachedLocalCandidates
  /\ UNCHANGED <<credential, answers, idVars, pendingRestartIceOffer,
                 cacheLocalCandidates, pendingRemoteCandidates, failed, pcVars>>

(* The ICE session drops a candidate whose credential is not the one of    *)
(* the description (external).                                             *)
handleRemoteICECandidate ==
  /\ Take("remote")
  /\ IF remoteDescription = 0
       THEN /\ pendingRemoteCandidates' = pendingRemoteCandidates \cup {Head(queue).data}
            /\ UNCHANGED added
       ELSE /\ added' = added \cup ({Head(queue).data} \cap {credential[remoteDescription]})
            /\ UNCHANGED pendingRemoteCandidates
  /\ UNCHANGED <<clientVars, idVars, pendingRestartIceOffer, cacheVars, failed,
                 remoteDescription, gathering, generation>>

Worker ==
  \/ handleRemoteOfferReceived \/ handleICEGatheringCompleteAnswerer
  \/ handleLocalICECandidate \/ handleRemoteICECandidate

Gatherer == ~failed /\ (onICECandidateTrickle \/ onICEGatheringStateChange)

Next == Worker \/ Gatherer \/ (~failed /\ (MakeOffer \/ RestartICE))

(* The worker drains its queue and gathering ends: pion bounds it by       *)
(* timeouts of its own.  Whether the client offers is its own affair.      *)
Spec == Init /\ [][Next]_vars /\ WF_vars(Worker) /\ WF_vars(Gatherer)

-----------------------------------------------------------------------------
(* Properties.                                                             *)

(* The first answer that names an offer answers that very offer, although  *)
(* the offer may have waited for candidates to be gathered, a later one    *)
(* may have overtaken it meanwhile, and the id kept for the answer         *)
(* (remoteOfferId) is shared by all offers.  A later answer of the same    *)
(* name is to an offer that waited and was overtaken.                      *)
FirstAnswerIsForItsOffer ==
  \A i \in DOMAIN answers :
    \/ answers[i].id = answers[i].to
    \/ \E j \in 1..(i - 1) : answers[j].id = answers[i].id

(* An offer that waited has been applied although a later one overtook it. *)
Overtaken == \E i \in DOMAIN answers : answers[i].id # answers[i].to

(* An offer that arrives while candidates are gathered never restarts ICE, *)
(* which is what putting it off is for, although the credential the offers *)
(* are compared with (line 1060) is stale after a restart that was put     *)
(* off.  When offers overlap, the one that waited is applied at whatever   *)
(* completion comes first, and after it was overtaken the credential of    *)
(* the description is not the one the client has now.                      *)
RestartWaitsForGathering ==
  [][generation' # generation /\ IsGathering =>
       Overtaken \/ Head(queue).signal = "complete"]_vars

(* Every offer is answered in the end, or one made after it, or the        *)
(* negotiation has failed: an offer put off is not forgotten when          *)
(* gathering completes, whatever credential the server compares it with.   *)
OffersAreAnswered ==
  \A o \in Offer :
    o \in DOMAIN credential ~> (o \notin Outstanding \/ failed)

(* Unless the negotiation fails, the candidates of every ICE session reach *)
(* the client, through the cache or not, before or after a restart is put  *)
(* off; and the client's first candidate, which may come before there is a *)
(* description to add it to, reaches the ICE session.                      *)
CandidatesArrive ==
  /\ \A g \in Offer :
       generation = g ~> (g \in candidates \/ generation # g \/ failed)
  /\ remoteDescription # 0 ~> (1 \in added \/ failed)
=============================================================================
