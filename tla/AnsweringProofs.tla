-------------------------- MODULE AnsweringProofs ---------------------------
(***************************************************************************)
(* Proofs about module Answering, for any number of offers, however many   *)
(* of them the client has out at a time.                                   *)
(***************************************************************************)
EXTENDS Answering, TLAPS

(* Credentials grow from offer to offer, by one at most.                   *)
CredentialsGrow ==
  /\ \A i \in DOMAIN credential : credential[i] <= i
  /\ \A i, j \in DOMAIN credential : i <= j => credential[i] <= credential[j]

(* The offers in a queue come in the order they were made, after offer
   "last" and up to offer "max".                                           *)
Ordered(q, last, max) ==
  /\ q \in Seq(Event)
  /\ \A i \in DOMAIN q :
       q[i].signal = "offer" => last < q[i].data /\ q[i].data <= max
  /\ \A i, j \in DOMAIN q :
       i < j /\ q[i].signal = "offer" /\ q[j].signal = "offer" => q[i].data < q[j].data

(* Offers are received in the order they were made, each one once.         *)
OffersInOrder ==
  /\ remoteOfferId <= Len(credential)
  /\ pendingRestartIceOffer <= remoteOfferId
  /\ remoteDescription <= remoteOfferId
  /\ Ordered(queue, remoteOfferId, Len(credential))

(* An ICE session takes an offer that has been received, and is not the one
   that waits.                                                             *)
SessionsAreCounted ==
  /\ generation <= remoteOfferId
  /\ pendingRestartIceOffer # 0 => generation < remoteOfferId
  /\ generation = 0 => gathering = "new"

IInv == TypeOK /\ CredentialsGrow /\ OffersInOrder /\ SessionsAreCounted

(* While an offer waits, the id kept for its answer is its own, or that of
   a later offer that has overtaken it and has been answered.              *)
LatestIsAnswered ==
  pendingRestartIceOffer # 0 /\ ~failed =>
    \/ pendingRestartIceOffer = remoteOfferId
    \/ \E i \in DOMAIN answers : answers[i].id = remoteOfferId

(* The credential offers are compared with may be stale, but until an
   overtaken offer is applied never ahead of the description.              *)
CredentialLags ==
  /\ remoteDescription = 0 =>
       /\ gathering = "new" /\ currentOfferIceCredential = 0
       /\ pendingRestartIceOffer = 0
  /\ remoteDescription # 0 =>
       /\ currentOfferIceCredential # 0
       /\ \/ Overtaken \/ failed
          \/ currentOfferIceCredential <= credential[remoteDescription]

OInv == IInv /\ FirstAnswerIsForItsOffer /\ LatestIsAnswered /\ CredentialLags

(* The action of RestartWaitsForGathering.                                 *)
Waits ==
  generation' # generation /\ IsGathering => Overtaken \/ Head(queue).signal = "complete"

USE AnsweringAssumption DEF Offer

-----------------------------------------------------------------------------
(* The queue.                                                              *)

(* Handling an event moves the others up by one.                           *)
LEMMA TailIndex ==
  ASSUME NEW q \in Seq(Event), q # <<>>
  PROVE  /\ Tail(q) \in Seq(Event) /\ Head(q) = q[1] /\ q[1] \in Event
         /\ 1 \in DOMAIN q
         /\ \A i \in DOMAIN Tail(q) :
              /\ i \in Nat /\ i + 1 \in DOMAIN q /\ i + 1 > 1
              /\ Tail(q)[i] = q[i + 1]
OBVIOUS

(* An event is posted behind the others.                                   *)
LEMMA AppendIndex ==
  ASSUME NEW q \in Seq(Event), NEW e \in Event
  PROVE  /\ Append(q, e) \in Seq(Event)
         /\ \A i \in DOMAIN q : i <= Len(q) /\ Append(q, e)[i] = q[i]
         /\ \A i \in DOMAIN Append(q, e) :
              /\ i \in Nat
              /\ i \in DOMAIN q \/ (i = Len(q) + 1 /\ Append(q, e)[i] = e)
OBVIOUS

(* Events are an offer, a candidate or the end of gathering.               *)
LEMMA EventTypes ==
  /\ \A s \in {"offer", "local", "remote"}, o \in Offer : Signalled(s, o) \in Event
  /\ [signal |-> "complete", data |-> 0] \in Event
  /\ \A e \in Event : e.signal # "complete" => e.data \in Offer
BY DEF Event, Signalled

(* Posting the two events of an ICE restart, one after the other.          *)
LEMMA RestartPosts ==
  ASSUME NEW q \in Seq(Event), NEW a \in Event, NEW b \in Event
  PROVE  q \o <<a, b>> = Append(Append(q, a), b)
OBVIOUS

(* Order is kept behind the worker, and an offer that is posted is the
   latest.                                                                 *)
LEMMA OrderedTail ==
  ASSUME NEW q, NEW last \in Nat, NEW max \in Nat, Ordered(q, last, max), q # <<>>
  PROVE  /\ Ordered(Tail(q), last, max)
         /\ q[1].signal = "offer" => /\ Ordered(Tail(q), q[1].data, max)
                                     /\ last < q[1].data /\ q[1].data <= max
<1>1. q \in Seq(Event)
  BY DEF Ordered
<1>2. /\ Tail(q) \in Seq(Event) /\ Head(q) = q[1] /\ q[1] \in Event
      /\ 1 \in DOMAIN q
      /\ \A i \in DOMAIN Tail(q) :
           /\ i \in Nat /\ i + 1 \in DOMAIN q /\ i + 1 > 1
           /\ Tail(q)[i] = q[i + 1]
  BY <1>1, TailIndex
<1>3. Ordered(Tail(q), last, max)
  <2>1. ASSUME NEW i \in DOMAIN Tail(q), NEW j \in DOMAIN Tail(q), i < j
        PROVE  i + 1 < j + 1
    BY <1>2, <2>1
  <2> QED BY <1>2, <2>1 DEF Ordered
<1>4. ASSUME q[1].signal = "offer"
      PROVE  /\ Ordered(Tail(q), q[1].data, max)
             /\ last < q[1].data /\ q[1].data <= max
  <2>1. last < q[1].data /\ q[1].data <= max
    BY <1>2, <1>4 DEF Ordered
  <2>2. \A i \in DOMAIN Tail(q) :
          Tail(q)[i].signal = "offer" => q[1].data < Tail(q)[i].data
    BY <1>2, <1>4 DEF Ordered
  <2> QED BY <1>3, <2>1, <2>2 DEF Ordered
<1> QED BY <1>3, <1>4

LEMMA OrderedAppend ==
  ASSUME NEW q, NEW last \in Nat, NEW max \in Nat, Ordered(q, last, max),
         last <= max, NEW e \in Event
  PROVE  /\ e.signal # "offer" => Ordered(Append(q, e), last, max)
         /\ e = Signalled("offer", max + 1) => Ordered(Append(q, e), last, max + 1)
<1>1. q \in Seq(Event)
  BY DEF Ordered
<1>2. /\ Append(q, e) \in Seq(Event)
      /\ \A i \in DOMAIN q : i <= Len(q) /\ Append(q, e)[i] = q[i]
      /\ \A i \in DOMAIN Append(q, e) :
           /\ i \in Nat
           /\ i \in DOMAIN q \/ (i = Len(q) + 1 /\ Append(q, e)[i] = e)
  BY <1>1, AppendIndex
<1>3. ASSUME e.signal # "offer" PROVE Ordered(Append(q, e), last, max)
  BY <1>2, <1>3 DEF Ordered
<1>4. ASSUME e = Signalled("offer", max + 1)
      PROVE  Ordered(Append(q, e), last, max + 1)
  <2>1. e.signal = "offer" /\ e.data = max + 1
    BY <1>4 DEF Signalled
  <2>2. \A i \in DOMAIN q :
          q[i].signal = "offer" => q[i].data \in Nat /\ q[i].data <= max
    BY <1>1, EventTypes DEF Ordered
  <2>3. ASSUME NEW i \in DOMAIN Append(q, e), Append(q, e)[i].signal = "offer"
        PROVE  last < Append(q, e)[i].data /\ Append(q, e)[i].data <= max + 1
    BY <1>2, <2>1, <2>2, <2>3 DEF Ordered
  <2>4. ASSUME NEW i \in DOMAIN Append(q, e), NEW j \in DOMAIN Append(q, e), i < j,
               Append(q, e)[i].signal = "offer", Append(q, e)[j].signal = "offer"
        PROVE  Append(q, e)[i].data < Append(q, e)[j].data
    <3>1. i \in DOMAIN q
      <4>1. CASE i = Len(q) + 1
        BY <1>1, <1>2, <2>4, <4>1
      <4> QED BY <1>2, <4>1
    <3>2. CASE j \in DOMAIN q
      BY <1>2, <2>4, <3>1, <3>2 DEF Ordered
    <3>3. CASE j = Len(q) + 1 /\ Append(q, e)[j] = e
      BY <1>2, <2>1, <2>2, <2>4, <3>1, <3>3
    <3> QED BY <1>2, <3>2, <3>3
  <2> QED BY <1>2, <2>3, <2>4 DEF Ordered
<1> QED BY <1>3, <1>4

-----------------------------------------------------------------------------
(* The types, for any number of offers out at a time.                      *)

LEMMA InitIInv == Init => IInv
<1> SUFFICES ASSUME Init PROVE IInv
  OBVIOUS
<1>1. TypeOK
  <2>1. /\ <<>> \in Seq(Offer) /\ Len(<<>>) = 0 /\ <<>> \in Seq(Event)
        /\ <<>> \in Seq([id : Offer, to : Offer])
    OBVIOUS
  <2>2. MaxOffers \in Nat /\ 0 \in 0..MaxOffers /\ 0 <= MaxOffers
    OBVIOUS
  <2>3. failed \in BOOLEAN /\ cacheLocalCandidates \in BOOLEAN
    BY Zenon DEF Init
  <2>4. Len(credential) <= MaxOffers /\ credential \in Seq(Offer)
    BY <2>1, <2>2 DEF Init
  <2> QED BY <2>1, <2>2, <2>3, <2>4, Zenon DEF Init, TypeOK
<1>2. CredentialsGrow /\ OffersInOrder /\ SessionsAreCounted
  BY DEF Init, CredentialsGrow, OffersInOrder, Ordered, SessionsAreCounted
<1> QED BY <1>1, <1>2 DEF IInv

(* The types of what the lemmas below speak of.                            *)
LEMMA InvTypes ==
  ASSUME IInv
  PROVE  /\ Len(credential) \in Nat /\ Len(credential) <= MaxOffers
         /\ remoteOfferId \in Nat /\ generation \in Nat
         /\ remoteOfferId <= Len(credential)
         /\ queue \in Seq(Event)
         /\ \A i \in DOMAIN credential : credential[i] \in Offer /\ i \in Offer
BY DEF IInv, TypeOK, OffersInOrder

(* Only the client's credentials and the queue change.                     *)
LEMMA OfferIInv ==
  ASSUME IInv, NEW c \in Offer, NEW q,
         credential' = Append(credential, c), Len(credential) < MaxOffers,
         c <= Len(credential) + 1,
         \A i \in DOMAIN credential : credential[i] <= c,
         queue' = q, Ordered(q, remoteOfferId, Len(credential) + 1),
         UNCHANGED <<answers, candidates, idVars, pendingRestartIceOffer,
                     cacheVars, pendingRemoteCandidates, failed, pcVars>>
  PROVE  IInv'
<1> USE DEF idVars, cacheVars, pcVars
<1>1. credential \in Seq(Offer)
  BY DEF IInv, TypeOK
<1>2. /\ credential' \in Seq(Offer) /\ Len(credential') = Len(credential) + 1
      /\ DOMAIN credential' = 1..(Len(credential) + 1)
      /\ DOMAIN credential = 1..Len(credential)
      /\ \A i \in DOMAIN credential : credential'[i] = credential[i]
      /\ credential'[Len(credential) + 1] = c
  BY <1>1
<1>3. TypeOK'
  BY <1>2, InvTypes DEF IInv, TypeOK, Ordered
<1>4. CredentialsGrow'
  <2>a. Len(credential) \in Nat /\ \A i \in DOMAIN credential : credential[i] \in Nat
    BY InvTypes
  <2>1. \A i \in DOMAIN credential' : credential'[i] <= i
    BY <1>2, <2>a DEF IInv, CredentialsGrow
  <2>2. ASSUME NEW i \in DOMAIN credential', NEW j \in DOMAIN credential', i <= j
        PROVE  credential'[i] <= credential'[j]
    <3>1. CASE j \in DOMAIN credential
      BY <1>2, <2>a, <2>2, <3>1 DEF IInv, CredentialsGrow
    <3>2. CASE j = Len(credential) + 1
      BY <1>2, <2>a, <2>2, <3>2
    <3> QED BY <1>2, <2>a, <3>1, <3>2
  <2> QED BY <2>1, <2>2 DEF CredentialsGrow
<1>5. OffersInOrder'
  BY <1>2, InvTypes DEF IInv, OffersInOrder
<1>6. SessionsAreCounted'
  BY DEF IInv, SessionsAreCounted
<1> QED BY <1>3, <1>4, <1>5, <1>6 DEF IInv

LEMMA MakeOfferIInv == ASSUME IInv, MakeOffer PROVE IInv'
<1> DEFINE n == Len(credential)
           e == Signalled("offer", n + 1)
<1>1. /\ credential \in Seq(Offer) /\ credential # <<>> /\ n \in Nat /\ n < MaxOffers
      /\ n \in DOMAIN credential
      /\ credential' = Append(credential, credential[n])
      /\ queue' = Append(queue, e)
  <2>1. credential \in Seq(Offer) /\ credential # <<>> /\ Len(credential) < MaxOffers
    BY DEF MakeOffer, IInv, TypeOK
  <2>2. Len(credential) \in Nat /\ Len(credential) \in DOMAIN credential
    BY <2>1
  <2>3. Last(credential) = credential[Len(credential)]
    BY DEF Last
  <2> QED BY <2>1, <2>2, <2>3 DEF MakeOffer
<1>2. e \in Event
  BY <1>1, EventTypes
<1>3. Ordered(Append(queue, e), remoteOfferId, n + 1)
  BY <1>2, InvTypes, OrderedAppend DEF IInv, OffersInOrder
<1>4. /\ credential[n] \in Offer /\ credential[n] <= n + 1
      /\ \A i \in DOMAIN credential : credential[i] <= credential[n]
  BY <1>1 DEF IInv, CredentialsGrow
<1>5. UNCHANGED <<answers, candidates, idVars, pendingRestartIceOffer,
                  cacheVars, pendingRemoteCandidates, failed, pcVars>>
  BY DEF MakeOffer
<1> QED BY <1>1, <1>3, <1>4, <1>5, OfferIInv

LEMMA RestartICEIInv == ASSUME IInv, RestartICE PROVE IInv'
<1> DEFINE n == Len(credential)
           c == IF credential = <<>> THEN 1 ELSE Last(credential) + 1
           o == Signalled("offer", n + 1)
           r == Signalled("remote", c)
<1>1. /\ credential \in Seq(Offer) /\ n \in Nat /\ n < MaxOffers
      /\ credential' = Append(credential, c)
      /\ queue' = queue \o <<o, r>> \/ queue' = queue \o <<r, o>>
  <2>1. credential \in Seq(Offer) /\ n \in Nat
    BY DEF IInv, TypeOK
  <2> QED BY <2>1, Zenon DEF RestartICE
<1>2. c \in Offer /\ c <= n + 1 /\ \A i \in DOMAIN credential : credential[i] <= c
  <2>1. CASE credential = <<>>
    BY <1>1, <2>1
  <2>2. CASE credential # <<>>
    <3>1. Last(credential) = credential[n] /\ n \in DOMAIN credential
      BY <1>1, <2>2 DEF Last
    <3>2. credential[n] \in Offer /\ credential[n] <= n
      BY <1>1, <3>1 DEF IInv, CredentialsGrow
    <3>3. \A i \in DOMAIN credential :
            credential[i] \in Offer /\ credential[i] <= credential[n]
      BY <1>1, <3>1 DEF IInv, CredentialsGrow
    <3> QED BY <1>1, <2>2, <3>1, <3>2, <3>3
  <2> QED BY <2>1, <2>2
<1>3. o \in Event /\ r \in Event /\ o.signal = "offer" /\ r.signal = "remote"
  BY <1>1, <1>2, EventTypes DEF Signalled
<1>4. /\ queue \in Seq(Event)
      /\ queue \o <<o, r>> = Append(Append(queue, o), r)
      /\ queue \o <<r, o>> = Append(Append(queue, r), o)
  BY <1>3, InvTypes, RestartPosts
<1>5. Ordered(queue, remoteOfferId, n) /\ remoteOfferId \in Nat /\ remoteOfferId <= n
  BY InvTypes DEF IInv, OffersInOrder
<1>6. Ordered(Append(Append(queue, o), r), remoteOfferId, n + 1)
  <2>1. Ordered(Append(queue, o), remoteOfferId, n + 1)
    BY <1>1, <1>3, <1>5, OrderedAppend
  <2> DEFINE q == Append(queue, o)
             m == n + 1
  <2>2. Ordered(q, remoteOfferId, m) /\ m \in Nat /\ remoteOfferId <= m
    BY <1>1, <1>5, <2>1
  <2> HIDE DEF q, m, r
  <2>3. Ordered(Append(q, r), remoteOfferId, m)
    BY <1>3, <1>5, <2>2, OrderedAppend
  <2> QED BY <2>3 DEF q, m
<1>7. Ordered(Append(Append(queue, r), o), remoteOfferId, n + 1)
  <2>1. Ordered(Append(queue, r), remoteOfferId, n)
    BY <1>1, <1>3, <1>5, OrderedAppend
  <2> QED BY <1>1, <1>3, <1>5, <2>1, OrderedAppend
<1>8. Ordered(queue', remoteOfferId, n + 1)
  BY <1>1, <1>4, <1>6, <1>7
<1>9. UNCHANGED <<answers, candidates, idVars, pendingRestartIceOffer,
                  cacheVars, pendingRemoteCandidates, failed, pcVars>>
  BY DEF RestartICE
<1> QED BY <1>1, <1>2, <1>8, <1>9, OfferIInv

(* pion posts a candidate, and the end of gathering.                       *)
LEMMA GathererIInv == ASSUME IInv, Gatherer PROVE IInv'
<1>a. /\ Ordered(queue, remoteOfferId, Len(credential)) /\ remoteOfferId \in Nat
      /\ Len(credential) \in Nat /\ remoteOfferId <= Len(credential)
  BY InvTypes DEF IInv, OffersInOrder
<1>b. generation # 0 /\ generation \in Offer
  BY DEF Gatherer, onICECandidateTrickle, onICEGatheringStateChange, IInv,
         SessionsAreCounted, TypeOK
<1>1. PICK e \in Event : e.signal # "offer" /\ queue' = Append(queue, e)
  <2>1. CASE onICECandidateTrickle
    BY <2>1, <1>b, EventTypes DEF onICECandidateTrickle, Signalled
  <2>2. CASE onICEGatheringStateChange
    BY <2>2, EventTypes DEF onICEGatheringStateChange
  <2> QED BY <2>1, <2>2 DEF Gatherer
<1>2. Ordered(queue', remoteOfferId, Len(credential))
  BY <1>a, <1>1, OrderedAppend
<1>3. /\ gathering' \in {"trickled", "complete"}
      /\ UNCHANGED <<clientVars, idVars, pendingRestartIceOffer, cacheVars,
                     pendingRemoteCandidates, failed, remoteDescription,
                     generation, added>>
  BY DEF Gatherer, onICECandidateTrickle, onICEGatheringStateChange
<1> QED
  BY <1>b, <1>2, <1>3 DEF IInv, TypeOK, CredentialsGrow, OffersInOrder, Ordered,
     SessionsAreCounted, clientVars, idVars, cacheVars

(* The worker takes the first event.                                       *)
LEMMA TakeFacts ==
  ASSUME IInv, NEW signal, Take(signal)
  PROVE  /\ queue \in Seq(Event) /\ queue # <<>> /\ queue' = Tail(queue)
         /\ Head(queue) = queue[1] /\ queue[1] \in Event /\ queue[1].signal = signal
         /\ 1 \in DOMAIN queue
         /\ signal # "complete" => queue[1].data \in Offer
         /\ Ordered(queue', remoteOfferId, Len(credential))
         /\ signal = "offer" =>
              /\ Ordered(queue', queue[1].data, Len(credential))
              /\ remoteOfferId < queue[1].data /\ queue[1].data <= Len(credential)
<1>1. /\ queue \in Seq(Event) /\ queue # <<>> /\ queue' = Tail(queue)
      /\ Head(queue).signal = signal
  BY InvTypes DEF Take
<1>2. Head(queue) = queue[1] /\ queue[1] \in Event /\ 1 \in DOMAIN queue
  BY <1>1
<1>3. Ordered(queue, remoteOfferId, Len(credential))
  BY DEF IInv, OffersInOrder
<1>4. /\ Ordered(queue', remoteOfferId, Len(credential))
      /\ queue[1].signal = "offer" =>
           /\ Ordered(queue', queue[1].data, Len(credential))
           /\ remoteOfferId < queue[1].data /\ queue[1].data <= Len(credential)
  BY <1>1, <1>3, InvTypes, OrderedTail
<1> QED BY <1>1, <1>2, <1>4, EventTypes

(* A handler that leaves offers and ICE sessions alone.                    *)
LEMMA CandidateIInv ==
  ASSUME IInv, NEW signal, Take(signal),
         UNCHANGED <<credential, answers, idVars, pendingRestartIceOffer,
                     cacheLocalCandidates, failed, remoteDescription,
                     gathering, generation>>,
         candidates' \subseteq Offer, cachedLocalCandidates' \subseteq Offer,
         pendingRemoteCandidates' \subseteq Offer, added' \subseteq Offer
  PROVE  IInv'
BY TakeFacts DEF IInv, TypeOK, CredentialsGrow, OffersInOrder, SessionsAreCounted,
   Ordered, idVars

LEMMA LocalIInv == ASSUME IInv, handleLocalICECandidate PROVE IInv'
<1>1. Take("local") /\ queue[1].data \in Offer /\ Head(queue) = queue[1]
  BY TakeFacts DEF handleLocalICECandidate
<1>2. /\ UNCHANGED <<credential, answers, idVars, pendingRestartIceOffer,
                     cacheLocalCandidates, failed, remoteDescription,
                     gathering, generation, pendingRemoteCandidates, added>>
      /\ candidates' \subseteq candidates \cup {queue[1].data}
      /\ cachedLocalCandidates' \subseteq cachedLocalCandidates \cup {queue[1].data}
  <2>1. CASE cacheLocalCandidates
    BY <2>1, <1>1 DEF handleLocalICECandidate, pcVars
  <2>2. CASE ~cacheLocalCandidates
    BY <2>2, <1>1 DEF handleLocalICECandidate, pcVars
  <2> QED BY <2>1, <2>2
<1>3. /\ candidates \subseteq Offer /\ cachedLocalCandidates \subseteq Offer
      /\ pendingRemoteCandidates \subseteq Offer /\ added \subseteq Offer
  BY DEF IInv, TypeOK
<1> QED BY <1>1, <1>2, <1>3, CandidateIInv

LEMMA RemoteIInv == ASSUME IInv, handleRemoteICECandidate PROVE IInv'
<1>1. Take("remote") /\ queue[1].data \in Offer /\ Head(queue) = queue[1]
  BY TakeFacts DEF handleRemoteICECandidate
<1>2. /\ UNCHANGED <<credential, answers, idVars, pendingRestartIceOffer,
                     cacheLocalCandidates, failed, remoteDescription,
                     gathering, generation, candidates, cachedLocalCandidates>>
      /\ pendingRemoteCandidates' \subseteq pendingRemoteCandidates \cup {queue[1].data}
      /\ added' \subseteq added \cup {queue[1].data}
  <2>1. CASE remoteDescription = 0
    BY <2>1, <1>1 DEF handleRemoteICECandidate, clientVars, cacheVars
  <2>2. CASE remoteDescription # 0
    BY <2>2, <1>1 DEF handleRemoteICECandidate, clientVars, cacheVars
  <2> QED BY <2>1, <2>2
<1>3. /\ candidates \subseteq Offer /\ cachedLocalCandidates \subseteq Offer
      /\ pendingRemoteCandidates \subseteq Offer /\ added \subseteq Offer
  BY DEF IInv, TypeOK
<1> QED BY <1>1, <1>2, <1>3, CandidateIInv

(* Applying a description begins at most one ICE session.                  *)
LEMMA SetRemoteFacts ==
  ASSUME IInv, NEW o \in Offer, setRemoteDescription(o)
  PROVE  /\ remoteDescription' = o
         /\ added' \subseteq Offer /\ pendingRemoteCandidates' = {}
         /\ gathering' \in {"new", "gathering", "trickled", "complete"}
         /\ generation' \in {generation, generation + 1}
         /\ generation' = 0 => gathering' = "new"
<1>1. /\ remoteDescription' = o /\ pendingRemoteCandidates' = {}
      /\ added' = added \cup pendingRemoteCandidates
  BY DEF setRemoteDescription
<1>2. /\ added \subseteq Offer /\ pendingRemoteCandidates \subseteq Offer
      /\ gathering \in {"new", "gathering", "trickled", "complete"}
      /\ generation \in Nat /\ (generation = 0 => gathering = "new")
  BY DEF IInv, TypeOK, SessionsAreCounted
<1>3. CASE RestartsSession(o)
  BY <1>1, <1>2, <1>3 DEF setRemoteDescription
<1>4. CASE ~RestartsSession(o)
  BY <1>1, <1>2, <1>4 DEF setRemoteDescription
<1> QED BY <1>3, <1>4

(* An answer, whether it is sent or fails.                                 *)
LEMMA AnswerTypes ==
  ASSUME IInv, NEW o \in Offer, NEW cached \in SUBSET Offer,
         remoteOfferId' \in Offer,
         \/ createAndSendAnswer(o, cached) /\ UNCHANGED failed
         \/ /\ Fail
            /\ cacheLocalCandidates' \in BOOLEAN
            /\ cachedLocalCandidates' \subseteq Offer
  PROVE  /\ answers' \in Seq([id : Offer, to : Offer])
         /\ localAnswerId' \in 0..MaxOffers
         /\ cacheLocalCandidates' \in BOOLEAN
         /\ cachedLocalCandidates' \subseteq Offer /\ candidates' \subseteq Offer
         /\ failed' \in BOOLEAN
<1>1. /\ answers \in Seq([id : Offer, to : Offer])
      /\ localAnswerId \in 0..MaxOffers /\ candidates \subseteq Offer
      /\ failed \in BOOLEAN
  BY DEF IInv, TypeOK
<1>2. CASE createAndSendAnswer(o, cached) /\ UNCHANGED failed
  <2>1. [id |-> remoteOfferId', to |-> o] \in [id : Offer, to : Offer]
    OBVIOUS
  <2>2. answers' \in Seq([id : Offer, to : Offer])
    BY <1>1, <1>2, <2>1 DEF createAndSendAnswer
  <2>3. cacheLocalCandidates' \in BOOLEAN /\ failed' \in BOOLEAN
    BY <1>1, <1>2, Zenon DEF createAndSendAnswer
  <2> QED BY <1>1, <1>2, <2>2, <2>3 DEF createAndSendAnswer
<1>3. CASE Fail /\ cacheLocalCandidates' \in BOOLEAN /\ cachedLocalCandidates' \subseteq Offer
  <2>1. failed' \in BOOLEAN
    BY <1>3, Zenon DEF Fail
  <2> QED BY <1>1, <1>3, <2>1 DEF Fail
<1> QED BY <1>2, <1>3

(* What may be in the cache after clearLocalDescriptionSent.               *)
LEMMA ClearTypes ==
  ASSUME IInv, NEW o
  PROVE  /\ Cached(o) \in SUBSET Offer
         /\ clearLocalDescriptionSent(o) =>
              cacheLocalCandidates' \in BOOLEAN /\ cachedLocalCandidates' \subseteq Offer
<1>1. cachedLocalCandidates \subseteq Offer
  BY DEF IInv, TypeOK
<1>2. Cached(o) \subseteq Offer
  BY <1>1 DEF Cached
<1>3. clearLocalDescriptionSent(o) => cacheLocalCandidates' \in BOOLEAN
  BY Zenon DEF clearLocalDescriptionSent
<1> QED BY <1>2, <1>3 DEF clearLocalDescriptionSent

(* An offer is received: it waits, or is applied and answered.             *)
LEMMA OfferReceivedIInv == ASSUME IInv, handleRemoteOfferReceived PROVE IInv'
<1> DEFINE o == queue[1].data
<1>1. /\ Head(queue).data = o /\ o \in Offer
      /\ Ordered(queue', o, Len(credential)) /\ queue' \in Seq(Event)
      /\ remoteOfferId < o /\ o <= Len(credential)
  BY TakeFacts DEF handleRemoteOfferReceived, Ordered
<1>2. /\ remoteOfferId \in 0..MaxOffers /\ generation \in 0..MaxOffers
      /\ pendingRestartIceOffer \in 0..MaxOffers
      /\ remoteDescription \in 0..MaxOffers
      /\ pendingRestartIceOffer <= remoteOfferId
      /\ remoteDescription <= remoteOfferId
      /\ generation <= remoteOfferId
      /\ pendingRestartIceOffer # 0 => generation < remoteOfferId
      /\ generation = 0 => gathering = "new"
  BY DEF IInv, TypeOK, OffersInOrder, SessionsAreCounted
<1> HIDE DEF o
<1>3. CASE DeferOffer(o)
  <2>1. /\ remoteOfferId' = o /\ pendingRestartIceOffer' = o
        /\ clearLocalDescriptionSent(o)
        /\ UNCHANGED <<clientVars, localAnswerId, currentOfferIceCredential,
                       pendingRemoteCandidates, failed, pcVars>>
    BY <1>3 DEF DeferOffer
  <2>2. TypeOK'
    BY <1>1, <1>2, <2>1, ClearTypes DEF IInv, TypeOK, clientVars, pcVars
  <2>3. CredentialsGrow'
    BY <2>1 DEF IInv, CredentialsGrow, clientVars
  <2>4. OffersInOrder'
    BY <1>1, <1>2, <2>1 DEF OffersInOrder, clientVars, pcVars
  <2>5. SessionsAreCounted'
    BY <1>1, <1>2, <2>1 DEF SessionsAreCounted, pcVars
  <2> QED BY <2>2, <2>3, <2>4, <2>5 DEF IInv
<1>4. CASE AcceptOffer(o)
  <2>1. /\ remoteOfferId' = o /\ setRemoteDescription(o)
        /\ UNCHANGED <<credential, pendingRestartIceOffer>>
        /\ currentOfferIceCredential' \in {credential[o], currentOfferIceCredential}
    BY <1>4 DEF AcceptOffer
  <2>2. \/ createAndSendAnswer(o, Cached(o)) /\ UNCHANGED failed
        \/ Fail /\ clearLocalDescriptionSent(o)
    BY <1>4 DEF AcceptOffer
  <2>3. Cached(o) \in SUBSET Offer
    BY ClearTypes
  <2>4. /\ answers' \in Seq([id : Offer, to : Offer])
        /\ localAnswerId' \in 0..MaxOffers
        /\ cacheLocalCandidates' \in BOOLEAN
        /\ cachedLocalCandidates' \subseteq Offer /\ candidates' \subseteq Offer
        /\ failed' \in BOOLEAN
    BY <1>1, <2>1, <2>2, <2>3, ClearTypes, AnswerTypes
  <2>5. /\ remoteDescription' = o
        /\ added' \subseteq Offer /\ pendingRemoteCandidates' = {}
        /\ gathering' \in {"new", "gathering", "trickled", "complete"}
        /\ generation' \in {generation, generation + 1}
        /\ generation' = 0 => gathering' = "new"
    BY <1>1, <2>1, SetRemoteFacts
  <2>6. credential \in Seq(Offer) /\ Len(credential) <= MaxOffers /\ credential[o] \in Offer
    BY <1>1, InvTypes DEF IInv, TypeOK
  <2>7. TypeOK'
    <3>1. generation' \in 0..MaxOffers
      BY <1>1, <1>2, <2>5
    <3>2. currentOfferIceCredential' \in 0..MaxOffers
      BY <2>1, <2>6 DEF IInv, TypeOK
    <3> QED BY <1>1, <1>2, <2>1, <2>4, <2>5, <2>6, <3>1, <3>2 DEF TypeOK
  <2>8. CredentialsGrow'
    BY <2>1 DEF IInv, CredentialsGrow
  <2>9. OffersInOrder'
    BY <1>1, <1>2, <2>1, <2>5 DEF OffersInOrder
  <2>10. SessionsAreCounted'
    BY <1>1, <1>2, <2>1, <2>5 DEF SessionsAreCounted
  <2> QED BY <2>7, <2>8, <2>9, <2>10 DEF IInv
<1> QED BY <1>1, <1>3, <1>4 DEF handleRemoteOfferReceived

(* Gathering has ended: the offer that waited is applied and answered.     *)
LEMMA GatheringCompleteIInv ==
  ASSUME IInv, handleICEGatheringCompleteAnswerer PROVE IInv'
<1> DEFINE o == pendingRestartIceOffer
<1>1. /\ Ordered(queue', remoteOfferId, Len(credential)) /\ queue' \in Seq(Event)
      /\ pendingRestartIceOffer' = 0
      /\ UNCHANGED <<credential, remoteOfferId, currentOfferIceCredential>>
  BY TakeFacts DEF handleICEGatheringCompleteAnswerer, Ordered
<1>2. /\ remoteOfferId \in 0..MaxOffers /\ generation \in 0..MaxOffers
      /\ o \in 0..MaxOffers /\ o <= remoteOfferId
      /\ generation <= remoteOfferId
      /\ o # 0 => generation < remoteOfferId
  BY DEF IInv, TypeOK, OffersInOrder, SessionsAreCounted
<1>3. CASE o = 0
  <2>1. UNCHANGED <<answers, candidates, localAnswerId, cacheVars,
                    pendingRemoteCandidates, failed, pcVars>>
    BY <1>3 DEF handleICEGatheringCompleteAnswerer
  <2> QED
    BY <1>1, <1>2, <1>3, <2>1
       DEF IInv, TypeOK, CredentialsGrow, OffersInOrder, SessionsAreCounted,
           cacheVars, pcVars
<1>4. CASE o # 0
  <2>1. /\ setRemoteDescription(o)
        /\ \/ createAndSendAnswer(o, cachedLocalCandidates) /\ UNCHANGED failed
           \/ Fail /\ UNCHANGED cacheVars
    BY <1>4 DEF handleICEGatheringCompleteAnswerer
  <2>2. o \in Offer /\ remoteOfferId' \in Offer
    BY <1>1, <1>2, <1>4
  <2>3. cacheLocalCandidates \in BOOLEAN /\ cachedLocalCandidates \in SUBSET Offer
    BY DEF IInv, TypeOK
  <2>4. /\ answers' \in Seq([id : Offer, to : Offer])
        /\ localAnswerId' \in 0..MaxOffers
        /\ cacheLocalCandidates' \in BOOLEAN
        /\ cachedLocalCandidates' \subseteq Offer /\ candidates' \subseteq Offer
        /\ failed' \in BOOLEAN
    BY <2>1, <2>2, <2>3, AnswerTypes DEF cacheVars
  <2>5. /\ remoteDescription' = o
        /\ added' \subseteq Offer /\ pendingRemoteCandidates' = {}
        /\ gathering' \in {"new", "gathering", "trickled", "complete"}
        /\ generation' \in {generation, generation + 1}
        /\ generation' = 0 => gathering' = "new"
    BY <2>1, <2>2, SetRemoteFacts
  <2>6. TypeOK'
    <3>1. generation' \in 0..MaxOffers /\ remoteDescription' \in 0..MaxOffers
      BY <1>2, <1>4, <2>5
    <3>2. /\ credential' \in Seq(Offer) /\ Len(credential') <= MaxOffers
          /\ remoteOfferId' \in 0..MaxOffers
          /\ currentOfferIceCredential' \in 0..MaxOffers
          /\ pendingRestartIceOffer' \in 0..MaxOffers
      BY <1>1 DEF IInv, TypeOK
    <3> QED BY <1>1, <2>4, <2>5, <3>1, <3>2 DEF TypeOK
  <2>7. CredentialsGrow'
    BY <1>1 DEF IInv, CredentialsGrow
  <2>8. OffersInOrder'
    BY <1>1, <1>2, <2>5 DEF IInv, OffersInOrder
  <2>9. SessionsAreCounted'
    BY <1>1, <1>2, <1>4, <2>5 DEF SessionsAreCounted
  <2> QED BY <2>6, <2>7, <2>8, <2>9 DEF IInv
<1> QED BY <1>3, <1>4

(* Every step preserves the invariant.                                     *)
LEMMA NextIInv == IInv /\ [Next]_vars => IInv'
<1> SUFFICES ASSUME IInv, [Next]_vars PROVE IInv'
  OBVIOUS
<1>1. CASE Worker
  BY <1>1, OfferReceivedIInv, GatheringCompleteIInv, LocalIInv, RemoteIInv DEF Worker
<1>2. CASE Gatherer
  BY <1>2, GathererIInv
<1>3. CASE MakeOffer \/ RestartICE
  BY <1>3, MakeOfferIInv, RestartICEIInv
<1>4. CASE UNCHANGED vars
  BY <1>4 DEF IInv, TypeOK, CredentialsGrow, OffersInOrder, SessionsAreCounted,
              vars, clientVars, idVars, cacheVars, pcVars
<1> QED BY <1>1, <1>2, <1>3, <1>4 DEF Next

(* However many offers the client has out, they are received in order, each
   once, and begin at most one ICE session each.                           *)
THEOREM AlwaysIInv == Spec => []IInv
<1>1. Init => IInv
  BY InitIInv
<1>2. IInv /\ [Next]_vars => IInv'
  BY NextIInv
<1> QED BY <1>1, <1>2, PTL DEF Spec

(* The state of the transport keeps its types: in particular the worker
   never answers an offer it does not have, and pion never gathers for more
   sessions than there were offers.                                        *)
THEOREM AnsweringTypes == Spec => []TypeOK
<1>1. IInv => TypeOK
  BY DEF IInv
<1> QED BY <1>1, AlwaysIInv, PTL

-----------------------------------------------------------------------------
(* Answers and restarts.                                                   *)

LEMMA InitOInv == Init => OInv
<1> SUFFICES ASSUME Init PROVE OInv
  OBVIOUS
<1>1. IInv
  BY InitIInv
<1>2. /\ DOMAIN answers = {} /\ pendingRestartIceOffer = 0 /\ remoteDescription = 0
      /\ gathering = "new" /\ currentOfferIceCredential = 0
  BY DEF Init
<1>3. FirstAnswerIsForItsOffer /\ LatestIsAnswered /\ CredentialLags
  BY <1>2 DEF FirstAnswerIsForItsOffer, LatestIsAnswered, CredentialLags
<1> QED BY <1>1, <1>3 DEF OInv

(* Steps that leave the offers received, the answers and the description
   alone, and of the credentials those of the offers made.                 *)
LEMMA AsideOInv ==
  ASSUME OInv, IInv',
         UNCHANGED <<answers, remoteOfferId, currentOfferIceCredential,
                     pendingRestartIceOffer, remoteDescription, failed>>,
         gathering = "new" => gathering' = "new",
         \A i \in DOMAIN credential : credential'[i] = credential[i]
  PROVE  OInv'
<1>1. FirstAnswerIsForItsOffer' /\ LatestIsAnswered' /\ Overtaken' = Overtaken
  BY DEF OInv, FirstAnswerIsForItsOffer, LatestIsAnswered, Overtaken
<1>2. remoteDescription # 0 => remoteDescription \in DOMAIN credential
  BY DEF OInv, IInv, TypeOK, OffersInOrder
<1>3. CredentialLags'
  BY <1>1, <1>2 DEF OInv, CredentialLags
<1> QED BY <1>1, <1>3 DEF OInv

LEMMA ClientOInv == ASSUME OInv, MakeOffer \/ RestartICE PROVE OInv'
<1>1. IInv'
  BY MakeOfferIInv, RestartICEIInv DEF OInv
<1>2. \A i \in DOMAIN credential : credential'[i] = credential[i]
  <2>1. credential \in Seq(Offer)
    BY DEF OInv, IInv, TypeOK
  <2>2. \E c : credential' = Append(credential, c)
    BY DEF MakeOffer, RestartICE
  <2>3. credential' \in Seq(Offer)
    BY <1>1 DEF IInv, TypeOK
  <2> QED BY <2>1, <2>2, <2>3
<1>3. UNCHANGED <<answers, remoteOfferId, currentOfferIceCredential, gathering,
                  pendingRestartIceOffer, remoteDescription, failed>>
  BY DEF MakeOffer, RestartICE, idVars, pcVars
<1> QED BY <1>1, <1>2, <1>3, AsideOInv

LEMMA GathererOInv == ASSUME OInv, Gatherer PROVE OInv'
<1>1. IInv'
  BY GathererIInv DEF OInv
<1>2. /\ gathering # "new"
      /\ UNCHANGED <<credential, answers, remoteOfferId, currentOfferIceCredential,
                     pendingRestartIceOffer, remoteDescription, failed>>
  BY DEF Gatherer, onICECandidateTrickle, onICEGatheringStateChange, clientVars, idVars
<1> QED BY <1>1, <1>2, AsideOInv

LEMMA CandidateOInv ==
  ASSUME OInv, handleLocalICECandidate \/ handleRemoteICECandidate PROVE OInv'
<1>1. IInv'
  BY LocalIInv, RemoteIInv DEF OInv
<1>2. UNCHANGED <<credential, answers, remoteOfferId, currentOfferIceCredential,
                  pendingRestartIceOffer, remoteDescription, gathering, failed>>
  BY DEF handleLocalICECandidate, handleRemoteICECandidate, clientVars, idVars, pcVars
<1> QED BY <1>1, <1>2, AsideOInv

(* An answer to the offer it names, or one that repeats a name.            *)
LEMMA AnswerFacts ==
  ASSUME OInv, NEW o \in Offer, NEW cached, remoteOfferId' \in Offer,
         createAndSendAnswer(o, cached),
         \/ remoteOfferId' = o
         \/ \E i \in DOMAIN answers : answers[i].id = remoteOfferId'
  PROVE  /\ FirstAnswerIsForItsOffer'
         /\ Overtaken => Overtaken'
         /\ remoteOfferId' # o => Overtaken'
         /\ \E i \in DOMAIN answers' : answers'[i].id = remoteOfferId'
<1> DEFINE e == [id |-> remoteOfferId', to |-> o]
           n == Len(answers) + 1
<1>1. answers \in Seq([id : Offer, to : Offer])
  BY DEF OInv, IInv, TypeOK
<1>2. answers' = Append(answers, e) /\ e \in [id : Offer, to : Offer]
  BY DEF createAndSendAnswer
<1>3. /\ Len(answers) \in Nat /\ n \in Nat /\ n \in DOMAIN answers' /\ answers'[n] = e
      /\ DOMAIN answers = 1..Len(answers)
      /\ \A i \in DOMAIN answers : i \in DOMAIN answers' /\ answers'[i] = answers[i]
      /\ \A i \in DOMAIN answers' : i \in DOMAIN answers \/ i = n
  BY <1>1, <1>2
<1>4. e.id = remoteOfferId' /\ e.to = o
  OBVIOUS
<1> HIDE DEF e, n
<1>5. ASSUME NEW i \in DOMAIN answers'
      PROVE  \/ answers'[i].id = answers'[i].to
             \/ \E j \in 1..(i - 1) : answers'[j].id = answers'[i].id
  <2>1. CASE i \in DOMAIN answers
    <3>1. CASE answers[i].id = answers[i].to
      BY <1>3, <2>1, <3>1
    <3>2. CASE \E j \in 1..(i - 1) : answers[j].id = answers[i].id
      <4>1. PICK j \in 1..(i - 1) : answers[j].id = answers[i].id
        BY <3>2
      <4>2. j \in DOMAIN answers
        BY <1>3, <2>1, <4>1
      <4> QED BY <1>3, <2>1, <4>1, <4>2
    <3> QED BY <2>1, <3>1, <3>2 DEF OInv, FirstAnswerIsForItsOffer
  <2>2. CASE i = n
    <3>1. CASE remoteOfferId' = o
      BY <1>3, <1>4, <2>2, <3>1
    <3>2. CASE \E j \in DOMAIN answers : answers[j].id = remoteOfferId'
      <4>1. PICK j \in DOMAIN answers : answers[j].id = remoteOfferId'
        BY <3>2
      <4>2. j \in 1..(i - 1) /\ answers'[j] = answers[j]
        BY <1>3, <2>2, <4>1 DEF n
      <4> QED BY <1>3, <1>4, <2>2, <4>1, <4>2
    <3> QED BY <3>1, <3>2
  <2> QED BY <1>3, <2>1, <2>2
<1>6. FirstAnswerIsForItsOffer'
  BY <1>5 DEF FirstAnswerIsForItsOffer
<1>7. Overtaken => Overtaken'
  BY <1>3 DEF Overtaken
<1>8. remoteOfferId' # o => Overtaken'
  BY <1>3, <1>4 DEF Overtaken
<1> QED BY <1>3, <1>4, <1>6, <1>7, <1>8

LEMMA OfferReceivedOInv ==
  ASSUME OInv, handleRemoteOfferReceived PROVE OInv' /\ Waits
<1> DEFINE o == queue[1].data
<1>1. IInv'
  BY OfferReceivedIInv DEF OInv
<1>2. /\ Head(queue).data = o /\ o \in Offer /\ remoteOfferId < o
      /\ o <= Len(credential) /\ remoteOfferId \in Nat /\ ~failed
  BY TakeFacts, InvTypes DEF OInv, handleRemoteOfferReceived, Take
<1>3. /\ credential \in Seq(Offer) /\ Len(credential) \in Nat /\ o \in DOMAIN credential
      /\ credential[o] \in Offer
  <2>1. credential \in Seq(Offer)
    BY DEF OInv, IInv, TypeOK
  <2> HIDE DEF o
  <2> QED BY ONLY <1>2, <2>1, AnsweringAssumption DEF Offer
<1> HIDE DEF o
<1>4. CASE DeferOffer(o)
  <2>1. /\ remoteOfferId' = o /\ pendingRestartIceOffer' = o
        /\ isRemoteOfferRestartICE(o)
        /\ UNCHANGED <<credential, answers, currentOfferIceCredential, failed,
                       remoteDescription, gathering, generation>>
    BY <1>4 DEF DeferOffer, MustWait, clientVars, pcVars
  <2>2. FirstAnswerIsForItsOffer' /\ LatestIsAnswered' /\ Overtaken' = Overtaken
    BY <2>1 DEF OInv, FirstAnswerIsForItsOffer, LatestIsAnswered, Overtaken
  <2>3. remoteDescription # 0
    BY <2>1 DEF OInv, CredentialLags, isRemoteOfferRestartICE
  <2>4. CredentialLags'
    BY <2>1, <2>2, <2>3 DEF OInv, CredentialLags
  <2> QED BY <1>1, <2>1, <2>2, <2>4 DEF OInv, Waits
<1>5. CASE AcceptOffer(o)
  <2>1. /\ remoteOfferId' = o /\ setRemoteDescription(o) /\ ~MustWait(o)
        /\ UNCHANGED <<credential, pendingRestartIceOffer>>
        /\ remoteDescription' = o /\ o # 0
        /\ currentOfferIceCredential' = credential[o]
    BY <1>2, <1>5 DEF AcceptOffer, setRemoteDescription, isRemoteOfferRestartICE
  <2>2. credential[o] # 0 /\ credential[o] <= credential[o]
    BY <1>3
  <2>3. OInv'
    <3>1. CASE createAndSendAnswer(o, Cached(o)) /\ UNCHANGED failed
      <4>1. /\ FirstAnswerIsForItsOffer'
            /\ \E i \in DOMAIN answers' : answers'[i].id = remoteOfferId'
        BY <1>2, <2>1, <3>1, AnswerFacts
      <4>2. LatestIsAnswered'
        BY <4>1 DEF LatestIsAnswered
      <4>3. CredentialLags'
        BY <2>1, <2>2 DEF CredentialLags
      <4> QED BY <1>1, <4>1, <4>2, <4>3 DEF OInv
    <3>2. CASE Fail
      <4>1. failed' /\ answers' = answers
        BY <3>2 DEF Fail
      <4>2. FirstAnswerIsForItsOffer' /\ LatestIsAnswered'
        BY <4>1 DEF OInv, FirstAnswerIsForItsOffer, LatestIsAnswered
      <4>3. CredentialLags'
        BY <2>1, <2>2 DEF CredentialLags
      <4> QED BY <1>1, <4>2, <4>3 DEF OInv
    <3> QED BY <1>5, <3>1, <3>2 DEF AcceptOffer
  <2>4. Waits
    <3> SUFFICES ASSUME IsGathering, ~Overtaken PROVE ~RestartsSession(o)
      BY <2>1 DEF Waits, setRemoteDescription
    <3>1. remoteDescription # 0 /\ currentOfferIceCredential # 0
      BY DEF OInv, CredentialLags, IsGathering
    <3>2. currentOfferIceCredential = credential[o]
      BY <2>1, <3>1 DEF MustWait, isRemoteOfferRestartICE
    <3>3. currentOfferIceCredential <= credential[remoteDescription]
      BY <1>2, <3>1 DEF OInv, CredentialLags
    <3>4. remoteDescription \in DOMAIN credential /\ remoteDescription <= o
      BY <1>2, <1>3, <3>1 DEF OInv, IInv, TypeOK, OffersInOrder
    <3>5. credential[remoteDescription] <= credential[o]
      BY <1>3, <3>4 DEF OInv, IInv, CredentialsGrow
    <3>6. credential[remoteDescription] \in Nat /\ credential[o] \in Nat
      BY <1>3, <3>4
    <3> QED BY <3>1, <3>2, <3>3, <3>5, <3>6 DEF RestartsSession
  <2> QED BY <2>3, <2>4
<1> QED BY <1>2, <1>4, <1>5 DEF handleRemoteOfferReceived

LEMMA GatheringCompleteOInv ==
  ASSUME OInv, handleICEGatheringCompleteAnswerer PROVE OInv' /\ Waits
<1> DEFINE o == pendingRestartIceOffer
<1>1. IInv'
  BY GatheringCompleteIInv DEF OInv
<1>2. Waits /\ ~failed
  BY DEF handleICEGatheringCompleteAnswerer, Take, Waits
<1>3. /\ pendingRestartIceOffer' = 0
      /\ UNCHANGED <<credential, remoteOfferId, currentOfferIceCredential>>
  BY DEF handleICEGatheringCompleteAnswerer
<1>4. LatestIsAnswered'
  BY <1>3 DEF LatestIsAnswered
<1>5. CASE o = 0
  <2>1. UNCHANGED <<answers, remoteDescription, gathering, failed>>
    BY <1>5 DEF handleICEGatheringCompleteAnswerer, pcVars
  <2>2. FirstAnswerIsForItsOffer' /\ Overtaken' = Overtaken
    BY <2>1 DEF OInv, FirstAnswerIsForItsOffer, Overtaken
  <2>3. CredentialLags'
    BY <1>3, <2>1, <2>2 DEF OInv, CredentialLags
  <2> QED BY <1>1, <1>2, <1>4, <2>2, <2>3 DEF OInv
<1>6. CASE o # 0
  <2>1. /\ setRemoteDescription(o) /\ remoteDescription' = o
        /\ \/ createAndSendAnswer(o, cachedLocalCandidates) /\ UNCHANGED failed
           \/ Fail
    BY <1>6 DEF handleICEGatheringCompleteAnswerer, setRemoteDescription
  <2>2. /\ o \in Offer /\ o <= remoteOfferId /\ remoteOfferId <= Len(credential)
        /\ remoteOfferId \in Offer
    BY <1>6 DEF OInv, IInv, TypeOK, OffersInOrder
  <2>3. remoteDescription # 0 /\ currentOfferIceCredential # 0
    BY <1>6 DEF OInv, CredentialLags
  <2>4. CASE Fail
    <3>1. failed' /\ answers' = answers
      BY <2>4 DEF Fail
    <3>2. FirstAnswerIsForItsOffer'
      BY <3>1 DEF OInv, FirstAnswerIsForItsOffer
    <3>3. CredentialLags'
      BY <1>3, <1>6, <2>1, <2>3, <3>1 DEF CredentialLags
    <3> QED BY <1>1, <1>2, <1>4, <3>2, <3>3 DEF OInv
  <2>5. CASE createAndSendAnswer(o, cachedLocalCandidates)
    <3>1. o = remoteOfferId \/ \E i \in DOMAIN answers : answers[i].id = remoteOfferId
      BY <1>2, <1>6 DEF OInv, LatestIsAnswered
    <3>2. /\ FirstAnswerIsForItsOffer'
          /\ Overtaken => Overtaken'
          /\ remoteOfferId # o => Overtaken'
      BY <1>3, <2>2, <2>5, <3>1, AnswerFacts
    <3>3. Overtaken' \/ currentOfferIceCredential <= credential[o]
      <4> SUFFICES ASSUME ~Overtaken, remoteOfferId = o
                   PROVE  currentOfferIceCredential <= credential[o]
        BY <3>2
      <4>1. currentOfferIceCredential <= credential[remoteDescription]
        BY <1>2, <2>3 DEF OInv, CredentialLags
      <4>2. /\ credential \in Seq(Offer) /\ o \in DOMAIN credential
            /\ remoteDescription \in DOMAIN credential /\ remoteDescription <= o
        BY <2>2, <2>3 DEF OInv, IInv, TypeOK, OffersInOrder
      <4>3. credential[remoteDescription] <= credential[o]
        BY <4>2 DEF OInv, IInv, CredentialsGrow
      <4>4. /\ credential[remoteDescription] \in Nat /\ credential[o] \in Nat
            /\ currentOfferIceCredential \in Nat
        BY <4>2 DEF OInv, IInv, TypeOK
      <4> QED BY <4>1, <4>3, <4>4
    <3>4. CredentialLags'
      BY <1>3, <1>6, <2>1, <2>3, <3>3 DEF CredentialLags
    <3> QED BY <1>1, <1>2, <1>4, <3>2, <3>4 DEF OInv
  <2> QED BY <2>1, <2>4, <2>5
<1> QED BY <1>5, <1>6

(* Every step keeps the stronger invariant, and no offer restarts ICE when
   it should wait.                                                         *)
LEMMA NextOInv == OInv /\ [Next]_vars => OInv' /\ [Waits]_vars
<1> SUFFICES ASSUME OInv, [Next]_vars PROVE OInv' /\ [Waits]_vars
  OBVIOUS
<1>1. CASE Worker
  <2>1. CASE handleRemoteOfferReceived \/ handleICEGatheringCompleteAnswerer
    BY <2>1, OfferReceivedOInv, GatheringCompleteOInv
  <2>2. CASE handleLocalICECandidate \/ handleRemoteICECandidate
    <3>1. generation' = generation
      BY <2>2 DEF handleLocalICECandidate, handleRemoteICECandidate, pcVars
    <3> QED BY <2>2, <3>1, CandidateOInv DEF Waits
  <2> QED BY <1>1, <2>1, <2>2 DEF Worker
<1>2. CASE Gatherer
  <2>1. generation' = generation
    BY <1>2 DEF Gatherer, onICECandidateTrickle, onICEGatheringStateChange
  <2> QED BY <1>2, <2>1, GathererOInv DEF Waits
<1>3. CASE MakeOffer \/ RestartICE
  <2>1. generation' = generation
    BY <1>3 DEF MakeOffer, RestartICE, pcVars
  <2> QED BY <1>3, <2>1, ClientOInv DEF Waits
<1>4. CASE UNCHANGED vars
  <2>1. IInv'
    BY <1>4, NextIInv DEF OInv
  <2> QED BY <1>4, <2>1, AsideOInv DEF vars, clientVars, idVars, pcVars
<1> QED BY <1>1, <1>2, <1>3, <1>4 DEF Next

(* The invariant about answers holds in every reachable state.             *)
THEOREM AlwaysOInv == Spec => []OInv
<1>1. Init => OInv
  BY InitOInv
<1>2. OInv /\ [Next]_vars => OInv'
  BY NextOInv
<1> QED BY <1>1, <1>2, PTL DEF Spec

(* The first answer that names an offer is the answer to that offer, however
   many offers are out, wait for gathering or overtake one that waits.     *)
THEOREM FirstAnswersAreExact == Spec => []FirstAnswerIsForItsOffer
<1>1. OInv => FirstAnswerIsForItsOffer
  BY DEF OInv
<1> QED BY <1>1, AlwaysOInv, PTL

(* An offer that arrives while candidates are gathered does not restart ICE,
   however many are out, although it is compared with a credential that may
   be stale.                                                               *)
THEOREM OffersWaitForGathering == Spec => RestartWaitsForGathering
<1>1. OInv /\ [Next]_vars =>
        [generation' # generation /\ IsGathering =>
           Overtaken \/ Head(queue).signal = "complete"]_vars
  BY NextOInv DEF Waits
<1> QED BY <1>1, AlwaysOInv, PTL DEF Spec, RestartWaitsForGathering
=============================================================================
