-------------------------- MODULE PublishingProofs --------------------------
(***************************************************************************)
(* Proofs about module Publishing for any number of requests and of remote *)
(* tracks: the types are kept, a subscriber of a closed track is on its    *)
(* way out, and the tracks of a participant that may publish do not        *)
(* overlap.                                                                *)
(***************************************************************************)
EXTENDS Publishing, TLAPS

SafeSpec == Init /\ [][Next]_vars

(* Positions of a closer that has cleared the receivers.                   *)
Cleared == {"removeSubs", "mark", "unlist", "unqueue", "remove", "done"}

(* Media makes at most one track, and only before it is attached; it has a *)
(* receiver that forwards only after that.                                 *)
MediaInv ==
  \A m \in Media :
    /\ m > fired => pc[m] = "none"
    /\ m \in pendingRemoteTracks => pc[m] = "waiting"
    /\ state[m] # "none" =>
         pc[m] \in {"register", "attach", "setup", "permit", "done"}
    /\ m \in forwarding => pc[m] \in {"permit", "done"}
    /\ pc[m] \in {"register", "attach", "setup", "permit"} \/ m \in forwarding =>
         track[m] \in Media /\ state[track[m]] # "none"

(* Only tracks that were made are on the list.                             *)
ListInv ==
  \A i \in Sid : publishedTracks[i] # 0 => state[publishedTracks[i]] # "none"

(* A track that was not made has nothing.                                  *)
NoneIsBare(t) ==
  state[t] = "none" =>
    /\ adding[t] = "idle" /\ receiver[t] = 0
    /\ \A c \in Closer : closers[t][c].at = "idle"

(* A track gives up its receiver only while it closes, and gets no other.  *)
ReceiverInv(t) ==
  /\ \A c \in Closer : closers[t][c].at = "clear" => state[t] # "open"
  /\ \A c \in Closer : closers[t][c].at \in Cleared =>
                         receiver[t] = 0 /\ state[t] # "open"
  /\ state[t] = "closed" => receiver[t] = 0

(* A subscriber that stays is one whom whoever clears the receivers of the *)
(* track finds, or is about to find, or has found.                         *)
Going(t) == t \in flushing \/ \E c \in Closer : closers[t][c].at = "removeSubs"

SubscriberInv(t) ==
  /\ t \in subscribers => adding[t] \in {"added", "done"}
  /\ adding[t] # "idle" /\ state[t] = "open" => receiver[t] # 0
  /\ t \in subscribers /\ adding[t] = "done" /\ state[t] # "open" =>
       receiver[t] # 0 \/ Going(t)

TrackInv == \A t \in Media : NoneIsBare(t) /\ ReceiverInv(t) /\ SubscriberInv(t)

(* A closer that has yet to begin is idle.                                 *)
BeginInv ==
  \A t \in Media :
    /\ canPublish => closers[t][Revoke].at = "idle"
    /\ closing \in {"no", "pending"} => closers[t][CloseAll].at = "idle"
    /\ \A m \in Media : pc[m] # "done" => closers[t][Check(m)].at = "idle"
    /\ \A m \in Media : m \in forwarding \/ pc[m] \notin {"permit", "done"} =>
                         closers[t][Receiver(m)].at = "idle"

(* The inductive invariant, but for BeginInv.                              *)
IInv == TypeOK /\ MediaInv /\ ListInv /\ TrackInv

(* What the invariant says of a track depends on these variables only.     *)
LEMMA TrackAside ==
  ASSUME TrackInv,
         UNCHANGED <<state, receiver, subscribers, flushing, adding, closers>>
  PROVE  TrackInv'
  BY DEF TrackInv, NoneIsBare, ReceiverInv, SubscriberInv, Going

(* The initial state satisfies the invariant.                              *)
LEMMA InitIInv == Init => IInv
<1> SUFFICES ASSUME Init PROVE IInv
  OBVIOUS
<1>1. TypeOK
  <2>1. closers \in [Media -> [Closer -> CloserPlace]]
    BY DEF Init, Idle, CloserPlace, CloserAt
  <2>2. /\ requests \in 0..MaxRequests /\ granted \in Nat /\ fired \in 0..MaxMedia
        /\ lock \in 0..MaxMedia
        /\ publishedTracks \in [Sid -> 0..MaxMedia]
        /\ track \in [Media -> 0..MaxMedia] /\ sid \in [Media -> 0..MaxRequests]
        /\ receiver \in [Media -> 0..MaxMedia]
    BY PublishingAssumption DEF Init
  <2>3. pendingTracks \in Seq(Sid)
    BY DEF Init
  <2>4. /\ pc \in [Media -> Place]
        /\ state \in [Media -> {"none", "open", "closing", "closed"}]
        /\ adding \in [Media -> {"idle", "checked", "added", "done"}]
    BY DEF Init, Place
  <2> QED BY <2>1, <2>2, <2>3, <2>4 DEF Init, TypeOK
<1>2. MediaInv /\ ListInv
  BY DEF Init, MediaInv, ListInv, Media
<1>3. TrackInv
  BY DEF Init, TrackInv, NoneIsBare, ReceiverInv, SubscriberInv, Cleared, Idle
<1> QED BY <1>1, <1>2, <1>3 DEF IInv

(* A request is granted or queued.                                         *)
LEMMA AddTrackKeepsIInv ==
  ASSUME IInv, AddTrack
  PROVE  IInv'
<1> USE DEF AddTrack, trackVars
<1>1. TypeOK'
  <2>1. setTrackID \in Sid
    BY PublishingAssumption DEF IInv, TypeOK, setTrackID, Sid
  <2>2. pendingTracks' \in Seq(Sid)
    BY <2>1 DEF IInv, TypeOK
  <2>3. requests' \in 0..MaxRequests /\ granted' \in Nat
    BY PublishingAssumption DEF IInv, TypeOK
  <2>4. queued' \in BOOLEAN
    BY DEF IInv, TypeOK
  <2>5. /\ pendingRemoteTracks' \subseteq Media
        /\ pc' \in [Media -> Place]
    BY DEF IInv, TypeOK, handlePendingRemoteTracks, Place
  <2> QED BY <2>2, <2>3, <2>4, <2>5 DEF IInv, TypeOK
<1>2. MediaInv'
  BY DEF IInv, TypeOK, MediaInv, handlePendingRemoteTracks
<1>3. ListInv' /\ TrackInv'
  BY TrackAside DEF IInv, ListInv
<1> QED BY <1>1, <1>2, <1>3 DEF IInv

(* The client sends and ends media.                                        *)
LEMMA ClientKeepsIInv ==
  ASSUME IInv, SendMedia \/ \E m \in Media : EndMedia(m)
  PROVE  IInv'
<1> USE DEF pendingVars, mediaVars, trackVars
<1>1. TypeOK'
  <2>1. CASE SendMedia
    <3>1. fired' \in 0..MaxMedia
      BY <2>1, PublishingAssumption DEF SendMedia, IInv, TypeOK
    <3>2. pc' \in [Media -> Place]
      BY <2>1 DEF SendMedia, IInv, TypeOK, Place
    <3> QED BY <2>1, <3>1, <3>2 DEF SendMedia, IInv, TypeOK
  <2>2. CASE \E m \in Media : EndMedia(m)
    BY <2>2 DEF EndMedia, IInv, TypeOK
  <2> QED BY <2>1, <2>2
<1>2. MediaInv'
  <2>1. CASE SendMedia
    <3>1. /\ fired' = fired + 1
          /\ \A m \in Media : pc'[m] = IF m = fired + 1 THEN "received" ELSE pc[m]
          /\ UNCHANGED <<pendingRemoteTracks, state, track, forwarding>>
      BY <2>1 DEF SendMedia, IInv, TypeOK
    <3>2. fired \in Nat /\ Media \subseteq Nat /\ MediaInv
      BY PublishingAssumption DEF IInv, TypeOK, Media
    <3>3. \A m \in Media : m = fired + 1 => pc[m] = "none"
      BY ONLY <3>2 DEF MediaInv
    <3> QED BY ONLY <3>1, <3>2, <3>3 DEF MediaInv
  <2>2. CASE \E m \in Media : EndMedia(m)
    BY <2>2 DEF EndMedia, IInv, MediaInv
  <2> QED BY <2>1, <2>2
<1>3. ListInv' /\ TrackInv'
  BY TrackAside DEF SendMedia, EndMedia, IInv, ListInv
<1> QED BY <1>1, <1>2, <1>3 DEF IInv

(* Media is dropped, joins a track or waits: no track is made.             *)
LEMMA JoinKeepsIInv ==
  ASSUME IInv, NEW m \in Media, mediaTrackReceived(m),
         Drop(m) \/ WaitForMid(m) \/ JoinTrack(m) \/ WaitForRequest(m)
  PROVE  IInv'
<1> USE DEF mediaTrackReceived, clientVars, pendingVars
<1>1. /\ UNCHANGED <<state, sid, publishedTracks, lock, fired>>
      /\ UNCHANGED <<receiver, onClose, subscribers, flushing, adding, closers>>
      /\ UNCHANGED forwarding
  BY DEF Drop, WaitForMid, JoinTrack, WaitForRequest
<1>2. /\ pc' \in [Media -> Place] /\ track' \in [Media -> 0..MaxMedia]
      /\ pendingRemoteTracks' \subseteq Media /\ faults' \subseteq Media
  <2>1. Published \subseteq 0..MaxMedia
    BY DEF IInv, TypeOK, Published
  <2>2. CASE Drop(m)
    BY <2>2 DEF IInv, TypeOK, Drop, Place
  <2>3. CASE JoinTrack(m)
    BY <2>1, <2>3 DEF IInv, TypeOK, JoinTrack, Place
  <2>4. CASE WaitForRequest(m)
    BY <2>4 DEF IInv, TypeOK, WaitForRequest, Place
  <2>5. CASE WaitForMid(m)
    BY <2>5 DEF IInv, TypeOK, WaitForMid, Fails, Place
  <2> QED BY <2>2, <2>3, <2>4, <2>5
<1>3. TypeOK'
  BY <1>1, <1>2 DEF IInv, TypeOK, Drop, WaitForMid, JoinTrack, WaitForRequest
<1>4. MediaInv'
  <2>1. CASE Drop(m)
    BY <1>1, <2>1 DEF IInv, TypeOK, MediaInv, Drop
  <2>2. CASE JoinTrack(m)
    <3>1. PICK t \in Published : track' = [track EXCEPT ![m] = t]
      BY <2>2 DEF JoinTrack
    <3>2. t \in Media /\ state[t] # "none"
      BY <3>1 DEF IInv, TypeOK, ListInv, Published, Media
    <3> QED BY <1>1, <2>2, <3>1, <3>2 DEF IInv, TypeOK, MediaInv, JoinTrack
  <2>3. CASE WaitForRequest(m)
    BY <1>1, <2>3 DEF IInv, TypeOK, MediaInv, WaitForRequest
  <2>4. CASE WaitForMid(m)
    BY <1>1, <2>4 DEF IInv, TypeOK, MediaInv, WaitForMid
  <2> QED BY <2>1, <2>2, <2>3, <2>4
<1>5. ListInv' /\ TrackInv'
  BY <1>1, TrackAside DEF IInv, ListInv
<1> QED BY <1>3, <1>4, <1>5 DEF IInv

(* Media makes a track.                                                    *)
LEMMA AddMediaTrackKeepsIInv ==
  ASSUME IInv, NEW m \in Media, mediaTrackReceived(m), addMediaTrack(m)
  PROVE  IInv'
<1> USE DEF mediaTrackReceived, addMediaTrack, clientVars, pendingVars
<1>1. Head(pendingTracks) \in Sid /\ Tail(pendingTracks) \in Seq(Sid)
  BY DEF IInv, TypeOK, IsQueued
<1>2. state[m] = "none"
  BY DEF IInv, MediaInv
<1>3. TypeOK'
  <2>1. /\ pc' \in [Media -> Place] /\ track' \in [Media -> 0..MaxMedia]
        /\ sid' \in [Media -> 0..MaxRequests] /\ lock' \in 0..MaxMedia
        /\ publishedTracks' \in [Sid -> 0..MaxMedia]
        /\ state' \in [Media -> {"none", "open", "closing", "closed"}]
    BY <1>1 DEF IInv, TypeOK, Place, Media, Sid
  <2>2. pendingTracks' \in Seq(Sid) /\ queued' \in BOOLEAN
    BY <1>1
  <2> QED BY <2>1, <2>2 DEF IInv, TypeOK
<1>4. MediaInv'
  BY DEF IInv, TypeOK, MediaInv
<1>5. ListInv'
  BY <1>1 DEF IInv, TypeOK, ListInv, Media
<1>6. TrackInv'
  <2> SUFFICES ASSUME NEW t \in Media
               PROVE  (NoneIsBare(t) /\ ReceiverInv(t) /\ SubscriberInv(t))'
    BY DEF TrackInv
  <2>1. CASE t = m
    BY <1>2, <2>1
    DEF IInv, TypeOK, TrackInv, NoneIsBare, ReceiverInv, SubscriberInv, Cleared
  <2>2. CASE t # m
    <3>1. /\ UNCHANGED <<state[t], receiver[t], adding[t], closers[t]>>
          /\ UNCHANGED <<subscribers, flushing>>
      BY <2>2 DEF IInv, TypeOK
    <3> QED
      BY <3>1 DEF IInv, TrackInv, NoneIsBare, ReceiverInv, SubscriberInv, Going
  <2> QED BY <2>1, <2>2
<1> QED BY <1>3, <1>4, <1>5, <1>6 DEF IInv

(* The callbacks are registered.                                           *)
LEMMA AddOnCloseKeepsIInv ==
  ASSUME IInv, NEW m \in Media, AddOnClose(m)
  PROVE  IInv'
<1> USE DEF AddOnClose, clientVars, pendingVars
<1>1. TypeOK'
  <2>1. pc' \in [Media -> Place] /\ lock' \in 0..MaxMedia
    BY PublishingAssumption DEF IInv, TypeOK, Place
  <2> QED BY <2>1 DEF IInv, TypeOK
<1>2. MediaInv' /\ ListInv' /\ TrackInv'
  BY TrackAside DEF IInv, TypeOK, MediaInv, ListInv
<1> QED BY <1>1, <1>2 DEF IInv

(* What a step says of another track is what held before it.               *)
LEMMA Elsewhere ==
  ASSUME TrackInv, NEW u \in Media,
         state'[u] = state[u], receiver'[u] = receiver[u], adding'[u] = adding[u],
         u \in subscribers' <=> u \in subscribers,
         u \in flushing' <=> u \in flushing,
         \A d \in Closer : closers'[u][d] = closers[u][d]
  PROVE  (NoneIsBare(u) /\ ReceiverInv(u) /\ SubscriberInv(u))'
  BY DEF TrackInv, NoneIsBare, ReceiverInv, SubscriberInv, Going

(* The buffers of the media are looked up.                                 *)
LEMMA GetBufferPairKeepsIInv ==
  ASSUME IInv, NEW m \in Media, GetBufferPair(m)
  PROVE  IInv'
<1> USE DEF GetBufferPair, clientVars, pendingVars, trackVars
<1>1. TypeOK'
  <2>1. pc' \in [Media -> Place]
    BY DEF IInv, TypeOK, Place
  <2> QED BY <2>1 DEF IInv, TypeOK
<1>2. MediaInv' /\ ListInv' /\ TrackInv'
  BY TrackAside DEF IInv, TypeOK, MediaInv, ListInv
<1> QED BY <1>1, <1>2 DEF IInv

(* The media is attached to the track unless the track closes.             *)
LEMMA AddReceiverKeepsIInv ==
  ASSUME IInv, NEW m \in Media, AddReceiver(m)
  PROVE  IInv'
<1> USE DEF AddReceiver, clientVars, pendingVars
<1>1. /\ receiver' \in [Media -> 0..MaxMedia]
      /\ \A t \in Media : receiver'[t] = receiver[t]
                          \/ (state[t] = "open" /\ receiver'[t] # 0)
      /\ forwarding' = forwarding \/ forwarding' = forwarding \cup {m}
      /\ faults' \subseteq Media
  <2>1. m \in 0..MaxMedia /\ m # 0 /\ track[m] \in Media
    BY DEF Media, IInv, MediaInv
  <2>2. CASE RefuseMedia(m) \/ KeepReceiver(m)
    BY <2>2 DEF RefuseMedia, KeepReceiver, Fails, IInv, TypeOK
  <2>3. CASE SetupReceiver(m)
    <3>1. receiver' \in [Media -> 0..MaxMedia]
      BY <2>1, <2>3 DEF SetupReceiver, IInv, TypeOK
    <3>2. \A t \in Media : receiver'[t] = receiver[t]
                           \/ (state[t] = "open" /\ receiver'[t] # 0)
      BY <2>1, <2>3 DEF SetupReceiver, IInv, TypeOK
    <3> QED BY <2>3, <3>1, <3>2 DEF SetupReceiver, Fails, IInv, TypeOK
  <2> QED BY <2>2, <2>3
<1>2. TypeOK'
  <2>1. pc' \in [Media -> Place]
    BY DEF IInv, TypeOK, Place
  <2> QED BY <1>1, <2>1 DEF IInv, TypeOK
<1>3. MediaInv' /\ ListInv'
  BY <1>1 DEF IInv, TypeOK, MediaInv, ListInv
<1>4. TrackInv'
  <2> SUFFICES ASSUME NEW t \in Media
               PROVE  (NoneIsBare(t) /\ ReceiverInv(t) /\ SubscriberInv(t))'
    BY DEF TrackInv
  <2>1. CASE receiver'[t] = receiver[t]
    BY <2>1, Elsewhere DEF IInv
  <2>2. CASE state[t] = "open" /\ receiver'[t] # 0
    BY <2>2 DEF IInv, TrackInv, NoneIsBare, ReceiverInv, SubscriberInv
  <2> QED BY <1>1, <2>1, <2>2
<1> QED BY <1>2, <1>3, <1>4 DEF IInv

(* Positions of closers other than the one that moves stay.                *)
LEMMA BeginKeepsOthers ==
  ASSUME TypeOK, NEW t \in Media, NEW c \in Closer,
         NEW at \in CloserAt
  PROVE  /\ Begin(closers, t, c, at) \in [Media -> [Closer -> CloserPlace]]
         /\ Begin(closers, t, c, at)[t][c].at = at
         /\ \A u \in Media, d \in Closer :
              u # t \/ d # c => Begin(closers, t, c, at)[u][d] = closers[u][d]
<1> DEFINE new == [closers[t][c] EXCEPT !.at = at]
<1>1. closers[t][c] \in CloserPlace
  BY DEF TypeOK
<1>2. new \in CloserPlace /\ new.at = at
  BY <1>1 DEF CloserPlace
<1>3. Begin(closers, t, c, at) = [closers EXCEPT ![t] = [@ EXCEPT ![c] = new]]
  BY DEF Begin
<1> HIDE DEF new
<1> QED BY <1>2, <1>3 DEF TypeOK

(* Closers that begin on tracks that were made disturb nothing: they were  *)
(* not about to remove subscribers.                                        *)
LEMMA BeginsKeep ==
  ASSUME TrackInv,
         \A t \in Media, c \in Closer :
           \/ closers'[t][c] = closers[t][c]
           \/ /\ state[t] # "none" /\ closers'[t][c].at = "setClosing"
              /\ closers[t][c].at # "removeSubs",
         UNCHANGED <<state, receiver, subscribers, flushing, adding>>
  PROVE  TrackInv'
<1> SUFFICES ASSUME NEW t \in Media
             PROVE  (NoneIsBare(t) /\ ReceiverInv(t) /\ SubscriberInv(t))'
  BY DEF TrackInv
<1>1. Going(t) => Going(t)'
  BY DEF Going
<1> QED
  BY <1>1 DEF TrackInv, NoneIsBare, ReceiverInv, SubscriberInv, Cleared

(* The permission is checked once the media is attached.                   *)
LEMMA CheckPermissionKeepsIInv ==
  ASSUME IInv, BeginInv, NEW m \in Media, checkPermission(m)
  PROVE  IInv'
<1> USE DEF checkPermission, clientVars, pendingVars, trackVars
<1>1. track[m] \in Media /\ state[track[m]] # "none" /\ Check(m) \in Closer
  BY DEF IInv, MediaInv, Closer, Check
<1>2. /\ closers' \in [Media -> [Closer -> CloserPlace]]
      /\ \A t \in Media, c \in Closer :
           \/ closers'[t][c] = closers[t][c]
           \/ /\ state[t] # "none" /\ closers'[t][c].at = "setClosing"
              /\ closers[t][c].at # "removeSubs"
  <2>1. CASE closers' = closers
    BY <2>1 DEF IInv, TypeOK
  <2>2. CASE closers' = Begin(closers, track[m], Check(m), "setClosing")
    <3>1. /\ closers' \in [Media -> [Closer -> CloserPlace]]
          /\ closers'[track[m]][Check(m)].at = "setClosing"
          /\ \A u \in Media, d \in Closer :
               u # track[m] \/ d # Check(m) => closers'[u][d] = closers[u][d]
      <4> HIDE DEF checkPermission
      <4>1. TypeOK
        BY DEF IInv
      <4> DEFINE at == "setClosing"
      <4>2. at \in CloserAt
        BY DEF CloserAt
      <4>3. closers' = Begin(closers, track[m], Check(m), at) /\ at = "setClosing"
        BY <2>2
      <4> HIDE DEF at
      <4> QED BY <1>1, <4>1, <4>2, <4>3, BeginKeepsOthers
    <3>2. closers[track[m]][Check(m)].at # "removeSubs"
      BY <1>1 DEF BeginInv
    <3> QED BY <1>1, <3>1, <3>2
  <2> QED BY <2>1, <2>2
<1>3. TypeOK'
  <2>1. pc' \in [Media -> Place]
    BY DEF IInv, TypeOK, Place
  <2> QED BY <1>2, <2>1 DEF IInv, TypeOK
<1>4. MediaInv' /\ ListInv'
  BY DEF IInv, TypeOK, MediaInv, ListInv
<1>5. TrackInv'
  BY <1>1, <1>2, BeginsKeep DEF IInv
<1> QED BY <1>3, <1>4, <1>5 DEF IInv

(* The step of one closer, seen from all.                                  *)
Moves(t, c, at) ==
  /\ closers' \in [Media -> [Closer -> CloserPlace]]
  /\ closers'[t][c].at = at
  /\ \A u \in Media, d \in Closer : u # t \/ d # c => closers'[u][d] = closers[u][d]

(* Go moves the closer and no other.                                       *)
LEMMA GoMoves ==
  ASSUME TypeOK, NEW t \in Media, NEW c \in Closer,
         NEW at \in CloserAt,
         Go(t, c, at)
  PROVE  Moves(t, c, at)
<1>1. closers' = Begin(closers, t, c, at)
  BY DEF Go
<1>2. /\ Begin(closers, t, c, at) \in [Media -> [Closer -> CloserPlace]]
      /\ Begin(closers, t, c, at)[t][c].at = at
      /\ \A u \in Media, d \in Closer :
           u # t \/ d # c => Begin(closers, t, c, at)[u][d] = closers[u][d]
  BY BeginKeepsOthers
<1> QED BY ONLY <1>1, <1>2 DEF Moves

(* The receiver of media that ended closes.                                *)
LEMMA ReceiverClosesKeepsIInv ==
  ASSUME IInv, BeginInv, NEW m \in Media, ReceiverCloses(m)
  PROVE  IInv'
<1> USE DEF ReceiverCloses, clientVars, pendingVars, trackVars
<1>1. /\ track[m] \in Media /\ state[track[m]] # "none" /\ Receiver(m) \in Closer
      /\ closers[track[m]][Receiver(m)].at = "idle"
  BY DEF IInv, MediaInv, BeginInv, Closer, Receiver
<1>2. Moves(track[m], Receiver(m), "setClosing")
  BY <1>1, GoMoves DEF IInv, CloserAt
<1>3. TypeOK'
  BY <1>2 DEF IInv, TypeOK, Moves
<1>4. MediaInv' /\ ListInv'
  BY DEF IInv, MediaInv, ListInv
<1>5. \A t \in Media, c \in Closer :
        \/ closers'[t][c] = closers[t][c]
        \/ /\ state[t] # "none" /\ closers'[t][c].at = "setClosing"
           /\ closers[t][c].at # "removeSubs"
  BY <1>1, <1>2 DEF Moves
<1>6. TrackInv'
  BY <1>5, BeginsKeep DEF IInv
<1> QED BY <1>3, <1>4, <1>6 DEF IInv

(* The track is set to closing: whoever has subscribed by then is found by *)
(* the closer, as the receiver is still there.                             *)
LEMMA SetClosingKeepsIInv ==
  ASSUME IInv, NEW t \in Media, NEW c \in Closer, SetClosing(t, c)
  PROVE  IInv'
<1> USE DEF SetClosing, clientVars, pendingVars, mediaVars
<1>1. Moves(t, c, "clear")
  BY GoMoves DEF IInv, CloserAt
<1>2. /\ state' \in [Media -> {"none", "open", "closing", "closed"}]
      /\ \A u \in Media : u # t => state'[u] = state[u]
      /\ state'[t] = IF state[t] = "open" THEN "closing" ELSE state[t]
      /\ state[t] # "none"
  BY DEF IInv, TypeOK, TrackInv, NoneIsBare, At
<1>3. TypeOK'
  BY <1>1, <1>2 DEF IInv, TypeOK, Moves
<1>4. MediaInv' /\ ListInv'
  BY <1>2 DEF IInv, TypeOK, MediaInv, ListInv, Media
<1>5. TrackInv'
  <2>1. ASSUME NEW u \in Media, u # t
        PROVE  (NoneIsBare(u) /\ ReceiverInv(u) /\ SubscriberInv(u))'
    BY <1>1, <1>2, <2>1, Elsewhere DEF IInv, Moves
  <2>2. NoneIsBare(t)'
    BY <1>2 DEF NoneIsBare
  <2>3. ReceiverInv(t)'
    BY <1>1, <1>2 DEF IInv, Moves, TrackInv, ReceiverInv, Cleared
  <2>4. SubscriberInv(t)'
    <3>1. Going(t) => Going(t)'
      BY <1>1 DEF Going, Moves, At
    <3> QED BY <1>2, <3>1 DEF IInv, TrackInv, ReceiverInv, SubscriberInv
  <2> QED BY <2>1, <2>2, <2>3, <2>4 DEF TrackInv
<1> QED BY <1>3, <1>4, <1>5 DEF IInv

(* The receiver is cleared: whoever found it removes the subscribers next. *)
LEMMA ClearReceiverKeepsIInv ==
  ASSUME IInv, NEW t \in Media, NEW c \in Closer, ClearReceiver(t, c)
  PROVE  IInv'
<1> USE DEF ClearReceiver, clientVars, pendingVars, mediaVars
<1>1. PICK at \in {"removeSubs", "mark"} :
        Moves(t, c, at) /\ (receiver[t] # 0 => at = "removeSubs")
  BY GoMoves DEF IInv, CloserAt
<1>2. /\ receiver' \in [Media -> 0..MaxMedia]
      /\ \A u \in Media : u # t => receiver'[u] = receiver[u]
      /\ receiver'[t] = 0
      /\ state[t] \notin {"none", "open"}
  BY PublishingAssumption DEF IInv, TypeOK, TrackInv, NoneIsBare, ReceiverInv, At
<1>3. TypeOK'
  BY <1>1, <1>2 DEF IInv, TypeOK, Moves
<1>4. MediaInv' /\ ListInv'
  BY DEF IInv, MediaInv, ListInv
<1>5. TrackInv'
  <2>1. ASSUME NEW u \in Media, u # t
        PROVE  (NoneIsBare(u) /\ ReceiverInv(u) /\ SubscriberInv(u))'
    BY <1>1, <1>2, <2>1, Elsewhere DEF IInv, Moves
  <2>2. NoneIsBare(t)'
    BY <1>2 DEF NoneIsBare
  <2>3. ReceiverInv(t)'
    BY <1>1, <1>2 DEF IInv, Moves, TrackInv, ReceiverInv, Cleared
  <2>4. SubscriberInv(t)'
    <3>1. receiver[t] # 0 \/ Going(t) => Going(t)'
      BY <1>1 DEF Going, Moves, At
    <3> QED BY <1>2, <3>1 DEF IInv, TrackInv, ReceiverInv, SubscriberInv
  <2> QED BY <2>1, <2>2, <2>3, <2>4 DEF TrackInv
<1> QED BY <1>3, <1>4, <1>5 DEF IInv

(* The subscriber that is in the table is flushed.                         *)
LEMMA RemoveSubscribersKeepsIInv ==
  ASSUME IInv, NEW t \in Media, NEW c \in Closer, removeAllSubscribersForMime(t, c)
  PROVE  IInv'
<1> USE DEF removeAllSubscribersForMime, clientVars, pendingVars, mediaVars
<1>1. Moves(t, c, "mark")
  BY GoMoves DEF IInv, CloserAt
<1>2. /\ state[t] \notin {"none", "open"} /\ receiver[t] = 0
      /\ flushing' \subseteq Media
  BY DEF IInv, TypeOK, TrackInv, NoneIsBare, ReceiverInv, Cleared, At
<1>3. TypeOK'
  BY <1>1, <1>2 DEF IInv, TypeOK, Moves
<1>4. MediaInv' /\ ListInv'
  BY DEF IInv, MediaInv, ListInv
<1>5. TrackInv'
  <2>1. ASSUME NEW u \in Media, u # t
        PROVE  (NoneIsBare(u) /\ ReceiverInv(u) /\ SubscriberInv(u))'
    <3>1. u \in flushing' <=> u \in flushing
      BY <2>1
    <3> QED BY <1>1, <2>1, <3>1, Elsewhere DEF IInv, Moves
  <2>2. NoneIsBare(t)'
    BY <1>2 DEF NoneIsBare
  <2>3. ReceiverInv(t)'
    BY <1>1, <1>2 DEF IInv, Moves, TrackInv, ReceiverInv, Cleared
  <2>4. SubscriberInv(t)'
    <3>1. t \in subscribers => Going(t)'
      BY DEF Going
    <3> QED BY <1>2, <3>1 DEF IInv, TrackInv, SubscriberInv
  <2> QED BY <2>1, <2>2, <2>3, <2>4 DEF TrackInv
<1> QED BY <1>3, <1>4, <1>5 DEF IInv

(* The track is marked as closed by whoever has cleared the receivers.     *)
LEMMA MarkClosedKeepsIInv ==
  ASSUME IInv, NEW t \in Media, NEW c \in Closer, MarkClosed(t, c)
  PROVE  IInv'
<1> USE DEF MarkClosed, clientVars, pendingVars, mediaVars
<1>1. PICK at \in {"unlist", "remove", "done"} : Moves(t, c, at)
  BY GoMoves DEF IInv, AfterClose, CloserAt
<1>2. /\ state' \in [Media -> {"none", "open", "closing", "closed"}]
      /\ \A u \in Media : u # t => state'[u] = state[u]
      /\ state'[t] = "closed" /\ receiver[t] = 0 /\ state[t] \notin {"none", "open"}
  BY DEF IInv, TypeOK, TrackInv, NoneIsBare, ReceiverInv, Cleared, At
<1>3. TypeOK'
  BY <1>1, <1>2 DEF IInv, TypeOK, Moves
<1>4. MediaInv' /\ ListInv'
  BY <1>2 DEF IInv, TypeOK, MediaInv, ListInv, Media
<1>5. TrackInv'
  <2>1. ASSUME NEW u \in Media, u # t
        PROVE  (NoneIsBare(u) /\ ReceiverInv(u) /\ SubscriberInv(u))'
    BY <1>1, <1>2, <2>1, Elsewhere DEF IInv, Moves
  <2>2. NoneIsBare(t)'
    BY <1>2 DEF NoneIsBare
  <2>3. ReceiverInv(t)'
    BY <1>1, <1>2 DEF IInv, Moves, TrackInv, ReceiverInv, Cleared
  <2>4. SubscriberInv(t)'
    <3>1. Going(t) => Going(t)'
      BY <1>1 DEF Going, Moves, At
    <3> QED BY <1>2, <3>1 DEF IInv, TrackInv, ReceiverInv, SubscriberInv
  <2> QED BY <2>1, <2>2, <2>3, <2>4 DEF TrackInv
<1> QED BY <1>3, <1>4, <1>5 DEF IInv

(* A closer that ends its callback is somewhere after Close.               *)
LEMMA EndMoves ==
  ASSUME TypeOK, NEW t \in Media, NEW c \in Closer, NEW at \in {"remove", "done"},
         NEW waits \in SUBSET Media,
         closers' = [closers EXCEPT ![t][c] = [at |-> at, waits |-> waits]]
  PROVE  Moves(t, c, at)
<1> DEFINE new == [at |-> at, waits |-> waits]
<1>1. new \in CloserPlace /\ new.at = at
  BY DEF CloserPlace, CloserAt
<1>2. closers' = [closers EXCEPT ![t] = [@ EXCEPT ![c] = new]]
  OBVIOUS
<1> HIDE DEF new
<1> QED BY <1>1, <1>2 DEF TypeOK, Moves

(* A closer that moves on after it cleared the receivers disturbs nothing. *)
LEMMA MovesOn ==
  ASSUME IInv, NEW t \in Media, NEW c \in Closer, NEW at \in Cleared,
         closers[t][c].at \in Cleared \ {"removeSubs"}, Moves(t, c, at),
         UNCHANGED <<state, receiver, subscribers, flushing, adding>>
  PROVE  TrackInv'
<1>1. ASSUME NEW u \in Media, u # t
      PROVE  (NoneIsBare(u) /\ ReceiverInv(u) /\ SubscriberInv(u))'
  BY <1>1, Elsewhere DEF IInv, Moves
<1>2. state[t] # "none" /\ state[t] # "open" /\ receiver[t] = 0
  BY DEF IInv, TrackInv, NoneIsBare, ReceiverInv, Cleared
<1>3. Going(t) => Going(t)'
  BY DEF Going, Moves
<1>4. (NoneIsBare(t) /\ ReceiverInv(t) /\ SubscriberInv(t))'
  BY <1>2, <1>3
  DEF IInv, Moves, TrackInv, NoneIsBare, ReceiverInv, SubscriberInv, Cleared
<1> QED BY <1>1, <1>4 DEF TrackInv

(* The callbacks of a closed track, and what comes after Close.            *)
LEMMA UnlistKeepsIInv ==
  ASSUME IInv, NEW t \in Media, NEW c \in Closer, Unlist(t, c)
  PROVE  IInv'
<1> USE DEF Unlist, clientVars, pendingVars, mediaVars, trackVars
<1>1. Moves(t, c, "unqueue")
  BY GoMoves DEF IInv, CloserAt
<1>2. /\ publishedTracks' \in [Sid -> 0..MaxMedia]
      /\ \A i \in Sid : publishedTracks'[i] = 0
                       \/ publishedTracks'[i] = publishedTracks[i]
  <2>1. 0 \in 0..MaxMedia
    BY PublishingAssumption
  <2> QED BY <2>1 DEF IInv, TypeOK
<1>3. TypeOK'
  BY <1>1, <1>2 DEF IInv, TypeOK, Moves
<1>4. MediaInv' /\ ListInv'
  BY <1>2 DEF IInv, MediaInv, ListInv
<1>5. TrackInv'
  BY <1>1, MovesOn DEF At, Cleared
<1> QED BY <1>3, <1>4, <1>5 DEF IInv

(* The callback that grants the request that is queued.                    *)
LEMMA UnqueueKeepsIInv ==
  ASSUME IInv, NEW t \in Media, NEW c \in Closer, Unqueue(t, c)
  PROVE  IInv'
<1> USE DEF Unqueue, trackVars
<1>1. PICK at \in {"remove", "done"} : Moves(t, c, at)
  <2> DEFINE at == AfterClose(c)
             waits == IF AfterClose(c) = "done" THEN {} ELSE pendingRemoteTracks
  <2>1. at \in {"remove", "done"} /\ waits \in SUBSET Media
    BY DEF IInv, TypeOK, AfterClose
  <2>2. closers' = [closers EXCEPT ![t][c] = [at |-> at, waits |-> waits]]
    OBVIOUS
  <2> HIDE DEF at, waits
  <2> QED BY <2>1, <2>2, EndMoves DEF IInv
<1>2. TypeOK'
  <2>1. granted' \in Nat
    BY DEF IInv, TypeOK
  <2>2. /\ pendingRemoteTracks' \subseteq Media
        /\ pc' \in [Media -> Place]
    BY DEF IInv, TypeOK, handlePendingRemoteTracks, Place
  <2> QED BY <1>1, <2>1, <2>2 DEF IInv, TypeOK, Moves
<1>3. MediaInv' /\ ListInv'
  BY DEF IInv, TypeOK, MediaInv, ListInv, handlePendingRemoteTracks
<1>4. TrackInv'
  BY <1>1, MovesOn DEF At, Cleared
<1> QED BY <1>2, <1>3, <1>4 DEF IInv

(* The track is taken off the list once more.                              *)
LEMMA RemoveKeepsIInv ==
  ASSUME IInv, NEW t \in Media, NEW c \in Closer, RemovePublishedTrack(t, c)
  PROVE  IInv'
<1>1. Moves(t, c, "done")
  <2> DEFINE waits == {}
  <2>1. closers' = [closers EXCEPT ![t][c] = [at |-> "done", waits |-> waits]]
    BY DEF RemovePublishedTrack
  <2>2. waits \in SUBSET Media
    OBVIOUS
  <2> HIDE DEF waits
  <2> QED BY <2>1, <2>2, EndMoves DEF IInv
<1> USE DEF RemovePublishedTrack, clientVars, pendingVars, mediaVars, trackVars
<1>2. /\ publishedTracks' \in [Sid -> 0..MaxMedia]
      /\ \A i \in Sid : publishedTracks'[i] = 0
                       \/ publishedTracks'[i] = publishedTracks[i]
  <2>1. 0 \in 0..MaxMedia
    BY PublishingAssumption
  <2> QED BY <2>1 DEF IInv, TypeOK
<1>3. TypeOK'
  BY <1>1, <1>2 DEF IInv, TypeOK, Moves
<1>4. MediaInv' /\ ListInv'
  BY <1>2 DEF IInv, MediaInv, ListInv
<1>5. TrackInv'
  BY <1>1, MovesOn DEF At, Cleared
<1> QED BY <1>3, <1>4, <1>5 DEF IInv

(* A subscriber is added while the track may be closing.                   *)
LEMMA AddSubscriberKeepsIInv ==
  ASSUME IInv, NEW t \in Media, AddSubscriber(t)
  PROVE  IInv'
<1> USE DEF AddSubscriber, CheckOpen, InsertSubscriber, CheckStillOpen
<1> USE DEF clientVars, pendingVars, mediaVars, trackVars
<1>1. /\ adding' \in [Media -> {"idle", "checked", "added", "done"}]
      /\ subscribers' \subseteq Media /\ flushing' \subseteq Media
  BY DEF IInv, TypeOK
<1>2. TypeOK'
  BY <1>1 DEF IInv, TypeOK
<1>3. MediaInv' /\ ListInv'
  BY DEF IInv, MediaInv, ListInv
<1>4. TrackInv'
  <2>1. ASSUME NEW u \in Media, u # t
        PROVE  (NoneIsBare(u) /\ ReceiverInv(u) /\ SubscriberInv(u))'
    <3>1. /\ adding'[u] = adding[u] /\ (u \in subscribers' <=> u \in subscribers)
          /\ u \in flushing' <=> u \in flushing
      BY <2>1 DEF IInv, TypeOK
    <3> QED BY <2>1, <3>1, Elsewhere DEF IInv
  <2>2. state[t] # "none"
    BY DEF IInv, TrackInv, NoneIsBare
  <2>3. NoneIsBare(t)' /\ ReceiverInv(t)'
    BY <2>2 DEF IInv, TrackInv, NoneIsBare, ReceiverInv
  <2>4. SubscriberInv(t)'
    <3>1. CASE CheckOpen(t)
      BY <3>1 DEF IInv, TypeOK, TrackInv, SubscriberInv
    <3>2. CASE InsertSubscriber(t)
      BY <3>2 DEF IInv, TypeOK, TrackInv, SubscriberInv
    <3>3. CASE CheckStillOpen(t)
      BY <3>3 DEF IInv, TypeOK, TrackInv, SubscriberInv, Going
    <3> QED BY <3>1, <3>2, <3>3
  <2> QED BY <2>1, <2>3, <2>4 DEF TrackInv
<1> QED BY <1>2, <1>3, <1>4 DEF IInv

(* The down track of the subscriber is closed.                             *)
LEMMA CloseWithFlushKeepsIInv ==
  ASSUME IInv, NEW t \in Media, CloseWithFlush(t)
  PROVE  IInv'
<1> USE DEF CloseWithFlush, clientVars, pendingVars, mediaVars
<1>1. TypeOK' /\ MediaInv' /\ ListInv'
  BY DEF IInv, TypeOK, MediaInv, ListInv
<1>2. TrackInv'
  <2>1. ASSUME NEW u \in Media, u # t
        PROVE  (NoneIsBare(u) /\ ReceiverInv(u) /\ SubscriberInv(u))'
    <3>1. (u \in subscribers' <=> u \in subscribers) /\ (u \in flushing' <=> u \in flushing)
      BY <2>1
    <3> QED BY <2>1, <3>1, Elsewhere DEF IInv
  <2>2. (NoneIsBare(t) /\ ReceiverInv(t) /\ SubscriberInv(t))'
    BY DEF IInv, TrackInv, NoneIsBare, ReceiverInv, SubscriberInv
  <2> QED BY <2>1, <2>2 DEF TrackInv
<1> QED BY <1>1, <1>2 DEF IInv

(* Closers start on tracks that were made.                                 *)
LEMMA StartKeepsTrackInv ==
  ASSUME IInv, NEW c \in Closer, \A t \in Media : closers[t][c].at = "idle",
         closers' = [t \in Media |->
           IF t \in Published THEN [closers[t] EXCEPT ![c].at = "setClosing"]
                              ELSE closers[t]],
         UNCHANGED <<state, receiver, subscribers, flushing, adding>>
  PROVE  closers' \in [Media -> [Closer -> CloserPlace]] /\ TrackInv'
<1>1. \A t \in Media, d \in Closer :
        \/ closers'[t][d] = closers[t][d]
        \/ /\ t \in Published /\ closers'[t][d].at = "setClosing"
           /\ closers'[t][d] \in CloserPlace /\ closers[t][d].at = "idle"
  <2> SUFFICES ASSUME NEW t \in Media, NEW d \in Closer, t \in Published, d = c
               PROVE  /\ closers'[t][d].at = "setClosing"
                      /\ closers'[t][d] \in CloserPlace
    BY DEF IInv, TypeOK
  <2>1. closers[t][d] \in CloserPlace
    BY DEF IInv, TypeOK
  <2>2. closers'[t][d] = [closers[t][d] EXCEPT !.at = "setClosing"]
    BY DEF IInv, TypeOK
  <2> QED BY <2>1, <2>2 DEF CloserPlace, CloserAt
<1>2. \A t \in Published : state[t] # "none"
  BY DEF IInv, ListInv, Published
<1>3. closers' \in [Media -> [Closer -> CloserPlace]]
  <2>1. \A t \in Media : closers'[t] \in [Closer -> CloserPlace]
    <3> SUFFICES ASSUME NEW t \in Media PROVE closers'[t] \in [Closer -> CloserPlace]
      OBVIOUS
    <3>1. closers[t] \in [Closer -> CloserPlace]
      BY DEF IInv, TypeOK
    <3>2. closers'[t] = closers[t]
          \/ closers'[t] = [closers[t] EXCEPT ![c] = [closers[t][c] EXCEPT !.at = "setClosing"]]
      OBVIOUS
    <3>3. [closers[t][c] EXCEPT !.at = "setClosing"] \in CloserPlace
      BY <3>1 DEF CloserPlace, CloserAt
    <3> QED BY <3>1, <3>2, <3>3
  <2> QED BY <2>1
<1>4. \A t \in Media, d \in Closer :
        \/ closers'[t][d] = closers[t][d]
        \/ /\ state[t] # "none" /\ closers'[t][d].at = "setClosing"
           /\ closers[t][d].at # "removeSubs"
  BY <1>1, <1>2
<1>5. TrackInv'
  BY <1>4, BeginsKeep DEF IInv
<1> QED BY <1>3, <1>5

(* The permission is revoked or the participant closes.                    *)
LEMMA DisturbanceKeepsIInv ==
  ASSUME IInv, BeginInv, SetPermission \/ Close
  PROVE  IInv'
<1> USE DEF clientVars, pendingVars, mediaVars, trackVars
<1>1. CASE SetPermission
  <2>1. closers' \in [Media -> [Closer -> CloserPlace]] /\ TrackInv'
    <3>1. Revoke \in Closer /\ \A t \in Media : closers[t][Revoke].at = "idle"
      BY <1>1 DEF SetPermission, Closer, BeginInv
    <3> QED BY <1>1, <3>1, StartKeepsTrackInv DEF SetPermission
  <2>2. TypeOK'
    BY <1>1, <2>1 DEF SetPermission, IInv, TypeOK
  <2>3. MediaInv' /\ ListInv'
    BY <1>1 DEF SetPermission, IInv, MediaInv, ListInv
  <2> QED BY <2>1, <2>2, <2>3 DEF IInv
<1>2. CASE ClearPending
  <2>1. pendingTracks' \in Seq(Sid)
    BY <1>2 DEF ClearPending
  <2>2. TypeOK'
    BY <1>2, <2>1 DEF ClearPending, IInv, TypeOK
  <2>3. MediaInv' /\ ListInv' /\ TrackInv'
    BY <1>2, TrackAside DEF ClearPending, IInv, MediaInv, ListInv
  <2> QED BY <2>2, <2>3 DEF IInv
<1>3. CASE CloseTracks
  <2>1. closers' \in [Media -> [Closer -> CloserPlace]] /\ TrackInv'
    <3>1. CloseAll \in Closer /\ \A t \in Media : closers[t][CloseAll].at = "idle"
      BY <1>3 DEF CloseTracks, Closer, BeginInv
    <3> QED BY <1>3, <3>1, StartKeepsTrackInv DEF CloseTracks
  <2>2. publishedTracks' \in [Sid -> 0..MaxMedia]
    BY <1>3, PublishingAssumption DEF CloseTracks
  <2>3. TypeOK'
    BY <1>3, <2>1, <2>2 DEF CloseTracks, IInv, TypeOK
  <2>4. MediaInv' /\ ListInv'
    BY <1>3 DEF CloseTracks, IInv, MediaInv, ListInv
  <2> QED BY <2>1, <2>3, <2>4 DEF IInv
<1>4. CASE Disconnect
  <2>1. TypeOK'
    BY <1>4 DEF Disconnect, IInv, TypeOK
  <2>2. MediaInv' /\ ListInv' /\ TrackInv'
    BY <1>4, TrackAside DEF Disconnect, IInv, MediaInv, ListInv
  <2> QED BY <2>1, <2>2 DEF IInv
<1> QED BY <1>1, <1>2, <1>3, <1>4 DEF Close

(* Every step keeps the invariant.                                         *)
LEMMA NextIInv == IInv /\ BeginInv /\ [Next]_vars => IInv'
<1> SUFFICES ASSUME IInv, BeginInv, [Next]_vars PROVE IInv'
  OBVIOUS
<1>1. CASE AddTrack
  BY <1>1, AddTrackKeepsIInv
<1>2. CASE SendMedia \/ \E m \in Media : EndMedia(m)
  BY <1>2, ClientKeepsIInv
<1>3. ASSUME NEW m \in Media, MediaStep(m) PROVE IInv'
  BY <1>3, JoinKeepsIInv, AddMediaTrackKeepsIInv, AddOnCloseKeepsIInv,
     GetBufferPairKeepsIInv, AddReceiverKeepsIInv, CheckPermissionKeepsIInv,
     ReceiverClosesKeepsIInv
  DEF MediaStep, mediaTrackReceived
<1>4. ASSUME NEW t \in Media, TrackStep(t) PROVE IInv'
  <2>1. CASE CloseWithFlush(t)
    BY <2>1, CloseWithFlushKeepsIInv
  <2>2. ASSUME NEW c \in Closer, CloseStep(t, c) PROVE IInv'
    BY <2>2, SetClosingKeepsIInv, ClearReceiverKeepsIInv,
       RemoveSubscribersKeepsIInv, MarkClosedKeepsIInv, UnlistKeepsIInv,
       UnqueueKeepsIInv, RemoveKeepsIInv
    DEF CloseStep
  <2> QED BY <1>4, <2>1, <2>2 DEF TrackStep
<1>5. ASSUME NEW t \in Media, AddSubscriber(t) PROVE IInv'
  BY <1>5, AddSubscriberKeepsIInv
<1>6. CASE SetPermission \/ Close
  BY <1>6, DisturbanceKeepsIInv
<1>7. CASE UNCHANGED vars
  <2> USE <1>7 DEF vars, clientVars, pendingVars, mediaVars, trackVars
  <2>1. TypeOK'
    BY DEF IInv, TypeOK
  <2>2. MediaInv' /\ ListInv' /\ TrackInv'
    BY TrackAside DEF IInv, MediaInv, ListInv
  <2> QED BY <2>1, <2>2 DEF IInv
<1> QED BY <1>1, <1>2, <1>3, <1>4, <1>5, <1>6, <1>7 DEF Next

-----------------------------------------------------------------------------
(* Closers begin once.                                                     *)

(* Steps that start no closer keep this.                                   *)
LEMMA BeginAside ==
  ASSUME BeginInv,
         \A t \in Media, c \in Closer :
           closers[t][c].at = "idle" => closers'[t][c].at = "idle",
         canPublish' => canPublish,
         closing' \in {"no", "pending"} => closing \in {"no", "pending"},
         \A m \in Media : pc'[m] # "done" => pc[m] # "done",
         \A m \in Media : m \in forwarding' \/ pc'[m] \notin {"permit", "done"} =>
                          m \in forwarding \/ pc[m] \notin {"permit", "done"}
  PROVE  BeginInv'
<1>1. /\ Revoke \in Closer /\ CloseAll \in Closer
      /\ \A m \in Media : Check(m) \in Closer /\ Receiver(m) \in Closer
  BY DEF Closer, Check, Receiver
<1> QED BY <1>1, Zenon DEF BeginInv

(* The closers are four kinds, each told by its media.                     *)
LEMMA Kinds ==
  /\ Revoke \in Closer /\ CloseAll \in Closer /\ Revoke # CloseAll
  /\ \A m \in Media :
       /\ Check(m) \in Closer /\ Receiver(m) \in Closer
       /\ Check(m) \notin {Revoke, CloseAll} /\ Receiver(m) \notin {Revoke, CloseAll}
  /\ \A m, n \in Media :
       /\ Check(m) # Receiver(n)
       /\ m # n => Check(m) # Check(n) /\ Receiver(m) # Receiver(n)
BY DEF Closer, Check, Receiver, Revoke, CloseAll

(* A closer that moves has begun.                                          *)
LEMMA MovesBegin ==
  ASSUME BeginInv, NEW t \in Media, NEW c \in Closer, NEW at,
         Moves(t, c, at), closers[t][c].at # "idle",
         UNCHANGED <<canPublish, closing, pc, forwarding>>
  PROVE  BeginInv'
<1>1. \A u \in Media, d \in Closer :
        closers[u][d].at = "idle" => closers'[u][d].at = "idle"
  BY DEF Moves
<1> QED BY <1>1, BeginAside

(* The steps of closers start none.                                        *)
LEMMA CloseStepBegin ==
  ASSUME IInv, BeginInv, NEW t \in Media, NEW c \in Closer, CloseStep(t, c)
  PROVE  BeginInv'
<1>1. CASE \/ SetClosing(t, c) \/ ClearReceiver(t, c)
           \/ removeAllSubscribersForMime(t, c) \/ MarkClosed(t, c)
           \/ Unlist(t, c) \/ RemovePublishedTrack(t, c)
  <2>1. closers[t][c].at # "idle" /\ UNCHANGED <<canPublish, closing, pc, forwarding>>
    BY <1>1 DEF SetClosing, ClearReceiver, removeAllSubscribersForMime, MarkClosed,
       Unlist, RemovePublishedTrack, At, mediaVars
  <2>2. CASE RemovePublishedTrack(t, c)
    <3> DEFINE waits == {}
    <3>1. closers' = [closers EXCEPT ![t][c] = [at |-> "done", waits |-> waits]]
      BY <2>2 DEF RemovePublishedTrack
    <3>2. waits \in SUBSET Media
      OBVIOUS
    <3> HIDE DEF waits
    <3>3. Moves(t, c, "done")
      BY <3>1, <3>2, EndMoves DEF IInv
    <3> QED BY <2>1, <3>3, MovesBegin
  <2>3. CASE ~RemovePublishedTrack(t, c)
    <3>1. PICK at \in CloserAt : Go(t, c, at)
      BY <1>1, <2>3 DEF SetClosing, ClearReceiver, removeAllSubscribersForMime,
         MarkClosed, AfterClose, Unlist, CloserAt
    <3>2. Moves(t, c, at)
      BY <3>1, GoMoves DEF IInv
    <3> QED BY <2>1, <3>2, MovesBegin
  <2> QED BY <2>2, <2>3
<1>2. CASE Unqueue(t, c)
  <2> DEFINE at == AfterClose(c)
             waits == IF AfterClose(c) = "done" THEN {} ELSE pendingRemoteTracks
  <2>1. at \in {"remove", "done"} /\ waits \in SUBSET Media
    BY DEF IInv, TypeOK, AfterClose
  <2>2. closers' = [closers EXCEPT ![t][c] = [at |-> at, waits |-> waits]]
    BY <1>2 DEF Unqueue
  <2>3. /\ closers[t][c].at # "idle" /\ UNCHANGED <<canPublish, closing, forwarding>>
        /\ \A m \in Media : pc'[m] = pc[m]
             \/ (pc[m] = "waiting" /\ pc'[m] = "received")
    BY <1>2 DEF Unqueue, At, handlePendingRemoteTracks, IInv, MediaInv
  <2> HIDE DEF at, waits
  <2>4. Moves(t, c, at)
    BY <2>1, <2>2, EndMoves DEF IInv
  <2>5. \A u \in Media, d \in Closer :
          closers[u][d].at = "idle" => closers'[u][d].at = "idle"
    BY <2>3, <2>4 DEF Moves
  <2> QED BY <2>3, <2>5, BeginAside
<1> QED BY <1>1, <1>2 DEF CloseStep

(* Each closer is started by whoever had yet to begin.                     *)
LEMMA StartBegin ==
  ASSUME IInv, BeginInv,
         \/ \E m \in Media : checkPermission(m) \/ ReceiverCloses(m)
         \/ SetPermission \/ CloseTracks
  PROVE  BeginInv'
<1>1. ASSUME NEW m \in Media, checkPermission(m) PROVE BeginInv'
  <2>1. track[m] \in Media /\ TypeOK /\ Check(m) \in Closer
    BY <1>1, Kinds DEF checkPermission, IInv, MediaInv
  <2>2. \A t \in Media, c \in Closer : c # Check(m) => closers'[t][c] = closers[t][c]
    <3>1. CASE closers' = closers
      BY <3>1
    <3>2. CASE Go(track[m], Check(m), "setClosing")
      <4>1. Moves(track[m], Check(m), "setClosing")
        BY <2>1, <3>2, GoMoves DEF CloserAt
      <4> QED BY <4>1 DEF Moves
    <3> QED BY <1>1, <3>1, <3>2 DEF checkPermission, Go
  <2>3. /\ UNCHANGED <<canPublish, closing, forwarding>> /\ pc[m] = "permit"
        /\ pc'[m] = "done" /\ \A n \in Media : n # m => pc'[n] = pc[n]
    BY <1>1 DEF checkPermission, IInv, TypeOK
  <2> QED BY <2>2, <2>3, Kinds DEF BeginInv
<1>2. ASSUME NEW m \in Media, ReceiverCloses(m) PROVE BeginInv'
  <2>1. track[m] \in Media /\ TypeOK /\ Receiver(m) \in Closer
    BY <1>2, Kinds DEF ReceiverCloses, IInv, MediaInv
  <2>2. Moves(track[m], Receiver(m), "setClosing")
    BY <1>2, <2>1, GoMoves DEF ReceiverCloses, CloserAt
  <2>3. \A t \in Media, c \in Closer : c # Receiver(m) => closers'[t][c] = closers[t][c]
    BY <2>2 DEF Moves
  <2>4. /\ UNCHANGED <<canPublish, closing, pc>> /\ m \in forwarding
        /\ forwarding' = forwarding \ {m} /\ pc[m] \in {"permit", "done"}
    BY <1>2 DEF ReceiverCloses, IInv, MediaInv
  <2> QED BY <2>3, <2>4, Kinds DEF BeginInv
<1>3. ASSUME NEW c \in {Revoke, CloseAll},
             closers' = [t \in Media |->
               IF t \in Published THEN [closers[t] EXCEPT ![c].at = "setClosing"]
                                  ELSE closers[t]]
      PROVE  \A t \in Media, d \in Closer : d # c => closers'[t][d] = closers[t][d]
  BY <1>3 DEF IInv, TypeOK
<1>4. CASE SetPermission
  <2>1. \A t \in Media, d \in Closer : d # Revoke => closers'[t][d] = closers[t][d]
    BY <1>3, <1>4 DEF SetPermission
  <2>2. ~canPublish' /\ UNCHANGED <<closing, pc, forwarding>>
    BY <1>4 DEF SetPermission, mediaVars
  <2> QED BY <2>1, <2>2, Kinds DEF BeginInv
<1>5. CASE CloseTracks
  <2>1. \A t \in Media, d \in Closer : d # CloseAll => closers'[t][d] = closers[t][d]
    BY <1>3, <1>5 DEF CloseTracks
  <2>2. closing' = "tracks" /\ UNCHANGED <<canPublish, pc, forwarding>>
    BY <1>5 DEF CloseTracks, mediaVars
  <2> QED BY <2>1, <2>2, Kinds DEF BeginInv
<1> QED BY <1>1, <1>2, <1>4, <1>5

(* Every step keeps this.                                                  *)
LEMMA NextBegin == IInv /\ BeginInv /\ [Next]_vars => BeginInv'
<1> SUFFICES ASSUME IInv, BeginInv, [Next]_vars PROVE BeginInv'
  OBVIOUS
<1> USE DEF clientVars, pendingVars, mediaVars, trackVars
<1>1. CASE AddTrack \/ SendMedia
  <2>1. /\ UNCHANGED <<closers, canPublish, closing, forwarding>>
        /\ \A m \in Media : pc'[m] = pc[m]
             \/ {pc[m], pc'[m]} \cap {"permit", "done"} = {}
    <3>1. CASE AddTrack
      BY <3>1 DEF AddTrack, handlePendingRemoteTracks, IInv, MediaInv
    <3>2. CASE SendMedia
      <4>1. fired + 1 \in Media => pc[fired + 1] = "none"
        BY DEF IInv, TypeOK, MediaInv, Media
      <4> QED BY <3>2, <4>1 DEF SendMedia, IInv, TypeOK
    <3> QED BY <1>1, <3>1, <3>2
  <2> QED BY <2>1, BeginAside
<1>2. ASSUME NEW m \in Media,
             mediaTrackReceived(m) \/ AddOnClose(m) \/ GetBufferPair(m) \/ AddReceiver(m)
      PROVE  BeginInv'
  <2>1. /\ UNCHANGED <<closers, canPublish, closing>>
        /\ pc[m] \in {"received", "register", "attach", "setup"}
    BY <1>2 DEF mediaTrackReceived, AddOnClose, GetBufferPair, AddReceiver
  <2>2. \A n \in Media : n # m => pc'[n] = pc[n] /\ (n \in forwarding' => n \in forwarding)
    <3>1. CASE mediaTrackReceived(m)
      BY <3>1 DEF mediaTrackReceived, Drop, WaitForMid, JoinTrack, WaitForRequest,
         addMediaTrack, IInv, TypeOK
    <3>2. CASE AddOnClose(m) \/ GetBufferPair(m)
      BY <3>2 DEF AddOnClose, GetBufferPair, IInv, TypeOK
    <3>3. CASE AddReceiver(m)
      BY <3>3 DEF AddReceiver, RefuseMedia, KeepReceiver, SetupReceiver, IInv, TypeOK
    <3> QED BY <1>2, <3>1, <3>2, <3>3
  <2> QED BY <2>1, <2>2, BeginAside
<1>3. CASE \/ \E m \in Media : checkPermission(m) \/ ReceiverCloses(m)
           \/ SetPermission \/ CloseTracks
  BY <1>3, StartBegin
<1>4. ASSUME NEW t \in Media, NEW c \in Closer, CloseStep(t, c) PROVE BeginInv'
  BY <1>4, CloseStepBegin
<1>5. CASE \/ \E m \in Media : EndMedia(m)
           \/ \E t \in Media : CloseWithFlush(t) \/ AddSubscriber(t)
           \/ ClearPending \/ Disconnect \/ UNCHANGED vars
  <2>1. UNCHANGED <<closers, canPublish, pc, forwarding>>
    BY <1>5, Zenon DEF EndMedia, CloseWithFlush, AddSubscriber, CheckOpen,
       InsertSubscriber, CheckStillOpen, ClearPending, Disconnect, vars
  <2>2. closing' \in {"no", "pending"} => closing \in {"no", "pending"}
    BY <1>5 DEF EndMedia, CloseWithFlush, AddSubscriber, CheckOpen,
       InsertSubscriber, CheckStillOpen, ClearPending, Disconnect, vars
  <2> QED BY <2>1, <2>2, BeginAside
<1> QED BY <1>1, <1>2, <1>3, <1>4, <1>5, Zenon DEF Next, MediaStep, TrackStep, Close

(* In the beginning every closer is idle.                                  *)
LEMMA InitBegin == Init => BeginInv
BY Kinds DEF Init, BeginInv, Idle

(* The invariant holds in every reachable state.                           *)
THEOREM AlwaysIInv == SafeSpec => [](IInv /\ BeginInv)
  BY InitIInv, NextIInv, InitBegin, NextBegin, PTL DEF SafeSpec

(* The maps of pending and published tracks, the media and the tracks keep *)
(* their types, for any number of requests and remote tracks; a further    *)
(* request for a pending client id gets a track id (line 1176).            *)
THEOREM TypeCorrect == Spec => []TypeOK
<1>1. IInv => TypeOK
  BY DEF IInv
<1> QED BY <1>1, AlwaysIInv, PTL DEF Spec, SafeSpec

(* A subscriber of a closed track is flushed, or the closer that took the  *)
(* receiver out (ClearReceiver, ClearAllReceivers) or AddSubscriber (line  *)
(* 591) has yet to remove it: whoever marks the track closed, in whatever  *)
(* order receivers are cleared, and whenever the subscriber is inserted,   *)
(* nobody relies on another who is already past it.                        *)
THEOREM ClosedTracksAreLeft == Spec => []ClosedTrackIsLeft
<1>1. IInv => ClosedTrackIsLeft
  BY DEF IInv, TrackInv, ReceiverInv, SubscriberInv, Going, ClosedTrackIsLeft, At
<1> QED BY <1>1, AlwaysIInv, PTL DEF Spec, SafeSpec

-----------------------------------------------------------------------------
(* Tracks do not overlap.                                                  *)

(* At most one track is on the list.                                       *)
OneOnList ==
  \A i, j \in Sid : publishedTracks[i] # 0 /\ publishedTracks[j] # 0 => i = j

(* Without a disturbance a track is closed by its receivers only, and is on
   the list from when it is made until the closer that marked it closed takes
   it off.                                                                 *)
Undisturbed == closing = "no" /\ canPublish

Listed(t) == sid[t] \in Sid /\ publishedTracks[sid[t]] = t

ListedInv ==
  Undisturbed =>
    \A t \in Media :
      /\ \A c \in Closer : closers[t][c].at # "idle" => Handler(c)
      /\ \A c \in Closer : closers[t][c].at # "remove"
      /\ \A c \in Closer : closers[t][c].at = "unlist" =>
           state[t] = "closed" /\ Listed(t)
      /\ \A c, d \in Closer :
           closers[t][c].at = "unlist" /\ closers[t][d].at = "unlist" => c = d
      /\ state[t] \in {"open", "closing"} => Listed(t)

OverlapInv == OneOnList /\ ListedInv

(* Steps that leave the tracks, their closers and the list alone, and end no
   disturbance, keep this.                                                 *)
LEMMA ListAside ==
  ASSUME OverlapInv, UNCHANGED <<publishedTracks, state, sid, closers>>,
         Undisturbed' => Undisturbed
  PROVE  OverlapInv'
BY DEF OverlapInv, OneOnList, ListedInv, Listed

(* A disturbance takes the condition away.                                 *)
LEMMA DisturbedOverlap ==
  ASSUME OverlapInv, ~Undisturbed',
         \/ UNCHANGED publishedTracks
         \/ \A i \in Sid : publishedTracks'[i] = 0 \/ publishedTracks'[i] = publishedTracks[i]
  PROVE  OverlapInv'
BY DEF OverlapInv, OneOnList, ListedInv

(* A track is made only when the list is empty.                            *)
LEMMA AddMediaTrackOverlap ==
  ASSUME IInv, OverlapInv, NEW m \in Media, mediaTrackReceived(m), addMediaTrack(m)
  PROVE  OverlapInv'
<1>1. Head(pendingTracks) \in Sid
  BY DEF IInv, TypeOK, addMediaTrack, IsQueued
<1>2. \A i \in Sid : publishedTracks[i] = 0
  BY DEF addMediaTrack, Published, IInv, TypeOK
<1>3. /\ state' = [state EXCEPT ![m] = "open"]
      /\ sid' = [sid EXCEPT ![m] = Head(pendingTracks)]
      /\ publishedTracks' = [publishedTracks EXCEPT ![Head(pendingTracks)] = m]
      /\ UNCHANGED <<closers, canPublish, closing>>
  BY DEF mediaTrackReceived, addMediaTrack
<1>4. OneOnList'
  BY <1>1, <1>2, <1>3 DEF OneOnList, IInv, TypeOK
<1>5. ASSUME Undisturbed, NEW t \in Media, t # m
      PROVE  /\ state[t] \notin {"open", "closing"}
             /\ \A c \in Closer : closers[t][c].at # "unlist"
  BY <1>2, <1>5 DEF OverlapInv, ListedInv, Listed, Media
<1>6. Listed(m)' /\ \A t \in Media \ {m} : state'[t] = state[t]
  BY <1>1, <1>3 DEF Listed, IInv, TypeOK
<1>7. \A c \in Closer : closers[m][c].at = "idle"
  BY DEF IInv, MediaInv, TrackInv, NoneIsBare, mediaTrackReceived
<1>8. ListedInv'
  BY <1>3, <1>5, <1>6, <1>7 DEF OverlapInv, ListedInv, Undisturbed
<1> QED BY <1>4, <1>8 DEF OverlapInv

(* A closer moves: when nothing disturbs, it is the handler of a receiver. *)
LEMMA CloserOverlap ==
  ASSUME IInv, OverlapInv, NEW t \in Media, NEW c \in Closer, NEW at,
         Moves(t, c, at), UNCHANGED <<sid, canPublish, closing, publishedTracks>>,
         Undisturbed => Handler(c) /\ at # "remove",
         \A u \in Media \ {t} : state'[u] = state[u],
         Undisturbed /\ state'[t] \in {"open", "closing"} =>
           state[t] \in {"open", "closing"},
         at = "unlist" => state'[t] = "closed" /\ state[t] = "closing",
         state[t] = "closed" => state'[t] = "closed"
  PROVE  OverlapInv'
<1>1. OneOnList'
  BY DEF OverlapInv, OneOnList
<1>2. ASSUME Undisturbed PROVE ListedInv'
  <2>1. \A u \in Media : Listed(u)' <=> Listed(u)
    BY DEF Listed
  <2>2. \A u \in Media, d \in Closer :
          \/ closers'[u][d] = closers[u][d]
          \/ u = t /\ d = c /\ closers'[u][d].at = at
    BY DEF Moves
  <2> SUFFICES ASSUME NEW u \in Media
      PROVE  /\ \A d \in Closer : closers'[u][d].at # "idle" => Handler(d)
             /\ \A d \in Closer : closers'[u][d].at # "remove"
             /\ \A d \in Closer : closers'[u][d].at = "unlist" =>
                  state'[u] = "closed" /\ Listed(u)
             /\ \A d, e \in Closer :
                  closers'[u][d].at = "unlist" /\ closers'[u][e].at = "unlist" => d = e
             /\ state'[u] \in {"open", "closing"} => Listed(u)
    BY <2>1 DEF ListedInv
  <2>3. CASE u # t
    <3>1. state'[u] = state[u] /\ \A d \in Closer : closers'[u][d] = closers[u][d]
      BY <2>2, <2>3
    <3> QED BY <1>2, <3>1 DEF OverlapInv, ListedInv
  <2>4. CASE u = t /\ at = "unlist"
    <3>1. \A d \in Closer : closers[t][d].at # "unlist"
      BY <1>2, <2>4 DEF OverlapInv, ListedInv
    <3>2. Listed(t) /\ state'[t] = "closed"
      BY <1>2, <2>4 DEF OverlapInv, ListedInv
    <3> QED BY <1>2, <2>2, <2>4, <3>1, <3>2 DEF OverlapInv, ListedInv
  <2>5. CASE u = t /\ at # "unlist"
    BY <1>2, <2>2, <2>5 DEF OverlapInv, ListedInv
  <2> QED BY <2>3, <2>4, <2>5
<1>3. ListedInv'
  BY <1>2 DEF ListedInv, Undisturbed
<1> QED BY <1>1, <1>3 DEF OverlapInv

(* A closer that is at work on an undisturbed track is a receiver's.       *)
LEMMA CloserIsReceiver ==
  ASSUME OverlapInv, NEW t \in Media, NEW c \in Closer, ~At(t, c, "idle"), Undisturbed
  PROVE  Handler(c)
BY DEF OverlapInv, ListedInv, At

(* The closers' steps keep the list.                                       *)
LEMMA CloseStepOverlap ==
  ASSUME IInv, OverlapInv, NEW t \in Media, NEW c \in Closer, CloseStep(t, c)
  PROVE  OverlapInv'
<1>1. CASE SetClosing(t, c)
  <2>1. Moves(t, c, "clear")
    BY <1>1, GoMoves DEF SetClosing, IInv, CloserAt
  <2>2. /\ \A u \in Media \ {t} : state'[u] = state[u]
        /\ state'[t] \in {"open", "closing"} => state[t] \in {"open", "closing"}
        /\ state[t] = "closed" => state'[t] = "closed"
    BY <1>1 DEF SetClosing, IInv, TypeOK
  <2>3. Undisturbed => Handler(c)
    BY <1>1, CloserIsReceiver DEF SetClosing, At
  <2>4. UNCHANGED <<sid, canPublish, closing, publishedTracks>>
    BY <1>1 DEF SetClosing
  <2> DEFINE at == "clear"
  <2>5. Moves(t, c, at) /\ at # "remove" /\ at # "unlist"
    BY <2>1
  <2> HIDE DEF at
  <2> QED BY <2>2, <2>3, <2>4, <2>5, CloserOverlap
<1>2. CASE ClearReceiver(t, c) \/ removeAllSubscribersForMime(t, c)
  <2>1. PICK at \in {"removeSubs", "mark"} : Moves(t, c, at)
    BY <1>2, GoMoves DEF ClearReceiver, removeAllSubscribersForMime, IInv, CloserAt
  <2>2. Undisturbed => Handler(c)
    BY <1>2, CloserIsReceiver DEF ClearReceiver, removeAllSubscribersForMime, At
  <2>3. UNCHANGED <<sid, canPublish, closing, publishedTracks, state>>
    BY <1>2 DEF ClearReceiver, removeAllSubscribersForMime
  <2>4. at # "remove" /\ at # "unlist"
    BY <2>1
  <2> QED BY <2>1, <2>2, <2>3, <2>4, CloserOverlap
<1>3. CASE MarkClosed(t, c)
  <2>1. state[t] \in {"closing", "closed"}
    BY <1>3 DEF MarkClosed, IInv, TypeOK, TrackInv, NoneIsBare, ReceiverInv, Cleared, At
  <2>2. PICK at \in {"unlist", "remove", "done"} :
          /\ Moves(t, c, at)
          /\ at = "unlist" => state[t] = "closing"
          /\ at = "remove" => ~Handler(c)
    BY <1>3, <2>1, GoMoves DEF MarkClosed, IInv, AfterClose, CloserAt
  <2>3. Undisturbed => Handler(c)
    BY <1>3, CloserIsReceiver DEF MarkClosed, At
  <2>4. (\A u \in Media \ {t} : state'[u] = state[u]) /\ state'[t] = "closed"
    BY <1>3 DEF MarkClosed, IInv, TypeOK
  <2>5. UNCHANGED <<sid, canPublish, closing, publishedTracks>>
    BY <1>3 DEF MarkClosed
  <2> QED BY <2>2, <2>3, <2>4, <2>5, CloserOverlap
<1>4. CASE Unqueue(t, c)
  <2> DEFINE at == AfterClose(c)
             waits == IF AfterClose(c) = "done" THEN {} ELSE pendingRemoteTracks
  <2>1. at \in {"remove", "done"} /\ waits \in SUBSET Media /\ (at = "remove" => ~Handler(c))
    BY DEF IInv, TypeOK, AfterClose
  <2>2. closers' = [closers EXCEPT ![t][c] = [at |-> at, waits |-> waits]]
    BY <1>4 DEF Unqueue
  <2>3. Undisturbed => Handler(c)
    BY <1>4, CloserIsReceiver DEF Unqueue, At
  <2>4. UNCHANGED <<sid, canPublish, closing, publishedTracks, state>>
    BY <1>4 DEF Unqueue, trackVars
  <2> HIDE DEF at, waits
  <2>5. Moves(t, c, at) /\ at # "unlist"
    BY <2>1, <2>2, EndMoves DEF IInv
  <2> QED BY <2>1, <2>3, <2>4, <2>5, CloserOverlap
<1>5. CASE Unlist(t, c)
  <2>1. Moves(t, c, "unqueue")
    BY <1>5, GoMoves DEF Unlist, IInv, CloserAt
  <2>2. /\ publishedTracks' = [publishedTracks EXCEPT ![sid[t]] = 0]
        /\ closers[t][c].at = "unlist"
        /\ UNCHANGED <<sid, canPublish, closing, state>>
    BY <1>5 DEF Unlist, trackVars, At
  <2>3. OneOnList'
    BY <2>2 DEF OverlapInv, OneOnList, IInv, TypeOK
  <2>4. ASSUME Undisturbed PROVE ListedInv'
    <3>1. \A u \in Media, d \in Closer :
            \/ closers'[u][d] = closers[u][d] /\ ~(u = t /\ d = c)
            \/ u = t /\ d = c /\ closers'[u][d].at = "unqueue"
      BY <2>1 DEF Moves
    <3>2. /\ Listed(t) /\ state[t] = "closed"
          /\ \A d \in Closer : closers'[t][d].at # "unlist"
      BY <2>2, <2>4, <3>1 DEF OverlapInv, ListedInv
    <3>3. ASSUME NEW u \in Media, u # t, Listed(u) PROVE Listed(u)'
      <4>1. sid[u] # sid[t]
        BY <3>2, <3>3 DEF Listed
      <4> QED BY <2>2, <3>3, <4>1 DEF Listed, IInv, TypeOK
    <3>4. Handler(c)
      BY <2>2, <2>4 DEF OverlapInv, ListedInv
    <3> SUFFICES ASSUME NEW u \in Media
        PROVE  /\ \A d \in Closer : closers'[u][d].at # "idle" => Handler(d)
               /\ \A d \in Closer : closers'[u][d].at # "remove"
               /\ \A d \in Closer : closers'[u][d].at = "unlist" =>
                    state[u] = "closed" /\ Listed(u)'
               /\ \A d, e \in Closer :
                    closers'[u][d].at = "unlist" /\ closers'[u][e].at = "unlist" => d = e
               /\ state[u] \in {"open", "closing"} => Listed(u)'
      BY <2>2 DEF ListedInv
    <3>5. CASE u = t
      BY <2>4, <3>1, <3>2, <3>4, <3>5 DEF OverlapInv, ListedInv
    <3>6. CASE u # t
      <4>1. \A d \in Closer : closers'[u][d] = closers[u][d]
        BY <3>1, <3>6
      <4> QED BY <2>4, <3>3, <3>6, <4>1 DEF OverlapInv, ListedInv
    <3> QED BY <3>5, <3>6
  <2>5. ListedInv'
    BY <2>2, <2>4 DEF ListedInv, Undisturbed
  <2> QED BY <2>3, <2>5 DEF OverlapInv
<1>6. CASE RemovePublishedTrack(t, c)
  <2>1. ~Undisturbed
    BY <1>6 DEF RemovePublishedTrack, At, OverlapInv, ListedInv
  <2>2. \A i \in Sid : publishedTracks'[i] = 0 \/ publishedTracks'[i] = publishedTracks[i]
    BY <1>6 DEF RemovePublishedTrack, IInv, TypeOK
  <2>3. ~Undisturbed'
    BY <1>6, <2>1 DEF RemovePublishedTrack, Undisturbed
  <2> QED BY <2>2, <2>3, DisturbedOverlap
<1> QED BY <1>1, <1>2, <1>3, <1>4, <1>5, <1>6 DEF CloseStep

(* The receiver of media that ended starts closing.                        *)
LEMMA ReceiverClosesOverlap ==
  ASSUME IInv, OverlapInv, NEW m \in Media, ReceiverCloses(m)
  PROVE  OverlapInv'
<1>1. /\ track[m] \in Media /\ Receiver(m) \in Closer
      /\ Handler(Receiver(m))
  BY Kinds DEF ReceiverCloses, IInv, MediaInv, Handler, Receiver
<1>2. Moves(track[m], Receiver(m), "setClosing")
  BY <1>1, GoMoves DEF ReceiverCloses, IInv, CloserAt
<1>3. UNCHANGED <<sid, canPublish, closing, publishedTracks, state>>
  BY DEF ReceiverCloses, trackVars
<1> DEFINE at == "setClosing"
<1>4. Moves(track[m], Receiver(m), at) /\ at # "remove" /\ at # "unlist"
  BY <1>2
<1> HIDE DEF at
<1> QED BY <1>1, <1>3, <1>4, CloserOverlap

(* Every step keeps the list.                                              *)
LEMMA StepOverlap == IInv /\ OverlapInv /\ [Next]_vars => OverlapInv'
<1> SUFFICES ASSUME IInv, OverlapInv, [Next]_vars PROVE OverlapInv'
  OBVIOUS
<1> USE DEF clientVars, pendingVars, mediaVars, trackVars
<1>1. CASE \/ AddTrack \/ SendMedia \/ UNCHANGED vars
           \/ \E m \in Media : \/ EndMedia(m) \/ AddOnClose(m)
                              \/ GetBufferPair(m) \/ AddReceiver(m)
           \/ \E t \in Media : AddSubscriber(t) \/ CloseWithFlush(t)
  <2>1. UNCHANGED <<publishedTracks, state, sid, closers, canPublish, closing>>
    BY <1>1, Zenon DEF AddTrack, SendMedia, vars, EndMedia, AddOnClose,
       GetBufferPair, AddReceiver, AddSubscriber, CheckOpen, InsertSubscriber,
       CheckStillOpen, CloseWithFlush
  <2> QED BY <2>1, ListAside DEF Undisturbed
<1>2. ASSUME NEW m \in Media, mediaTrackReceived(m) PROVE OverlapInv'
  <2>1. CASE Drop(m) \/ WaitForMid(m) \/ JoinTrack(m) \/ WaitForRequest(m)
    <3>1. UNCHANGED <<publishedTracks, state, sid, closers, canPublish, closing>>
      BY <1>2, <2>1, Zenon DEF mediaTrackReceived, Drop, WaitForMid, JoinTrack,
         WaitForRequest
    <3> QED BY <3>1, ListAside DEF Undisturbed
  <2>2. CASE addMediaTrack(m)
    BY <1>2, <2>2, AddMediaTrackOverlap
  <2> QED BY <1>2, <2>1, <2>2 DEF mediaTrackReceived
<1>3. ASSUME NEW m \in Media, checkPermission(m) PROVE OverlapInv'
  <2>1. UNCHANGED <<publishedTracks, state, sid, canPublish, closing>>
    BY <1>3 DEF checkPermission
  <2>2. canPublish => UNCHANGED closers
    BY <1>3 DEF checkPermission
  <2>3. CASE canPublish
    BY <2>1, <2>2, <2>3, ListAside DEF Undisturbed
  <2>4. CASE ~canPublish
    BY <2>1, <2>4, DisturbedOverlap DEF Undisturbed
  <2> QED BY <2>3, <2>4
<1>4. ASSUME NEW m \in Media, ReceiverCloses(m) PROVE OverlapInv'
  BY <1>4, ReceiverClosesOverlap
<1>6. ASSUME NEW t \in Media, NEW c \in Closer, CloseStep(t, c) PROVE OverlapInv'
  BY <1>6, CloseStepOverlap
<1>5. CASE SetPermission \/ Close
  <2>1. ~Undisturbed'
    BY <1>5 DEF SetPermission, Close, ClearPending, CloseTracks, Disconnect, Undisturbed
  <2>2. \/ UNCHANGED publishedTracks
        \/ \A i \in Sid : publishedTracks'[i] = 0
    BY <1>5 DEF SetPermission, Close, ClearPending, CloseTracks, Disconnect
  <2> QED BY <2>1, <2>2, DisturbedOverlap
<1> QED BY <1>1, <1>2, <1>3, <1>4, <1>5, <1>6 DEF Next, MediaStep, TrackStep

(* In the beginning the list is empty.                                     *)
LEMMA InitOverlap == Init => OverlapInv
BY DEF Init, OverlapInv, OneOnList, ListedInv, Listed, Closer, Idle

(* As long as the participant may publish and is not closing, a track of a
   client id is made only after the one before it is closed (the queued flag
   of addPendingTrackLocked and getPendingTrack), for any number of requests
   and of media, whatever their order.                                     *)
THEOREM TracksDoNotOverlapSafe == Spec => []TracksDoNotOverlap
<1>1. IInv /\ OverlapInv => TracksDoNotOverlap
  <2> SUFFICES ASSUME OverlapInv, Undisturbed, NEW s \in Media, NEW t \in Media,
                      {state[s], state[t]} \subseteq {"open", "closing"}
               PROVE  s = t
    BY DEF TracksDoNotOverlap, Undisturbed
  <2>1. Listed(s) /\ Listed(t)
    BY DEF OverlapInv, ListedInv
  <2> QED BY <2>1 DEF OverlapInv, OneOnList, Listed, Media
<1> QED BY <1>1, InitOverlap, StepOverlap, AlwaysIInv, PTL DEF Spec, SafeSpec

=============================================================================
